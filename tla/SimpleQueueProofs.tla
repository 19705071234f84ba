--------------------------- MODULE SimpleQueueProofs ---------------------------
(***************************************************************************)
(* Proofs about SimpleQueue for any goroutines, names, addresses, messages *)
(* and capacities: the lock keeps a blocked goroutine's queue in place, so *)
(* no channel is closed under a sender and none is closed twice; closing a *)
(* queue loses no message; and the lock is always passed on.               *)
(*                                                                         *)
(* Then proofs about the program of SimpleQueueDemo for any publishers and *)
(* messages: each of its steps is a step of SimpleQueue, no call fails,    *)
(* every event is received in order, and there is one place where it can   *)
(* stop before its end.                                                    *)
(***************************************************************************)
EXTENDS SimpleQueueDemo, SequenceTheorems, TLAPS

InReadSection == {"read", "send", "recv", "runlock"}
InWriteSection == {"drain", "write", "unlock"}

\* The lock's books agree with where the goroutines are, and a writer runs alone.
LockInv ==
    /\ \A p \in Goroutine : pc[p] \in InReadSection <=> p \in readers
    /\ \A p \in Goroutine : pc[p] \in InWriteSection <=> writer = p
    /\ \A p \in Goroutine : pc[p] \in {"write", "unlock"} => readers = {}

\* A goroutine inside a call runs a call of the kind its place says.
CallInv ==
    \A p \in Goroutine :
        /\ pc[p] # "idle" => call[p] \in Call
        /\ pc[p] = "send" => call[p].op = "Publish"

\* A blocked goroutine's queue is the registered one, and open for a sender.
BlockedInv ==
    \A p \in Goroutine :
        pc[p] \in {"send", "recv"} =>
            /\ ptr[p] \in QueueId
            /\ ptr[p] = queues[call[p].name]
            /\ pc[p] = "send" => ~heap[ptr[p]].chClosed

\* mq.closed says whether the channel is closed.
ClosedInv == \A q \in QueueId : heap[q].closed = heap[q].chClosed

IInv == TypeOK /\ LockInv /\ CallInv /\ BlockedInv /\ ClosedInv /\ NoPanic

\* A call names a name, whatever its operation; only Publish carries a message and only
\* CreateQueue a capacity.
LEMMA CallFields ==
    ASSUME NEW c \in Call
    PROVE  /\ c.name \in Name
           /\ c.op \in ReadOp \cup WriteOp
           /\ c.op = "Publish" => c.msg \in Message
           /\ c.op = "CreateQueue" => c.buffer \in Buffer
BY DEF Call, ReadOp, WriteOp

\* Closing one channel sets its two flags and touches no other queue.
LEMMA CloseOne ==
    ASSUME heap \in [QueueId -> QueueValue], NEW q \in QueueId, CloseChannel(q)
    PROVE  /\ heap' \in [QueueId -> QueueValue]
           /\ heap'[q].closed /\ heap'[q].chClosed
           /\ \A x \in QueueId \ {q} : heap'[x] = heap[x]
BY DEF CloseChannel, QueueValue

\* Replacing one buffer leaves every flag of every queue alone.
LEMMA ReplaceBuffer ==
    ASSUME heap \in [QueueId -> QueueValue], NEW q \in QueueId, NEW b \in Seq(Message),
           heap' = [heap EXCEPT ![q].buf = b]
    PROVE  /\ heap' \in [QueueId -> QueueValue]
           /\ \A x \in QueueId : /\ heap'[x].chClosed = heap[x].chClosed
                                 /\ heap'[x].closed = heap[x].closed
           /\ heap'[q].buf = b
           /\ \A x \in QueueId \ {q} : heap'[x] = heap[x]
BY DEF QueueValue

\* The initial state satisfies the inductive invariant.
LEMMA InitIInv == Init => IInv
<1> SUFFICES ASSUME Init PROVE IInv
  OBVIOUS
<1>1. TypeOK
  <2>1. heap \in [QueueId -> QueueValue]
    <3>1. NewQueue(0) \in QueueValue
      BY DEF NewQueue, QueueValue
    <3> QED BY <3>1 DEF Init
  <2>2. /\ accepted \in [QueueId -> Seq(Message)]
        /\ delivered \in [QueueId -> Seq(Message)]
    BY DEF Init
  <2>3. pc \in [Goroutine -> Pc] /\ ret \in [Goroutine -> Result]
    BY DEF Init, Pc, Result
  <2>4. call \in [Goroutine -> Call \cup {NoCall}]
    BY DEF Init
  <2>5. /\ queues \in [Name -> QueueId \cup {Nil}]
        /\ ptr \in [Goroutine -> QueueId \cup {Nil}]
    BY DEF Init
  <2> QED BY <2>1, <2>2, <2>3, <2>4, <2>5 DEF Init, TypeOK
<1>2. LockInv
  BY NobodyAssumption DEF Init, LockInv, InReadSection, InWriteSection
<1>3. CallInv /\ BlockedInv /\ ClosedInv /\ NoPanic
  BY DEF Init, CallInv, BlockedInv, ClosedInv, NoPanic, NewQueue
<1> QED BY <1>1, <1>2, <1>3 DEF IInv

\* Beginning a call, and taking and leaving the lock, keep the invariant.
LEMMA LockSteps ==
    ASSUME IInv, NEW p \in Goroutine,
           \/ \E c \in Call : Invoke(p, c)
           \/ RLock(p) \/ RUnlock(p) \/ Lock(p) \/ Drain(p) \/ Unlock(p)
    PROVE  IInv'
<1> USE DEF IInv
<1>1. TypeOK'
  <2>1. ASSUME NEW c \in Call, Invoke(p, c) PROVE TypeOK'
    BY <2>1 DEF Invoke, TypeOK, Pc, Result
  <2>2. CASE RLock(p) \/ RUnlock(p) \/ Lock(p) \/ Drain(p)
    BY <2>2 DEF RLock, RUnlock, Lock, Drain, TypeOK, Pc
  <2>3. CASE Unlock(p)
    BY <2>3 DEF Unlock, TypeOK, Pc
  <2> QED BY <2>1, <2>2, <2>3
<1>2. LockInv'
  <2>1. ASSUME NEW c \in Call, Invoke(p, c) PROVE LockInv'
    BY <2>1 DEF Invoke, TypeOK, LockInv, InReadSection, InWriteSection
  <2>2. CASE RLock(p)
    <3>1. CASE writer = Nobody
      BY ZenonT(60), <2>2, <3>1, NobodyAssumption
         DEF RLock, TypeOK, LockInv, InReadSection, InWriteSection
    <3>2. CASE writer # Nobody
      BY <2>2, <3>2 DEF RLock, TypeOK, LockInv, InReadSection, InWriteSection
    <3> QED BY <3>1, <3>2
  <2>3. CASE RUnlock(p)
    BY <2>3 DEF RUnlock, TypeOK, LockInv, InReadSection, InWriteSection
  <2>4. CASE Lock(p) \/ Drain(p)
    BY <2>4, NobodyAssumption
       DEF Lock, Drain, TypeOK, LockInv, InReadSection, InWriteSection
  <2>5. CASE Unlock(p)
    BY <2>5, NobodyAssumption
       DEF Unlock, TypeOK, LockInv, InReadSection, InWriteSection
  <2> QED BY <2>1, <2>2, <2>3, <2>4, <2>5
<1>3. CallInv'
  BY DEF Invoke, RLock, RUnlock, Lock, Drain, Unlock, TypeOK, CallInv
<1>4. BlockedInv'
  BY DEF Invoke, RLock, RUnlock, Lock, Drain, Unlock, TypeOK, BlockedInv
<1>5. ClosedInv' /\ NoPanic'
  BY DEF Invoke, RLock, RUnlock, Lock, Drain, Unlock, ClosedInv, NoPanic
<1> QED BY <1>1, <1>2, <1>3, <1>4, <1>5

\* The bodies that run under the exclusive lock keep the invariant: nobody is blocked.
LEMMA WriteSteps ==
    ASSUME IInv, NEW p \in Goroutine,
           CreateQueue(p) \/ CloseQueue(p) \/ DeleteQueue(p)
    PROVE  IInv'
<1> USE DEF IInv
<1>1. pc[p] = "write" /\ \A r \in Goroutine : pc[r] \notin InReadSection
  BY DEF CreateQueue, CloseQueue, DeleteQueue, LockInv
<1>2. call[p] \in Call /\ call[p].name \in Name
  BY <1>1, CallFields DEF CallInv
<1>3. Registered(p) \in QueueId \cup {Nil}
  BY <1>2 DEF Registered, TypeOK
<1>4. CASE CreateQueue(p)
  <2>1. CASE Registered(p) # Nil
    BY <1>1, <1>2, <1>4, <2>1, NobodyAssumption
       DEF CreateQueue, TypeOK, Pc, LockInv, CallInv, BlockedInv, ClosedInv, NoPanic,
           InReadSection, InWriteSection
  <2>2. CASE Registered(p) = Nil
    <3>1. PICK q \in Unreachable :
            /\ queues' = [queues EXCEPT ![call[p].name] = q]
            /\ heap' = [heap EXCEPT ![q] = NewQueue(call[p].buffer)]
            /\ accepted' = [accepted EXCEPT ![q] = <<>>]
            /\ delivered' = [delivered EXCEPT ![q] = <<>>]
      BY <1>4, <2>2 DEF CreateQueue
    <3>2. q \in QueueId
      BY DEF Unreachable
    <3>3. NewQueue(call[p].buffer) \in QueueValue
      <4>1. call[p].op = "CreateQueue"
        BY <1>4 DEF CreateQueue
      <4>2. call[p].buffer \in Nat
        BY <1>2, <4>1, CallFields, BufferAssumption
      <4> QED BY <4>2 DEF NewQueue, QueueValue
    <3>4. TypeOK'
      <4>1. /\ queues' \in [Name -> QueueId \cup {Nil}]
            /\ heap' \in [QueueId -> QueueValue]
        BY <1>2, <3>1, <3>2, <3>3 DEF TypeOK
      <4>2. /\ accepted' \in [QueueId -> Seq(Message)]
            /\ delivered' \in [QueueId -> Seq(Message)]
        BY <3>1, <3>2 DEF TypeOK
      <4>3. pc' \in [Goroutine -> Pc]
        BY <1>4 DEF CreateQueue, TypeOK, Pc
      <4> QED BY <1>4, <4>1, <4>2, <4>3 DEF CreateQueue, TypeOK
    <3>5. LockInv' /\ CallInv' /\ NoPanic'
      BY <1>1, <1>4, NobodyAssumption
         DEF CreateQueue, TypeOK, LockInv, CallInv, NoPanic, InReadSection, InWriteSection
    <3>6. BlockedInv'
      BY <1>1, <1>4 DEF CreateQueue, TypeOK, BlockedInv, InReadSection
    <3>7. ClosedInv'
      BY <3>1, <3>2 DEF TypeOK, ClosedInv, NewQueue
    <3> QED BY <3>4, <3>5, <3>6, <3>7
  <2> QED BY <2>1, <2>2
<1>5. CASE CloseQueue(p) \/ DeleteQueue(p)
  <2>1. \/ UNCHANGED <<heap, panicked>>
        \/ /\ Registered(p) \in QueueId /\ CloseChannel(Registered(p))
           /\ ~heap[Registered(p)].closed
    BY <1>3, <1>5 DEF CloseQueue, DeleteQueue
  <2>2. heap' \in [QueueId -> QueueValue] /\ ClosedInv'
    <3>1. CASE UNCHANGED heap
      BY <3>1 DEF TypeOK, ClosedInv
    <3>2. CASE Registered(p) \in QueueId /\ CloseChannel(Registered(p))
      <4>1. /\ heap' \in [QueueId -> QueueValue]
            /\ heap'[Registered(p)].closed /\ heap'[Registered(p)].chClosed
            /\ \A x \in QueueId \ {Registered(p)} : heap'[x] = heap[x]
        BY <3>2, CloseOne DEF TypeOK
      <4>2. heap'[Registered(p)].closed = heap'[Registered(p)].chClosed
        BY <3>2, <4>1 DEF QueueValue
      <4> QED BY <4>1, <4>2 DEF ClosedInv
    <3> QED BY <2>1, <3>1, <3>2
  <2>3. NoPanic'
    BY <2>1 DEF CloseChannel, ClosedInv, NoPanic, TypeOK
  <2>4. TypeOK'
    <3>1. queues' \in [Name -> QueueId \cup {Nil}]
      BY <1>2, <1>5 DEF CloseQueue, DeleteQueue, TypeOK
    <3>2. ret' \in [Goroutine -> Result]
      BY <1>5 DEF CloseQueue, DeleteQueue, TypeOK, Result
    <3>3. panicked' \in BOOLEAN
      BY <2>1 DEF CloseChannel, TypeOK
    <3>4. pc' \in [Goroutine -> Pc]
      BY <1>5 DEF CloseQueue, DeleteQueue, TypeOK, Pc
    <3>5. UNCHANGED <<writer, readers, call, ptr, unsent, accepted, delivered>>
      BY <1>5 DEF CloseQueue, DeleteQueue
    <3> QED BY <2>2, <3>1, <3>2, <3>3, <3>4, <3>5 DEF TypeOK
  <2>5. LockInv' /\ CallInv'
    BY <1>1, <1>5, NobodyAssumption
       DEF CloseQueue, DeleteQueue, TypeOK, LockInv, CallInv, InReadSection, InWriteSection
  <2>6. BlockedInv'
    BY <1>1, <1>5 DEF CloseQueue, DeleteQueue, TypeOK, BlockedInv, InReadSection
  <2> QED BY <2>2, <2>3, <2>4, <2>5, <2>6
<1> QED BY <1>4, <1>5

\* Look-ups under the shared lock keep the invariant.
LEMMA ReadSteps ==
    ASSUME IInv, NEW p \in Goroutine,
           GetQueue(p) \/ Publish(p) \/ Consume(p)
    PROVE  IInv'
<1> USE DEF IInv
<1>1. call[p] \in Call /\ call[p].name \in Name /\ Registered(p) \in QueueId \cup {Nil}
  BY CallFields DEF GetQueue, Publish, Consume, CallInv, Registered, TypeOK
<1>2. TypeOK'
  BY <1>1 DEF GetQueue, Publish, Consume, Fail, Block, TypeOK, Pc, Result
<1>3. LockInv'
  <2>1. CASE GetQueue(p)
    BY <2>1 DEF GetQueue, Fail, TypeOK, LockInv, InReadSection, InWriteSection
  <2>2. CASE Publish(p)
    BY ZenonT(60), <2>2 DEF Publish, Fail, Block, TypeOK, LockInv, InReadSection, InWriteSection
  <2>3. CASE Consume(p)
    BY <2>3 DEF Consume, Fail, Block, TypeOK, LockInv, InReadSection, InWriteSection
  <2> QED BY <2>1, <2>2, <2>3
<1>4. CallInv'
  BY DEF GetQueue, Publish, Consume, Fail, Block, TypeOK, CallInv
<1>5. ClosedInv' /\ NoPanic'
  <2>1. heap' = heap /\ panicked' = panicked
    BY DEF GetQueue, Publish, Consume
  <2> QED BY <2>1 DEF ClosedInv, NoPanic
<1>6. BlockedInv'
  <2>1. CASE GetQueue(p)
    BY <2>1 DEF GetQueue, TypeOK, BlockedInv
  <2>2. \A x \in Goroutine \ {p} : pc'[x] = pc[x] /\ ptr'[x] = ptr[x]
    BY DEF GetQueue, Publish, Consume, Fail, Block, TypeOK
  <2>3. UNCHANGED <<queues, heap, call>>
    BY DEF GetQueue, Publish, Consume
  <2>4. CASE Publish(p)
    <3>1. pc'[p] \in {"send", "recv"} =>
            /\ pc'[p] = "send" /\ ptr'[p] = Registered(p)
            /\ Registered(p) # Nil /\ ~heap[Registered(p)].closed
      BY <2>4 DEF Publish, Fail, Block, TypeOK
    <3> QED BY <1>1, <2>2, <2>3, <3>1 DEF BlockedInv, ClosedInv, Registered
  <2>5. CASE Consume(p)
    <3>1. pc'[p] \in {"send", "recv"} =>
            pc'[p] = "recv" /\ ptr'[p] = Registered(p) /\ Registered(p) # Nil
      BY <2>5 DEF Consume, Fail, Block, TypeOK
    <3> QED BY <1>1, <2>2, <2>3, <3>1 DEF BlockedInv, Registered
  <2> QED BY <2>1, <2>4, <2>5
<1> QED BY <1>2, <1>3, <1>4, <1>5, <1>6

\* Channel operations change no flag of any queue, and keep its value typed.
LEMMA ChannelFlags ==
    ASSUME IInv, NEW p \in Goroutine, NEW r \in Goroutine,
           Send(p) \/ Receive(p) \/ Handoff(p, r)
    PROVE  /\ heap' \in [QueueId -> QueueValue]
           /\ \A x \in QueueId : /\ heap'[x].chClosed = heap[x].chClosed
                                 /\ heap'[x].closed = heap[x].closed
<1> USE DEF IInv
<1>1. ptr[p] \in QueueId /\ call[p] \in Call
  BY DEF Send, Receive, Handoff, BlockedInv, CallInv
<1>2. pc[p] = "send" => call[p].msg \in Message
  BY <1>1, CallFields DEF CallInv
<1>3. \/ UNCHANGED heap
      \/ \E b \in Seq(Message) : heap' = [heap EXCEPT ![ptr[p]].buf = b]
  <2>1. heap[ptr[p]].buf \in Seq(Message)
    BY <1>1 DEF TypeOK, QueueValue
  <2>2. CASE Send(p)
    <3>1. Append(heap[ptr[p]].buf, call[p].msg) \in Seq(Message)
      BY <1>2, <2>1, <2>2 DEF Send
    <3> QED BY <2>2, <3>1 DEF Send
  <2>3. CASE Receive(p)
    <3>1. heap[ptr[p]].buf # <<>> => Tail(heap[ptr[p]].buf) \in Seq(Message)
      BY <2>1
    <3> QED BY <2>3, <3>1 DEF Receive
  <2> QED BY <2>2, <2>3 DEF Handoff
<1> QED BY <1>1, <1>3, ReplaceBuffer DEF TypeOK

\* Channel operations keep the invariant: a sender's channel is open.
LEMMA ChannelSteps ==
    ASSUME IInv, NEW p \in Goroutine, NEW r \in Goroutine,
           Send(p) \/ Receive(p) \/ Handoff(p, r)
    PROVE  IInv'
<1> USE DEF IInv
<1>1. ptr[p] \in QueueId /\ call[p] \in Call
  BY DEF Send, Receive, Handoff, BlockedInv, CallInv
<1>2. pc[p] = "send" => call[p].msg \in Message /\ ~heap[ptr[p]].chClosed
  BY <1>1, CallFields DEF CallInv, BlockedInv
<1>3. /\ heap' \in [QueueId -> QueueValue]
      /\ \A x \in QueueId : /\ heap'[x].chClosed = heap[x].chClosed
                            /\ heap'[x].closed = heap[x].closed
  BY ChannelFlags
<1>4. NoPanic'
  BY <1>2 DEF Send, Receive, Handoff, NoPanic
<1>5. TypeOK'
  <2>1. accepted' \in [QueueId -> Seq(Message)]
    <3>1. CASE pc[p] = "send"
      <4>1. Append(accepted[ptr[p]], call[p].msg) \in Seq(Message)
        BY <1>1, <1>2, <3>1 DEF TypeOK
      <4> QED BY <1>1, <3>1, <4>1 DEF Send, Receive, Handoff, TypeOK
    <3>2. CASE pc[p] # "send"
      BY <3>2 DEF Send, Receive, Handoff, TypeOK
    <3> QED BY <3>1, <3>2
  <2>2. delivered' \in [QueueId -> Seq(Message)] /\ ret' \in [Goroutine -> Result]
    <3>1. heap[ptr[p]].buf # <<>> => Head(heap[ptr[p]].buf) \in Message
      BY <1>1 DEF TypeOK, QueueValue
    <3>2. CASE Send(p)
      BY <3>2 DEF Send, TypeOK
    <3>3. CASE Receive(p)
      <4>1. heap[ptr[p]].buf # <<>> =>
              Append(delivered[ptr[p]], Head(heap[ptr[p]].buf)) \in Seq(Message)
        BY <1>1, <3>1 DEF TypeOK
      <4> QED BY <1>1, <3>1, <3>3, <4>1 DEF Receive, TypeOK, Result
    <3>4. CASE Handoff(p, r)
      <4>1. Append(delivered[ptr[p]], call[p].msg) \in Seq(Message)
        BY <1>1, <1>2, <3>4 DEF Handoff, TypeOK
      <4> QED BY <1>1, <1>2, <3>4, <4>1 DEF Handoff, TypeOK, Result
    <3> QED BY <3>2, <3>3, <3>4
  <2> QED BY <1>3, <1>4, <2>1, <2>2 DEF Send, Receive, Handoff, TypeOK, Pc, NoPanic
<1>6. LockInv' /\ CallInv'
  <2>1. CASE Send(p)
    BY <2>1 DEF Send, TypeOK, LockInv, CallInv, InReadSection, InWriteSection
  <2>2. CASE Receive(p)
    BY <2>2 DEF Receive, TypeOK, LockInv, CallInv, InReadSection, InWriteSection
  <2>3. CASE Handoff(p, r)
    BY <2>3 DEF Handoff, TypeOK, LockInv, CallInv, InReadSection, InWriteSection
  <2> QED BY <2>1, <2>2, <2>3
<1>7. BlockedInv' /\ ClosedInv'
  <2>1. UNCHANGED <<queues, call, ptr>>
    BY DEF Send, Receive, Handoff
  <2>2. \A x \in Goroutine : pc'[x] = pc[x] \/ pc'[x] = "runlock"
    BY DEF Send, Receive, Handoff, TypeOK
  <2> QED BY <1>3, <2>1, <2>2 DEF BlockedInv, ClosedInv
<1> QED BY <1>4, <1>5, <1>6, <1>7

\* Every step, and every stutter, keeps the inductive invariant.
LEMMA NextIInv == IInv /\ [Next]_vars => IInv'
<1> SUFFICES ASSUME IInv, [Next]_vars PROVE IInv'
  OBVIOUS
<1>1. ASSUME NEW p \in Goroutine, \E c \in Call : Invoke(p, c) PROVE IInv'
  BY <1>1, LockSteps
<1>2. ASSUME NEW p \in Goroutine, Step(p) PROVE IInv'
  BY <1>2, LockSteps, WriteSteps, ReadSteps, ChannelSteps DEF Step
<1>3. ASSUME NEW p \in Goroutine, NEW r \in Goroutine, Handoff(p, r) PROVE IInv'
  BY <1>3, ChannelSteps
<1>4. CASE UNCHANGED vars
  BY <1>4 DEF vars, IInv, TypeOK, LockInv, CallInv, BlockedInv, ClosedInv, NoPanic
<1> QED BY <1>1, <1>2, <1>3, <1>4 DEF Next, Internal

\* The inductive invariant holds in every reachable state.
THEOREM Inductive == Spec => []IInv
BY InitIInv, NextIInv, PTL DEF Spec

\* Every variable of the orchestrator, its lock and its callers keeps its type.
THEOREM TypeCorrect == Spec => []TypeOK
<1>1. IInv => TypeOK
  BY DEF IInv
<1> QED BY <1>1, Inductive, PTL

\* No Publish sends on a closed channel and no queue is closed twice (main.go:77, 60, 108).
THEOREM NeverPanics == Spec => []NoPanic
<1>1. IInv => NoPanic
  BY DEF IInv
<1> QED BY <1>1, Inductive, PTL

\* A goroutine blocked in Publish or Consume is blocked on the queue its name denotes.
THEOREM BlockedOnRegisteredQueue == Spec => []BlockedOnRegistered
<1>1. IInv => BlockedOnRegistered
  BY NilAssumption DEF IInv, BlockedInv, BlockedOnRegistered, Registered
<1> QED BY <1>1, Inductive, PTL

\* While a goroutine is blocked in Publish or Consume no queue comes, goes or closes.
THEOREM FrozenWhileSomeoneBlocked == Spec => FrozenWhileBlocked
<1> DEFINE Frozen ==
      (\E p \in Goroutine : pc[p] \in {"send", "recv"})
        => /\ queues' = queues
           /\ \A q \in QueueId : heap'[q].chClosed = heap[q].chClosed
<1>1. IInv /\ [Next]_vars => [Frozen]_vars
  <2> SUFFICES ASSUME IInv, Next, NEW b \in Goroutine, pc[b] \in {"send", "recv"}
               PROVE  /\ queues' = queues
                      /\ \A q \in QueueId : heap'[q].chClosed = heap[q].chClosed
    OBVIOUS
  <2>1. readers # {}
    BY DEF IInv, LockInv, InReadSection
  <2>2. \A p \in Goroutine : pc[p] # "write"
    BY <2>1 DEF IInv, LockInv
  <2>3. ASSUME NEW p \in Goroutine, NEW c \in Call, Invoke(p, c)
        PROVE  queues' = queues /\ heap' = heap
    BY <2>3 DEF Invoke
  <2>4. ASSUME NEW p \in Goroutine, Step(p), ~Send(p), ~Receive(p)
        PROVE  queues' = queues /\ heap' = heap
    BY <2>2, <2>4 DEF Step, RLock, RUnlock, Lock, Drain, Unlock, CreateQueue, CloseQueue,
                      DeleteQueue, GetQueue, Publish, Consume
  <2>5. ASSUME NEW p \in Goroutine, Send(p) \/ Receive(p)
        PROVE  /\ queues' = queues
               /\ \A q \in QueueId : heap'[q].chClosed = heap[q].chClosed
    BY <2>5, ChannelFlags DEF Send, Receive
  <2>6. ASSUME NEW p \in Goroutine, NEW r \in Goroutine, Handoff(p, r)
        PROVE  queues' = queues /\ heap' = heap
    BY <2>6 DEF Handoff
  <2> QED BY <2>3, <2>4, <2>5, <2>6 DEF Next, Internal
<1> QED BY <1>1, Inductive, PTL DEF Spec, FrozenWhileBlocked

--------------------------------------------------------------------------------
(* Draining: a Consume that reports the end of a queue has found a closed channel with an
   empty buffer, and nothing fills that buffer again while the call returns. *)

\* A call that has not come to its channel operation's end has returned nothing.
RetInv ==
    \A p \in Goroutine : pc[p] \in {"rlock", "parked", "read", "send", "recv"} => ret[p] = "ok"

\* What a channel took is what it gave and what it holds, and it holds no more than fits.
BooksInv ==
    \A q \in QueueId :
        /\ accepted[q] = delivered[q] \o heap[q].buf
        /\ Len(heap[q].buf) <= heap[q].cap

\* A Consume that reports the end still points to a closed and empty channel.
EndInv ==
    \A p \in Goroutine :
        pc[p] = "runlock" /\ ret[p] = "ErrQueueClosed" =>
            /\ ptr[p] \in QueueId
            /\ heap[ptr[p]].chClosed /\ heap[ptr[p]].buf = <<>>

DrainInv == RetInv /\ BooksInv /\ EndInv

\* Moving the head of b to the end of d keeps d \o b.
LEMMA MoveHead ==
    ASSUME NEW S, NEW d \in Seq(S), NEW b \in Seq(S), b # <<>>
    PROVE  Append(d, Head(b)) \o Tail(b) = d \o b
<1>1. Head(b) \in S /\ Tail(b) \in Seq(S) /\ Len(Tail(b)) = Len(b) - 1
  BY HeadTailProperties
<1>2. \A i \in 1..Len(Tail(b)) : Tail(b)[i] = b[i + 1]
  BY HeadTailProperties
<1>3. Append(d, Head(b)) \in Seq(S) /\ Len(Append(d, Head(b))) = Len(d) + 1
  BY <1>1
<1>4. Len(b) \in Nat \ {0} /\ Len(d) \in Nat
  BY EmptySeq, LenProperties
<1>5. /\ Append(d, Head(b)) \o Tail(b) \in Seq(S)
      /\ Len(Append(d, Head(b)) \o Tail(b)) = Len(d) + Len(b)
      /\ d \o b \in Seq(S) /\ Len(d \o b) = Len(d) + Len(b)
  BY <1>1, <1>3, <1>4, ConcatProperties
<1>6. ASSUME NEW i \in 1..(Len(d) + Len(b))
      PROVE  (Append(d, Head(b)) \o Tail(b))[i] = (d \o b)[i]
  <2>1. (d \o b)[i] = IF i <= Len(d) THEN d[i] ELSE b[i - Len(d)]
    BY ConcatProperties
  <2>2. (Append(d, Head(b)) \o Tail(b))[i]
          = IF i <= Len(d) + 1 THEN Append(d, Head(b))[i] ELSE Tail(b)[i - (Len(d) + 1)]
    BY <1>1, <1>3, <1>4, ConcatProperties
  <2>3. CASE i <= Len(d)
    BY <1>4, <2>1, <2>2, <2>3
  <2>4. CASE i = Len(d) + 1
    BY <1>4, <2>1, <2>2, <2>4
  <2>5. CASE i > Len(d) + 1
    <3>1. i - (Len(d) + 1) \in 1..Len(Tail(b))
      BY <1>1, <1>4, <2>5
    <3> QED BY <1>2, <1>4, <2>1, <2>2, <2>5, <3>1
  <2> QED BY <1>4, <2>3, <2>4, <2>5
<1> QED BY <1>5, <1>6, SeqEqual

\* Closing a channel keeps what it holds.
LEMMA CloseKeepsBuffer ==
    ASSUME heap \in [QueueId -> QueueValue], NEW q \in QueueId, CloseChannel(q)
    PROVE  \A x \in QueueId : heap'[x].buf = heap[x].buf /\ heap'[x].cap = heap[x].cap
BY DEF CloseChannel, QueueValue

\* Initially every channel is empty and no call has returned.
LEMMA InitDrain == Init => DrainInv
<1> SUFFICES ASSUME Init PROVE DrainInv
  OBVIOUS
<1>1. BooksInv
  BY DEF Init, BooksInv, NewQueue
<1> QED BY <1>1 DEF Init, DrainInv, RetInv, EndInv

\* Beginning a call, and taking and leaving the lock, touch no channel.
LEMMA LockStepsDrain ==
    ASSUME IInv, DrainInv, NEW p \in Goroutine,
           \/ \E c \in Call : Invoke(p, c)
           \/ RLock(p) \/ RUnlock(p) \/ Lock(p) \/ Drain(p) \/ Unlock(p)
    PROVE  DrainInv'
<1> USE DEF DrainInv
<1>1. UNCHANGED <<heap, accepted, delivered>>
  BY DEF Invoke, RLock, RUnlock, Lock, Drain, Unlock
<1>2. BooksInv'
  BY <1>1 DEF BooksInv
<1>3. RetInv'
  BY DEF IInv, TypeOK, RetInv, Invoke, RLock, RUnlock, Lock, Drain, Unlock
<1>4. EndInv'
  BY <1>1 DEF IInv, TypeOK, EndInv, Invoke, RLock, RUnlock, Lock, Drain, Unlock
<1> QED BY <1>2, <1>3, <1>4

\* A writer meets no reader, and at most empties or closes a channel.
LEMMA WriteStepsDrain ==
    ASSUME IInv, DrainInv, NEW p \in Goroutine,
           CreateQueue(p) \/ CloseQueue(p) \/ DeleteQueue(p)
    PROVE  DrainInv'
<1> USE DEF DrainInv
<1>1. pc[p] = "write" /\ \A r \in Goroutine : pc[r] \notin InReadSection
  BY DEF CreateQueue, CloseQueue, DeleteQueue, IInv, LockInv
<1>2. pc' = [pc EXCEPT ![p] = "unlock"] /\ \A r \in Goroutine \ {p} : ret'[r] = ret[r]
  BY DEF CreateQueue, CloseQueue, DeleteQueue, IInv, TypeOK
<1>3. RetInv' /\ EndInv'
  BY <1>1, <1>2 DEF IInv, TypeOK, RetInv, EndInv, InReadSection
<1>4. BooksInv'
  <2>1. CASE CreateQueue(p)
    <3>1. CASE UNCHANGED <<heap, accepted, delivered>>
      BY <3>1 DEF BooksInv
    <3>2. CASE ~UNCHANGED <<heap, accepted, delivered>>
      <4>1. PICK q \in Unreachable :
              /\ heap' = [heap EXCEPT ![q] = NewQueue(call[p].buffer)]
              /\ accepted' = [accepted EXCEPT ![q] = <<>>]
              /\ delivered' = [delivered EXCEPT ![q] = <<>>]
        BY <2>1, <3>2 DEF CreateQueue
      <4>2. q \in QueueId
        BY DEF Unreachable
      <4>3. /\ heap'[q].buf = <<>> /\ heap'[q].cap = call[p].buffer
            /\ accepted'[q] = <<>> /\ delivered'[q] = <<>>
        BY <4>1, <4>2 DEF IInv, TypeOK, NewQueue
      <4>4. call[p].buffer \in Nat
        <5>1. call[p] \in Call /\ call[p].op = "CreateQueue"
          BY <1>1, <2>1 DEF CreateQueue, IInv, CallInv
        <5> QED BY <5>1, CallFields, BufferAssumption
      <4>5. \A x \in QueueId \ {q} : /\ heap'[x] = heap[x] /\ accepted'[x] = accepted[x]
                                     /\ delivered'[x] = delivered[x]
        BY <4>1, <4>2 DEF IInv, TypeOK
      <4>6. accepted'[q] = delivered'[q] \o heap'[q].buf
        <5>1. <<>> \o <<>> = <<>>
          BY EmptySeq, ConcatEmptySeq
        <5> QED BY <4>3, <5>1
      <4>7. Len(heap'[q].buf) <= heap'[q].cap
        BY <4>3, <4>4
      <4> QED BY <4>5, <4>6, <4>7 DEF BooksInv
    <3> QED BY <3>1, <3>2
  <2>2. CASE CloseQueue(p) \/ DeleteQueue(p)
    <3>1. accepted' = accepted /\ delivered' = delivered
      BY <2>2 DEF CloseQueue, DeleteQueue
    <3>2. \/ UNCHANGED heap
          \/ Registered(p) # Nil /\ CloseChannel(Registered(p))
      BY <2>2 DEF CloseQueue, DeleteQueue
    <3>3. Registered(p) \in QueueId \cup {Nil}
      <4>1. call[p] \in Call
        BY <1>1 DEF IInv, CallInv
      <4> QED BY <4>1, CallFields DEF Registered, IInv, TypeOK
    <3>4. \A x \in QueueId : heap'[x].buf = heap[x].buf /\ heap'[x].cap = heap[x].cap
      BY <3>2, <3>3, CloseKeepsBuffer DEF IInv, TypeOK
    <3> QED BY <3>1, <3>4 DEF BooksInv
  <2> QED BY <2>1, <2>2
<1> QED BY <1>3, <1>4

\* A look-up touches no channel and reports no end.
LEMMA ReadStepsDrain ==
    ASSUME IInv, DrainInv, NEW p \in Goroutine, GetQueue(p) \/ Publish(p) \/ Consume(p)
    PROVE  DrainInv'
<1> USE DEF DrainInv
<1>1. UNCHANGED <<heap, accepted, delivered>>
  BY DEF GetQueue, Publish, Consume
<1>2. BooksInv'
  BY <1>1 DEF BooksInv
<1>3. RetInv'
  BY DEF IInv, TypeOK, RetInv, GetQueue, Publish, Consume, Fail, Block
<1>4. EndInv'
  <2>1. pc[p] = "read" /\ ret[p] = "ok"
    BY DEF GetQueue, Publish, Consume, RetInv
  <2>2. ret'[p] # "ErrQueueClosed"
    BY <2>1 DEF IInv, TypeOK, GetQueue, Publish, Consume, Fail, Block
  <2>3. \A x \in Goroutine \ {p} : pc'[x] = pc[x] /\ ptr'[x] = ptr[x] /\ ret'[x] = ret[x]
    BY DEF IInv, TypeOK, GetQueue, Publish, Consume, Fail, Block
  <2> QED BY <1>1, <2>2, <2>3 DEF EndInv
<1> QED BY <1>2, <1>3, <1>4

\* A send fills an open channel, so none whose end is being reported.
LEMMA SendDrain ==
    ASSUME IInv, DrainInv, NEW p \in Goroutine, Send(p)
    PROVE  DrainInv'
<1> USE DEF DrainInv
<1> DEFINE q == ptr[p]
           m == call[p].msg
<1>1. /\ q \in QueueId /\ ~heap[q].chClosed /\ m \in Message
      /\ pc[p] = "send" /\ ret[p] = "ok"
  <2>1. call[p] \in Call /\ call[p].op = "Publish" /\ pc[p] = "send"
    BY DEF Send, IInv, CallInv
  <2> QED BY <2>1, CallFields DEF IInv, BlockedInv, RetInv
<1>2. /\ heap[q] \in QueueValue /\ delivered[q] \in Seq(Message)
      /\ Len(heap[q].buf) < heap[q].cap
      /\ heap' = [heap EXCEPT ![q].buf = Append(@, m)]
      /\ accepted' = [accepted EXCEPT ![q] = Append(@, m)] /\ delivered' = delivered
  BY <1>1 DEF Send, IInv, TypeOK
<1>3. \A x \in QueueId \ {q} : heap'[x] = heap[x] /\ accepted'[x] = accepted[x]
  BY <1>2 DEF IInv, TypeOK
<1>4. /\ heap'[q].buf = Append(heap[q].buf, m) /\ heap'[q].cap = heap[q].cap
      /\ accepted'[q] = Append(accepted[q], m)
  BY <1>1, <1>2 DEF IInv, TypeOK, QueueValue
<1>5. BooksInv'
  <2>1. heap[q].buf \in Seq(Message) /\ heap[q].cap \in Nat
    BY <1>2 DEF QueueValue
  <2>2. Append(delivered[q] \o heap[q].buf, m) = delivered[q] \o Append(heap[q].buf, m)
    <3>1. delivered[q] \in Seq(Message) /\ m \in Message
      BY <1>1, <1>2
    <3>2. ASSUME NEW d \in Seq(Message), NEW b \in Seq(Message), NEW x \in Message
          PROVE  Append(d \o b, x) = d \o Append(b, x)
      OBVIOUS
    <3> QED BY <2>1, <3>1, <3>2, Zenon
  <2>3. Len(Append(heap[q].buf, m)) <= heap[q].cap
    BY <1>1, <1>2, <2>1
  <2> QED BY <1>1, <1>2, <1>3, <1>4, <2>2, <2>3 DEF BooksInv
<1>6. RetInv'
  BY DEF Send, IInv, TypeOK, RetInv
<1>7. EndInv'
  <2>1. \A x \in Goroutine : ptr'[x] = ptr[x] /\ ret'[x] = ret[x]
    BY DEF Send
  <2>2. \A x \in Goroutine \ {p} : pc'[x] = pc[x]
    BY DEF Send, IInv, TypeOK
  <2> QED BY <1>1, <1>3, <2>1, <2>2 DEF EndInv
<1> QED BY <1>5, <1>6, <1>7

\* A handoff passes an empty buffer by.
LEMMA HandoffDrain ==
    ASSUME IInv, DrainInv, NEW p \in Goroutine, NEW r \in Goroutine, Handoff(p, r)
    PROVE  DrainInv'
<1> USE DEF DrainInv
<1> DEFINE q == ptr[p]
           m == call[p].msg
<1>1. /\ q \in QueueId /\ m \in Message
      /\ pc[p] = "send" /\ ret[p] = "ok" /\ pc[r] = "recv" /\ p # r
  <2>1. call[p] \in Call /\ call[p].op = "Publish" /\ pc[p] = "send" /\ pc[r] = "recv"
    BY DEF Handoff, IInv, CallInv
  <2> QED BY <2>1, CallFields DEF IInv, BlockedInv, RetInv
<1>2. heap[q].buf = <<>>
  <2>1. heap[q].buf \in Seq(Message) /\ Len(heap[q].buf) <= 0
    BY <1>1 DEF Handoff, IInv, TypeOK, QueueValue, BooksInv
  <2> QED BY <2>1, EmptySeq
<1>3. BooksInv'
  <2>1. /\ heap' = heap
        /\ accepted' = [accepted EXCEPT ![q] = Append(@, m)]
        /\ delivered' = [delivered EXCEPT ![q] = Append(@, m)]
    BY DEF Handoff
  <2>2. delivered[q] \in Seq(Message) /\ Append(delivered[q], m) \in Seq(Message)
    BY <1>1 DEF IInv, TypeOK
  <2>3. accepted[q] = delivered[q]
    BY <1>1, <1>2, <2>2, ConcatEmptySeq DEF BooksInv
  <2>4. Append(delivered[q], m) \o <<>> = Append(delivered[q], m)
    BY <2>2, ConcatEmptySeq
  <2>5. accepted'[q] = delivered'[q] \o heap'[q].buf
    BY <1>1, <1>2, <2>1, <2>3, <2>4 DEF IInv, TypeOK
  <2> QED BY <1>1, <2>1, <2>5 DEF IInv, TypeOK, BooksInv
<1>4. RetInv'
  BY DEF Handoff, IInv, TypeOK, RetInv
<1>5. EndInv'
  <2>1. ret'[r] # "ErrQueueClosed" /\ ret'[p] = "ok"
    BY <1>1, MessageAssumption DEF Handoff, IInv, TypeOK
  <2>2. \A x \in Goroutine \ {p, r} : pc'[x] = pc[x] /\ ret'[x] = ret[x]
    BY DEF Handoff, IInv, TypeOK
  <2>3. ptr' = ptr /\ heap' = heap
    BY DEF Handoff
  <2> QED BY <2>1, <2>2, <2>3 DEF EndInv
<1> QED BY <1>3, <1>4, <1>5

\* A receive moves the oldest message out, or reports a closed and empty channel.
LEMMA ReceiveDrain ==
    ASSUME IInv, DrainInv, NEW p \in Goroutine, Receive(p)
    PROVE  DrainInv'
<1> USE DEF DrainInv
<1> DEFINE q == ptr[p]
<1>1. q \in QueueId /\ pc[p] = "recv" /\ heap[q].buf \in Seq(Message)
  BY DEF Receive, IInv, BlockedInv, TypeOK, QueueValue
<1>2. RetInv'
  BY DEF Receive, IInv, TypeOK, RetInv
<1>3. /\ ptr' = ptr /\ accepted' = accepted
      /\ \A x \in Goroutine \ {p} : pc'[x] = pc[x] /\ ret'[x] = ret[x]
  BY DEF Receive, IInv, TypeOK
<1>4. CASE heap[q].buf = <<>>
  <2>1. heap' = heap /\ delivered' = delivered /\ heap[q].chClosed
    BY <1>4 DEF Receive
  <2> QED BY <1>1, <1>2, <1>3, <1>4, <2>1 DEF BooksInv, EndInv
<1>5. CASE heap[q].buf # <<>>
  <2>1. /\ ret'[p] = Head(heap[q].buf)
        /\ heap' = [heap EXCEPT ![q].buf = Tail(@)]
        /\ delivered' = [delivered EXCEPT ![q] = Append(@, Head(heap[q].buf))]
    BY <1>5 DEF Receive, IInv, TypeOK
  <2>2. /\ heap'[q].buf = Tail(heap[q].buf) /\ heap'[q].cap = heap[q].cap
        /\ delivered'[q] = Append(delivered[q], Head(heap[q].buf))
        /\ \A x \in QueueId \ {q} : heap'[x] = heap[x] /\ delivered'[x] = delivered[x]
    BY <1>1, <2>1 DEF IInv, TypeOK, QueueValue
  <2>3. BooksInv'
    <3>1. delivered[q] \in Seq(Message) /\ heap[q].cap \in Nat
      BY <1>1 DEF IInv, TypeOK, QueueValue
    <3>2. delivered'[q] \o heap'[q].buf = delivered[q] \o heap[q].buf
      <4>1. heap[q].buf \in Seq(Message)
        BY <1>1 DEF IInv, TypeOK, QueueValue
      <4>2. Append(delivered[q], Head(heap[q].buf)) \o Tail(heap[q].buf)
              = delivered[q] \o heap[q].buf
        BY ONLY <1>5, <3>1, <4>1, MoveHead
      <4> QED BY ONLY <2>2, <4>2
    <3>3. Len(Tail(heap[q].buf)) <= Len(heap[q].buf)
      BY SMTT(30), <1>1, <1>5, HeadTailProperties, LenProperties
    <3>4. Len(heap'[q].buf) <= heap'[q].cap
      <4>1. Len(heap[q].buf) <= heap[q].cap
        BY <1>1 DEF BooksInv
      <4>2. Len(Tail(heap[q].buf)) \in Int /\ Len(heap[q].buf) \in Int
        BY <1>1, <1>5, HeadTailProperties, LenProperties
      <4> QED BY <2>2, <3>1, <3>3, <4>1, <4>2
    <3> QED BY <1>1, <1>3, <2>2, <3>2, <3>4 DEF BooksInv
  <2>4. EndInv'
    <3>1. ret'[p] # "ErrQueueClosed"
      BY <1>1, <1>5, <2>1, HeadTailProperties, MessageAssumption
    <3> QED BY <1>3, <1>5, <2>2, <3>1 DEF EndInv
  <2> QED BY <1>2, <2>3, <2>4
<1> QED BY <1>4, <1>5

\* Every step, and every stutter, keeps the books.
LEMMA NextDrain == IInv /\ DrainInv /\ [Next]_vars => DrainInv'
<1> SUFFICES ASSUME IInv, DrainInv, [Next]_vars PROVE DrainInv'
  OBVIOUS
<1>1. ASSUME NEW p \in Goroutine, \E c \in Call : Invoke(p, c) PROVE DrainInv'
  BY <1>1, LockStepsDrain
<1>2. ASSUME NEW p \in Goroutine, Step(p) PROVE DrainInv'
  BY <1>2, LockStepsDrain, WriteStepsDrain, ReadStepsDrain, SendDrain, ReceiveDrain
     DEF Step
<1>3. ASSUME NEW p \in Goroutine, NEW r \in Goroutine, Handoff(p, r) PROVE DrainInv'
  BY <1>3, HandoffDrain
<1>4. CASE UNCHANGED vars
  BY <1>4 DEF vars, DrainInv, RetInv, BooksInv, EndInv
<1> QED BY <1>1, <1>2, <1>3, <1>4 DEF Next, Internal

\* The books are kept in every reachable state.
THEOREM BooksKept == Spec => []DrainInv
BY InitDrain, NextDrain, Inductive, PTL DEF Spec

\* After a Consume has returned ErrQueueClosed every message that Publish accepted for the
\* queue has been delivered (main.go:90-93).
THEOREM CloseLosesNothing == Spec => []ClosedMeansDrained
<1>1. IInv /\ DrainInv => ClosedMeansDrained
  <2> SUFFICES ASSUME IInv, DrainInv, NEW p \in Goroutine,
                      pc[p] = "runlock", ret[p] = "ErrQueueClosed"
               PROVE  delivered[ptr[p]] = accepted[ptr[p]]
    BY DEF ClosedMeansDrained
  <2>1. ptr[p] \in QueueId /\ heap[ptr[p]].buf = <<>>
    BY DEF DrainInv, EndInv
  <2>2. delivered[ptr[p]] \in Seq(Message)
    BY <2>1 DEF IInv, TypeOK
  <2> QED BY <2>1, <2>2, ConcatEmptySeq DEF DrainInv, BooksInv
<1> QED BY <1>1, BooksKept, Inductive, PTL

--------------------------------------------------------------------------------
(* Progress: what a waiting goroutine waits for can happen. *)

\* The next step of p inside its call needs no other goroutine: the guards of Step.
MayRun(p) ==
    \/ pc[p] \in {"rlock", "read", "runlock", "unlock"}
    \/ pc[p] = "lock" /\ writer = Nobody
    \/ pc[p] = "drain" /\ readers = {}
    \/ /\ pc[p] = "write"
       /\ call[p].op = "CreateQueue" /\ Registered(p) = Nil => Unreachable # {}
    \/ /\ pc[p] = "send"
       /\ heap[ptr[p]].chClosed \/ Len(heap[ptr[p]].buf) < heap[ptr[p]].cap
    \/ /\ pc[p] = "recv"
       /\ heap[ptr[p]].buf # <<>> \/ heap[ptr[p]].chClosed

\* Readers park behind a writer only, and a queue is held only between look-up and unlock.
ParkInv ==
    \A p \in Goroutine :
        /\ pc[p] = "parked" => writer # Nobody
        /\ ptr[p] # Nil => pc[p] \in {"send", "recv", "runlock"}

\* Whoever waits for the lock waits for itself to be scheduled, for the writer, or for a
\* reader; and one of these can run, or is blocked on a channel.
LockPassesOn ==
    \A p \in Goroutine : pc[p] \in {"rlock", "parked", "lock", "drain"} =>
        \E r \in readers \cup ({writer, p} \cap Goroutine) :
            MayRun(r) \/ pc[r] \in {"send", "recv"}

\* Every step, and every stutter, keeps the invariant of parked readers.
LEMMA NextPark == IInv /\ ParkInv /\ [Next]_vars => ParkInv'
<1> SUFFICES ASSUME IInv, ParkInv, [Next]_vars PROVE ParkInv'
  OBVIOUS
<1> USE DEF IInv
<1>1. ASSUME NEW p \in Goroutine, NEW c \in Call, Invoke(p, c) PROVE ParkInv'
  BY <1>1 DEF Invoke, TypeOK, ParkInv
<1>2. ASSUME NEW p \in Goroutine, RLock(p) \/ RUnlock(p) PROVE ParkInv'
  BY <1>2 DEF RLock, RUnlock, TypeOK, ParkInv
<1>3. ASSUME NEW p \in Goroutine, Lock(p) \/ Drain(p) PROVE ParkInv'
  BY <1>3, NobodyAssumption DEF Lock, Drain, TypeOK, ParkInv
<1>4. ASSUME NEW p \in Goroutine, Unlock(p) PROVE ParkInv'
  BY <1>4 DEF Unlock, TypeOK, ParkInv
<1>5. ASSUME NEW p \in Goroutine, CreateQueue(p) \/ CloseQueue(p) \/ DeleteQueue(p)
      PROVE  ParkInv'
  <2>1. /\ pc[p] = "write" /\ pc' = [pc EXCEPT ![p] = "unlock"] /\ UNCHANGED <<writer, ptr>>
    BY <1>5 DEF CreateQueue, CloseQueue, DeleteQueue
  <2> QED BY <2>1 DEF TypeOK, ParkInv
<1>6. ASSUME NEW p \in Goroutine, GetQueue(p) \/ Publish(p) \/ Consume(p) PROVE ParkInv'
  <2>1. /\ pc[p] = "read" /\ writer' = writer
        /\ \A x \in Goroutine \ {p} : pc'[x] = pc[x] /\ ptr'[x] = ptr[x]
        /\ pc'[p] \in {"send", "recv", "runlock"}
    BY <1>6 DEF GetQueue, Publish, Consume, Fail, Block, TypeOK
  <2> QED BY <2>1 DEF ParkInv
<1>7. ASSUME NEW p \in Goroutine, NEW r \in Goroutine, Send(p) \/ Receive(p) \/ Handoff(p, r)
      PROVE  ParkInv'
  <2>1. /\ UNCHANGED <<writer, ptr>>
        /\ \A x \in Goroutine : \/ pc'[x] = pc[x]
                                \/ pc[x] \in {"send", "recv"} /\ pc'[x] = "runlock"
    BY <1>7 DEF Send, Receive, Handoff, TypeOK
  <2> QED BY <2>1 DEF ParkInv
<1>8. CASE UNCHANGED vars
  BY <1>8 DEF vars, ParkInv
<1> QED BY <1>1, <1>2, <1>3, <1>4, <1>5, <1>6, <1>7, <1>8 DEF Next, Internal, Step

\* The invariant of parked readers holds in every reachable state.
LEMMA Parks == Spec => []ParkInv
<1>1. Init => ParkInv
  BY DEF Init, ParkInv
<1> QED BY <1>1, NextPark, Inductive, PTL DEF Spec

\* A writer in its body can run it: while no reader holds a queue there is an address to use.
LEMMA WriterRuns ==
    ASSUME IInv, ParkInv, NEW p \in Goroutine, pc[p] = "write"
    PROVE  MayRun(p)
<1>1. \A r \in Goroutine : ptr[r] = Nil
  BY DEF IInv, LockInv, ParkInv, InReadSection
<1>2. ASSUME Registered(p) = Nil PROVE Unreachable # {}
  <2>1. call[p].name \in Name /\ queues[call[p].name] = Nil
    BY <1>2, CallFields DEF IInv, CallInv, Registered
  <2>2. PICK q \in QueueId : \A m \in Name : queues[m] # q
    BY <2>1, AddressAssumption DEF IInv, TypeOK
  <2> QED BY <1>1, <2>2, NilAssumption DEF Unreachable
<1> QED BY <1>2 DEF MayRun

\* The lock is always passed on: among the goroutines that someone waits for at the lock one
\* can run or is blocked on a channel (main.go:14 and every mu.Lock and mu.RLock).
THEOREM LockIsPassedOn == Spec => []LockPassesOn
<1>1. IInv /\ ParkInv => LockPassesOn
  <2> SUFFICES ASSUME IInv, ParkInv, NEW p \in Goroutine,
                      pc[p] \in {"rlock", "parked", "lock", "drain"}
               PROVE  \E r \in readers \cup ({writer, p} \cap Goroutine) :
                        MayRun(r) \/ pc[r] \in {"send", "recv"}
    BY DEF LockPassesOn
  <2>1. CASE pc[p] = "rlock" \/ (pc[p] = "lock" /\ writer = Nobody)
    BY <2>1 DEF MayRun
  <2>2. CASE pc[p] \in {"parked", "drain"} \/ (pc[p] = "lock" /\ writer # Nobody)
    <3>1. writer \in Goroutine /\ pc[writer] \in {"drain", "write", "unlock"}
      BY <2>2, NobodyAssumption DEF IInv, TypeOK, LockInv, ParkInv, InWriteSection
    <3>2. CASE pc[writer] = "unlock" \/ (pc[writer] = "drain" /\ readers = {})
      BY <3>1, <3>2 DEF MayRun
    <3>3. CASE pc[writer] = "write"
      BY <3>1, <3>3, WriterRuns
    <3>4. CASE pc[writer] = "drain" /\ readers # {}
      <4>1. PICK r \in readers : TRUE
        BY <3>4
      <4>2. r \in Goroutine /\ pc[r] \in {"read", "send", "recv", "runlock"}
        BY DEF IInv, TypeOK, LockInv, InReadSection
      <4> QED BY <4>2 DEF MayRun
    <3> QED BY <3>1, <3>2, <3>3, <3>4
  <2> QED BY <2>1, <2>2
<1> QED BY <1>1, Inductive, Parks, PTL

--------------------------------------------------------------------------------
(* The program of main: SimpleQueueDemo's steps are steps of SimpleQueue, and no call fails. *)

\* A goroutine's place inside a call fits the call's kind.
PlaceInv ==
    \A p \in Goroutine :
        /\ pc[p] \in {"lock", "drain", "write", "unlock"} => call[p].op \in WriteOp
        /\ pc[p] \in {"rlock", "parked", "read", "send", "recv", "runlock"} =>
             call[p].op \in ReadOp
        /\ pc[p] = "recv" => call[p].op = "Consume"

\* Places fit calls in every reachable state.
LEMMA Places == Spec => []PlaceInv
<1>1. Init => PlaceInv
  BY DEF Init, PlaceInv
<1>2. IInv /\ PlaceInv /\ [Next]_vars => PlaceInv'
  <2> SUFFICES ASSUME TypeOK, PlaceInv, [Next]_vars PROVE PlaceInv'
    BY DEF IInv
  <2>1. ASSUME NEW p \in Goroutine, NEW c \in Call, Invoke(p, c) PROVE PlaceInv'
    <3>1. c.op \in ReadOp \cup WriteOp
      BY CallFields
    <3>2. /\ call'[p] = c /\ pc'[p] = IF c.op \in ReadOp THEN "rlock" ELSE "lock"
          /\ \A x \in Goroutine \ {p} : call'[x] = call[x] /\ pc'[x] = pc[x]
      BY <2>1 DEF Invoke, TypeOK
    <3> QED BY <3>1, <3>2 DEF PlaceInv
  <2>2. ASSUME NEW p \in Goroutine,
               RLock(p) \/ RUnlock(p) \/ Lock(p) \/ Drain(p) \/ Unlock(p)
        PROVE  PlaceInv'
    BY <2>2 DEF RLock, RUnlock, Lock, Drain, Unlock, TypeOK, PlaceInv
  <2>3. ASSUME NEW p \in Goroutine, CreateQueue(p) \/ CloseQueue(p) \/ DeleteQueue(p)
        PROVE  PlaceInv'
    <3>1. pc[p] = "write" /\ pc' = [pc EXCEPT ![p] = "unlock"] /\ call' = call
      BY <2>3 DEF CreateQueue, CloseQueue, DeleteQueue
    <3> QED BY <3>1 DEF TypeOK, PlaceInv
  <2>4. ASSUME NEW p \in Goroutine, GetQueue(p) \/ Publish(p) \/ Consume(p)
        PROVE  PlaceInv'
    <3>1. /\ pc[p] = "read" /\ call' = call /\ pc'[p] \in {"runlock", "send", "recv"}
          /\ pc'[p] = "recv" => call[p].op = "Consume"
          /\ \A x \in Goroutine \ {p} : pc'[x] = pc[x]
      BY <2>4 DEF GetQueue, Publish, Consume, Fail, Block, TypeOK
    <3> QED BY <3>1 DEF PlaceInv
  <2>5. ASSUME NEW p \in Goroutine, NEW r \in Goroutine, Send(p) \/ Receive(p) \/ Handoff(p, r)
        PROVE  PlaceInv'
    <3>1. /\ call' = call /\ pc[p] \in {"send", "recv"}
          /\ \/ pc' = [pc EXCEPT ![p] = "runlock"]
             \/ pc[r] = "recv" /\ pc' = [pc EXCEPT ![p] = "runlock", ![r] = "runlock"]
      BY <2>5 DEF Send, Receive, Handoff
    <3>2. pc \in [Goroutine -> Pc]
      BY DEF TypeOK
    <3>3. \A x \in Goroutine :
            pc'[x] = pc[x] \/ (pc[x] \in {"send", "recv"} /\ pc'[x] = "runlock")
      <4>1. CASE pc' = [pc EXCEPT ![p] = "runlock"]
        BY <3>1, <3>2, <4>1
      <4>2. CASE pc[r] = "recv" /\ pc' = [pc EXCEPT ![p] = "runlock", ![r] = "runlock"]
        BY <3>1, <3>2, <4>2
      <4> QED BY <3>1, <4>1, <4>2
    <3> QED BY <3>1, <3>3 DEF PlaceInv
  <2>6. CASE UNCHANGED vars
    BY <2>6 DEF vars, PlaceInv
  <2> QED BY <2>1, <2>2, <2>3, <2>4, <2>5, <2>6 DEF Next, Internal, Step
<1> QED BY <1>1, <1>2, Inductive, PTL DEF Spec

\* What main calls, by the number of the call.
LEMMA MainCalls ==
    /\ Lines \in Nat /\ Len(MainProgram) = Lines + 8
    /\ MainProgram[1] = create("log", 100) /\ MainProgram[2] = create("jobs", 0)
    /\ \A i \in 3..(Lines + 2) : MainProgram[i] = on("Consume", "log")
    /\ MainProgram[Lines + 3] = on("DeleteQueue", "log")
    /\ MainProgram[Lines + 4] = on("Consume", "jobs")
    /\ MainProgram[Lines + 5] = on("DeleteQueue", "jobs")
    /\ MainProgram[Lines + 6] = create("events", 0)
    /\ MainProgram[Lines + 7] = on("CloseQueue", "events")
    /\ MainProgram[Lines + 8] = on("DeleteQueue", "events")
<1>1. Lines \in Nat
  <2>1. Batch[logger] \in Seq(Message)
    BY BatchAssumption DEF Sender
  <2> QED BY <2>1, LenProperties DEF Lines
<1>2. Len(MainProgram) = Lines + 8
  BY <1>1 DEF MainProgram
<1>3. \A i \in 3..(Lines + 2) : MainProgram[i] = on("Consume", "log")
  BY <1>1 DEF MainProgram
<1>4. MainProgram[1] = create("log", 100) /\ MainProgram[2] = create("jobs", 0)
  BY <1>1 DEF MainProgram
<1>5. /\ MainProgram[Lines + 3] = on("DeleteQueue", "log")
      /\ MainProgram[Lines + 4] = on("Consume", "jobs")
      /\ MainProgram[Lines + 5] = on("DeleteQueue", "jobs")
      /\ MainProgram[Lines + 6] = create("events", 0)
      /\ MainProgram[Lines + 7] = on("CloseQueue", "events")
      /\ MainProgram[Lines + 8] = on("DeleteQueue", "events")
  BY <1>1 DEF MainProgram
<1> QED BY <1>1, <1>2, <1>3, <1>4, <1>5

\* What a sender calls.
LEMMA SenderCalls ==
    ASSUME NEW p \in Sender
    PROVE  /\ Batch[p] \in Seq(Message) /\ Len(Batch[p]) \in Nat
           /\ Len(Program(p)) = Len(Batch[p])
           /\ \A i \in 1..Len(Batch[p]) : Program(p)[i] = publish(Target(p), Batch[p][i])
<1>1. p # main
  BY DemoAssumption
<1>2. Batch[p] \in Seq(Message) /\ Len(Batch[p]) \in Nat
  BY BatchAssumption, LenProperties
<1>3. Program(p) = [i \in 1..Len(Batch[p]) |-> publish(Target(p), Batch[p][i])]
  BY <1>1 DEF Program
<1>4. Len(Program(p)) = Len(Batch[p])
  BY ONLY <1>2, <1>3
<1> QED BY <1>2, <1>3, <1>4

\* A goroutine has begun no more calls than it has.
AtInv ==
    /\ at \in [Goroutine -> Nat]
    /\ \A p \in Goroutine \ {consumer} : at[p] <= Len(Program(p))

\* The lengths of programs are numbers.
LEMMA ProgramLengths ==
    \A p \in Goroutine \ {consumer} : Len(Program(p)) \in Nat
<1> SUFFICES ASSUME NEW p \in Goroutine \ {consumer} PROVE Len(Program(p)) \in Nat
  OBVIOUS
<1>1. CASE p = main
  BY <1>1, MainCalls DEF Program
<1>2. CASE p # main
  BY <1>2, DemoAssumption, SenderCalls
<1> QED BY <1>1, <1>2

\* No step begins a call that a program does not have.
LEMMA NextAt == AtInv /\ [DemoNext]_demoVars => AtInv'
<1> SUFFICES ASSUME AtInv, [DemoNext]_demoVars PROVE AtInv'
  OBVIOUS
<1>1. ASSUME NEW p \in Goroutine, NextCall(p) PROVE AtInv'
  <2>1. CASE p = consumer
    BY <1>1, <2>1 DEF NextCall, AtInv
  <2>2. CASE p # consumer
    <3>1. at' = [at EXCEPT ![p] = @ + 1] /\ at[p] # Len(Program(p))
      BY <1>1, <2>2 DEF NextCall, Returned
    <3>2. at[p] \in Nat /\ Len(Program(p)) \in Nat /\ at[p] <= Len(Program(p))
      BY <2>2, ProgramLengths DEF AtInv
    <3>3. at[p] + 1 <= Len(Program(p)) /\ at[p] + 1 \in Nat
      BY <3>1, <3>2
    <3> QED BY <3>1, <3>3 DEF AtInv
  <2> QED BY <2>1, <2>2
<1>2. ASSUME NEW p \in Goroutine, Run(p) PROVE AtInv'
  BY <1>2 DEF Run, AtInv
<1>3. CASE Save
  BY <1>3 DEF Save, AtInv
<1>4. CASE UNCHANGED demoVars
  BY <1>4 DEF demoVars, AtInv
<1> QED BY <1>1, <1>2, <1>3, <1>4 DEF DemoNext

\* Every goroutine stays within its program.
LEMMA WithinProgram == DemoSpec => []AtInv
<1>1. DemoInit => AtInv
  BY ProgramLengths DEF DemoInit, AtInv
<1> QED BY <1>1, NextAt, PTL DEF DemoSpec

\* The call a goroutine makes next is a call of the orchestrator.
NextOf(p) == IF p = consumer THEN on("Consume", "events") ELSE Program(p)[at[p] + 1]

\* Every record that the program calls with is a call.
LEMMA RecordsAreCalls ==
    /\ \A n \in {"log", "jobs", "events"}, m \in Message : publish(n, m) \in Call
    /\ on("Consume", "events") \in Call
    /\ \A c \in {create("log", 100), create("jobs", 0), create("events", 0),
                on("Consume", "log"), on("DeleteQueue", "log"), on("Consume", "jobs"),
                on("DeleteQueue", "jobs"), on("CloseQueue", "events"),
                on("DeleteQueue", "events")} : c \in Call
<1>1. {"log", "jobs", "events"} \subseteq Name /\ {0, 100} \subseteq Buffer
  BY DemoAssumption
<1>2. ASSUME NEW n \in Name PROVE on("Consume", n) \in Call /\ on("DeleteQueue", n) \in Call
                                  /\ on("CloseQueue", n) \in Call
  BY DEF on, Call
<1>3. ASSUME NEW n \in Name, NEW m \in Message PROVE publish(n, m) \in Call
  BY DEF publish, Call
<1>4. ASSUME NEW n \in Name, NEW b \in Buffer PROVE create(n, b) \in Call
  BY DEF create, Call
<1> QED BY <1>1, <1>2, <1>3, <1>4

\* Beginning a call of the program is Invoke of SimpleQueue, with a call of its kind.
LEMMA CallsAreCalls ==
    ASSUME AtInv, NEW p \in Goroutine, NextCall(p)
    PROVE  NextOf(p) \in Call /\ Invoke(p, NextOf(p))
<1>1. Invoke(p, NextOf(p))
  BY DEF NextCall, NextOf
<1>2. CASE p = consumer
  <2>1. NextOf(p) = on("Consume", "events")
    BY <1>2 DEF NextOf
  <2> QED BY <1>1, <2>1, RecordsAreCalls
<1>3. CASE p # consumer
  <2>1. /\ at[p] \in Nat /\ Len(Program(p)) \in Nat /\ at[p] <= Len(Program(p))
        /\ at[p] # Len(Program(p))
    BY <1>3, ProgramLengths DEF AtInv, NextCall, Returned
  <2>2. at[p] + 1 \in 1..Len(Program(p))
    BY <2>1
  <2>3. CASE p = main
    <3> DEFINE i == at[p] + 1
    <3>1. i \in 1..(Lines + 8) /\ Lines \in Nat
      BY <2>2, <2>3, MainCalls DEF Program
    <3>2. \/ i = 1 \/ i = 2 \/ i \in 3..(Lines + 2) \/ i = Lines + 3 \/ i = Lines + 4
          \/ i = Lines + 5 \/ i = Lines + 6 \/ i = Lines + 7 \/ i = Lines + 8
      BY <3>1
    <3>3. MainProgram[i] \in Call
      BY <3>2, MainCalls, RecordsAreCalls
    <3>4. NextOf(p) = MainProgram[i]
      BY <1>3, <2>3, DemoAssumption DEF NextOf, Program
    <3> QED BY <1>1, <3>3, <3>4
  <2>4. CASE p # main
    <3>1. p \in Sender
      BY <1>3, <2>4, DemoAssumption
    <3>2. NextOf(p) = publish(Target(p), Batch[p][at[p] + 1])
      BY <1>3, <2>2, <3>1, SenderCalls DEF NextOf
    <3>3. Batch[p][at[p] + 1] \in Message
      BY <2>2, <3>1, SenderCalls
    <3>4. Target(p) \in {"log", "jobs", "events"}
      BY DEF Target
    <3> QED BY <1>1, <3>2, <3>3, <3>4, RecordsAreCalls
  <2> QED BY <2>3, <2>4
<1> QED BY <1>1, <1>2, <1>3

\* The program uses the orchestrator as SimpleQueue says: each of its steps is a step of
\* SimpleQueue, or leaves the orchestrator alone (main.go:116-227).
THEOREM DemoImplementsSimpleQueue == DemoSpec => Spec
<1>1. DemoInit => Init
  BY DEF DemoInit
<1>2. AtInv /\ [DemoNext]_demoVars => [Next]_vars
  <2> SUFFICES ASSUME AtInv, [DemoNext]_demoVars PROVE [Next]_vars
    OBVIOUS
  <2>1. ASSUME NEW p \in Goroutine, NextCall(p) PROVE [Next]_vars
    BY <2>1, CallsAreCalls DEF Next
  <2>2. ASSUME NEW p \in Goroutine, Run(p) PROVE [Next]_vars
    BY <2>2 DEF Run, Next, Internal
  <2>3. CASE Save
    BY <2>3 DEF Save
  <2>4. CASE UNCHANGED demoVars
    BY <2>4 DEF demoVars
  <2> QED BY <2>1, <2>2, <2>3, <2>4 DEF DemoNext
<1> QED BY <1>1, <1>2, WithinProgram, PTL DEF DemoSpec, Spec

\* main's call number k has taken effect.
Past(k) ==
    at[main] > k \/ (at[main] = k /\ pc[main] \in {"unlock", "runlock", "idle"})

\* How many of its messages p has sent.
Sent(p) == IF pc[p] \in {"rlock", "parked", "read", "send"} THEN at[p] - 1 ELSE at[p]

\* The call of main after which a goroutine is started.
Launch(p) == IF p = logger THEN 2 ELSE IF p = jobber THEN Lines + 3 ELSE Lines + 6

\* A goroutine runs the call that its program has next.
RunsInv ==
    \A p \in Goroutine : pc[p] # "idle" =>
        IF p = consumer THEN call[p] = on("Consume", "events")
                        ELSE at[p] >= 1 /\ call[p] = Program(p)[at[p]]

\* Nobody runs before it is started.
LaunchInv ==
    /\ \A p \in Sender : at[p] > 0 => Past(Launch(p))
    /\ pc[consumer] # "idle" => Past(Launch(consumer))

\* What main waits for has ended.
WaitInv ==
    /\ at[main] >= Lines + 7 =>
         \A e \in Publisher : pc[e] = "idle" /\ at[e] = Len(Batch[e])
    /\ at[main] >= Lines + 8 => pc[consumer] = "idle" /\ ret[consumer] = "ErrQueueClosed"

\* No call has failed, and only the consumer sees the end of a queue, after its close.
AnswerInv ==
    /\ \A p \in Goroutine : ret[p] \in {"ok", "ErrQueueClosed"} \cup Message
    /\ \A p \in Goroutine \ {consumer} : ret[p] # "ErrQueueClosed"
    /\ ret[consumer] = "ErrQueueClosed" => at[main] >= Lines + 7

\* Which queues exist follows from where main is; two names never share one.
QueuesInv ==
    /\ queues["log"] # Nil <=> Past(1) /\ ~Past(Lines + 3)
    /\ queues["jobs"] # Nil <=> Past(2) /\ ~Past(Lines + 5)
    /\ queues["events"] # Nil <=> Past(Lines + 6) /\ ~Past(Lines + 8)
    /\ \A n, m \in Name : queues[n] # Nil /\ queues[n] = queues[m] => n = m

\* Only the events queue is ever closed before it is deleted.
OpenInv ==
    /\ queues["log"] # Nil => ~heap[queues["log"]].chClosed /\ heap[queues["log"]].cap = 100
    /\ queues["jobs"] # Nil => ~heap[queues["jobs"]].chClosed /\ heap[queues["jobs"]].cap = 0
    /\ queues["events"] # Nil =>
         /\ heap[queues["events"]].chClosed <=> Past(Lines + 7)
         /\ heap[queues["events"]].cap = 0

\* main deletes log and jobs when it has received all that is ever sent to them.
CountInv ==
    /\ queues["log"] # Nil =>
         /\ Len(accepted[queues["log"]]) = Sent(logger)
         /\ \A k \in 1..Lines : Past(2 + k) <=> Len(delivered[queues["log"]]) >= k
    /\ queues["jobs"] # Nil =>
         /\ Len(accepted[queues["jobs"]]) = Sent(jobber)
         /\ Past(Lines + 4) <=> Len(delivered[queues["jobs"]]) >= 1
    /\ Past(Lines + 2) => Sent(logger) = Lines
    /\ Past(Lines + 4) => Sent(jobber) = 1

\* s holds the first n[e] messages of each publisher e once, those of one in their order.
Merges(s, n) ==
    /\ \A e \in Publisher : \A k \in 1..n[e] : \E i \in 1..Len(s) : s[i] = Batch[e][k]
    /\ \A i \in 1..Len(s) : \E e \in Publisher : \E k \in 1..n[e] : s[i] = Batch[e][k]
    /\ \A i, j \in 1..Len(s) : i < j =>
         /\ s[i] # s[j]
         /\ \A e \in Publisher : \A k, l \in 1..Len(Batch[e]) :
              s[i] = Batch[e][k] /\ s[j] = Batch[e][l] => k < l

EventsSent == [e \in Publisher |-> Sent(e)]

\* The events channel has taken what the publishers have sent, in each one's order.
EventInv == queues["events"] # Nil => Merges(accepted[queues["events"]], EventsSent)

DemoInv ==
    /\ AtInv /\ RunsInv /\ LaunchInv /\ WaitInv /\ AnswerInv
    /\ QueuesInv /\ OpenInv /\ CountInv /\ EventInv

\* All that is known of a state of the program.
Known == IInv /\ DrainInv /\ PlaceInv /\ DemoInv

\* The parts of a call.
LEMMA CallParts ==
    /\ \A o, n : on(o, n).op = o /\ on(o, n).name = n
    /\ \A n, b : create(n, b).op = "CreateQueue" /\ create(n, b).name = n
                 /\ create(n, b).buffer = b
    /\ \A n, m : publish(n, m).op = "Publish" /\ publish(n, m).name = n
                 /\ publish(n, m).msg = m
BY DEF on, create, publish

\* What a goroutine inside a call is calling.
LEMMA Roles ==
    ASSUME Known, NEW p \in Goroutine, pc[p] # "idle"
    PROVE  /\ p = consumer => call[p] = on("Consume", "events")
           /\ p \in Sender => /\ at[p] \in 1..Len(Batch[p])
                              /\ call[p] = publish(Target(p), Batch[p][at[p]])
           /\ p = main => at[main] \in 1..(Lines + 8) /\ call[main] = MainProgram[at[main]]
<1>1. p \in Sender => p # consumer /\ p # main
  BY DemoAssumption
<1>2. p # consumer => /\ at[p] \in 1..Len(Program(p)) /\ call[p] = Program(p)[at[p]]
  BY ProgramLengths DEF Known, DemoInv, RunsInv, AtInv
<1>3. p = consumer => call[p] = on("Consume", "events")
  BY DEF Known, DemoInv, RunsInv
<1>4. p \in Sender => /\ at[p] \in 1..Len(Batch[p])
                      /\ call[p] = publish(Target(p), Batch[p][at[p]])
  BY <1>1, <1>2, SenderCalls
<1>5. p = main => at[main] \in 1..(Lines + 8) /\ call[main] = MainProgram[at[main]]
  BY <1>2, MainCalls, DemoAssumption DEF Program
<1> QED BY <1>3, <1>4, <1>5

\* main's calls by their kind.
LEMMA MainKinds ==
    ASSUME NEW i \in 1..(Lines + 8)
    PROVE  /\ MainProgram[i].op \in {"CreateQueue", "CloseQueue", "DeleteQueue", "Consume"}
           /\ MainProgram[i].op = "CreateQueue" <=> i \in {1, 2, Lines + 6}
           /\ MainProgram[i].op = "CloseQueue" <=> i = Lines + 7
           /\ MainProgram[i].op = "DeleteQueue" <=> i \in {Lines + 3, Lines + 5, Lines + 8}
           /\ MainProgram[i].op = "Consume" <=> i \in 3..(Lines + 2) \/ i = Lines + 4
           /\ MainProgram[i].name = IF i = 1 \/ i \in 3..(Lines + 3) THEN "log"
                                    ELSE IF i = 2 \/ i \in {Lines + 4, Lines + 5} THEN "jobs"
                                    ELSE "events"
<1>1. Lines \in Nat
  BY MainCalls
<1>2. \/ i = 1 \/ i = 2 \/ i \in 3..(Lines + 2) \/ i = Lines + 3 \/ i = Lines + 4
      \/ i = Lines + 5 \/ i = Lines + 6 \/ i = Lines + 7 \/ i = Lines + 8
  BY <1>1
<1>3. CASE i = 1 \/ i = 2
  BY <1>1, <1>3, MainCalls, CallParts
<1>4. CASE i \in 3..(Lines + 2)
  <2>1. MainProgram[i] = on("Consume", "log")
    BY <1>4, MainCalls
  <2>2. i # 1 /\ i # 2 /\ i \in 3..(Lines + 3) /\ i # Lines + 3 /\ i # Lines + 4
        /\ i # Lines + 5 /\ i # Lines + 6 /\ i # Lines + 7 /\ i # Lines + 8
    BY <1>1, <1>4
  <2> QED BY <1>4, <2>1, <2>2, CallParts
<1>5. CASE i = Lines + 3 \/ i = Lines + 4 \/ i = Lines + 5
  BY <1>1, <1>5, MainCalls, CallParts
<1>6. CASE i = Lines + 6 \/ i = Lines + 7 \/ i = Lines + 8
  BY <1>1, <1>6, MainCalls, CallParts
<1> QED BY <1>2, <1>3, <1>4, <1>5, <1>6

\* Only main writes.
LEMMA OnlyMainWrites ==
    ASSUME Known, NEW p \in Goroutine, pc[p] \in {"lock", "drain", "write", "unlock"}
    PROVE  p = main
<1>1. call[p].op \in WriteOp
  BY DEF Known, PlaceInv
<1>2. p # consumer
  BY <1>1, Roles, CallParts DEF WriteOp
<1>3. p \notin Sender
  BY <1>1, Roles, CallParts DEF WriteOp
<1> QED BY <1>2, <1>3, DemoAssumption

\* Who reads, and from or to which queue.
LEMMA WhoReads ==
    ASSUME Known, NEW p \in Goroutine,
           pc[p] \in {"rlock", "parked", "read", "send", "recv", "runlock"}
    PROVE  /\ call[p].op \in {"Publish", "Consume"}
           /\ call[p].op = "Publish" <=> p \in Sender
           /\ p \in Sender => call[p].name = Target(p) /\ call[p].msg = Batch[p][at[p]]
           /\ p = consumer => call[p].name = "events"
           /\ p = main => \/ at[main] \in 3..(Lines + 2) /\ call[p].name = "log"
                          \/ at[main] = Lines + 4 /\ call[p].name = "jobs"
<1>1. call[p].op \in ReadOp
  BY DEF Known, PlaceInv
<1>2. CASE p = consumer
  BY <1>2, Roles, CallParts, DemoAssumption
<1>3. CASE p \in Sender
  BY <1>3, Roles, CallParts, DemoAssumption
<1>4. CASE p = main
  <2>1. at[main] \in 1..(Lines + 8) /\ call[p] = MainProgram[at[main]]
    BY <1>4, Roles
  <2>2. Lines \in Nat
    BY MainCalls
  <2>3. call[p].op = "Consume"
    BY <1>1, <2>1, MainKinds DEF ReadOp
  <2>4. at[main] \in 3..(Lines + 2) \/ at[main] = Lines + 4
    BY <2>1, <2>3, MainKinds
  <2>5. \/ at[main] \in 3..(Lines + 2) /\ call[p].name = "log"
        \/ at[main] = Lines + 4 /\ call[p].name = "jobs"
    <3>1. CASE at[main] \in 3..(Lines + 2)
      BY <2>1, <2>2, <3>1, MainCalls, CallParts
    <3>2. CASE at[main] = Lines + 4
      BY <2>1, <3>2, MainCalls, CallParts
    <3> QED BY <2>4, <3>1, <3>2
  <2> QED BY <1>4, <2>3, <2>5, DemoAssumption
<1> QED BY <1>2, <1>3, <1>4, DemoAssumption

\* main's place and count are numbers one can compare.
LEMMA MainAt == Known => at[main] \in Nat /\ Lines \in Nat /\ main \in Goroutine
BY MainCalls, DemoAssumption DEF Known, DemoInv, AtInv

\* A queue that a goroutine is about to use exists, and is open if it is to be sent to.
LEMMA QueueThere ==
    ASSUME Known, NEW p \in Goroutine, pc[p] \in {"read", "send", "recv"}
    PROVE  /\ Registered(p) # Nil
           /\ p \in Sender => ~heap[Registered(p)].closed
           /\ p = main => ~heap[Registered(p)].chClosed
<1> USE DEF Known, DemoInv
<1>0. p \in Sender => pc[p] \in {"read", "send"}
  BY WhoReads DEF PlaceInv
<1>1. at[main] \in Nat /\ Lines \in Nat /\ pc[p] # "idle" /\ at[p] \in Nat
  BY MainAt DEF AtInv
<1>2. CASE p = logger
  <2>1. p \in Sender /\ Target(p) = "log" /\ Launch(p) = 2 /\ at[p] \in 1..Lines
    BY <1>1, <1>2, Roles DEF Sender, Target, Launch, Lines
  <2>2. Past(2) /\ Sent(p) # Lines
    <3>1. at[p] > 0 /\ Sent(p) = at[p] - 1
      BY <1>0, <1>1, <2>1 DEF Sent
    <3> QED BY <1>1, <2>1, <3>1 DEF LaunchInv
  <2>3. queues["log"] # Nil
    BY <1>1, <1>2, <2>2 DEF QueuesInv, CountInv, Past
  <2>4. Registered(p) = queues["log"]
    BY <2>1, WhoReads DEF Registered
  <2>5. ~heap[queues["log"]].closed
    BY <2>3, DemoAssumption DEF OpenInv, IInv, TypeOK, ClosedInv
  <2> QED BY <2>1, <2>3, <2>4, <2>5, DemoAssumption
<1>3. CASE p = jobber
  <2>1. p \in Sender /\ Target(p) = "jobs" /\ Launch(p) = Lines + 3 /\ at[p] = 1
    <3>1. p \in Sender /\ Target(p) = "jobs" /\ Launch(p) = Lines + 3
      BY <1>3, DemoAssumption DEF Sender, Target, Launch
    <3>2. at[p] \in 1..1
      BY <1>1, <1>3, <3>1, Roles, BatchAssumption
    <3> QED BY <3>1, <3>2
  <2>2. Past(Lines + 3) /\ Sent(p) # 1
    <3>1. at[p] > 0 /\ Sent(p) = at[p] - 1
      BY <1>0, <1>1, <2>1 DEF Sent
    <3> QED BY <1>1, <2>1, <3>1 DEF LaunchInv
  <2>3. queues["jobs"] # Nil
    BY <1>1, <1>3, <2>2 DEF QueuesInv, CountInv, Past
  <2>4. Registered(p) = queues["jobs"]
    BY <2>1, WhoReads DEF Registered
  <2>5. ~heap[queues["jobs"]].closed
    BY <2>3, DemoAssumption DEF OpenInv, IInv, TypeOK, ClosedInv
  <2> QED BY <2>1, <2>3, <2>4, <2>5, DemoAssumption
<1>4. CASE p \in Publisher
  <2>1. p \in Sender /\ Target(p) = "events" /\ Launch(p) = Lines + 6 /\ at[p] >= 1
    BY <1>1, <1>4, Roles, DemoAssumption DEF Sender, Target, Launch
  <2>2. Past(Lines + 6) /\ ~(at[main] >= Lines + 7)
    <3>1. at[p] > 0
      BY <1>1, <2>1
    <3>2. Past(Lines + 6)
      BY <2>1, <3>1 DEF LaunchInv
    <3> QED BY <1>1, <1>4, <3>2 DEF WaitInv
  <2>3. queues["events"] # Nil /\ ~Past(Lines + 7)
    BY <1>1, <2>2 DEF QueuesInv, Past
  <2>4. Registered(p) = queues["events"]
    BY <2>1, WhoReads DEF Registered
  <2>5. ~heap[queues["events"]].closed
    BY <2>3, DemoAssumption DEF OpenInv, IInv, TypeOK, ClosedInv
  <2> QED BY <2>1, <2>3, <2>4, <2>5, DemoAssumption
<1>5. CASE p = consumer
  <2>1. Past(Lines + 6) /\ ~(at[main] >= Lines + 8)
    BY <1>1, <1>5, DemoAssumption DEF LaunchInv, WaitInv, Launch, Sender
  <2>2. queues["events"] # Nil
    BY <1>1, <2>1 DEF QueuesInv, Past
  <2> QED BY <1>5, <2>2, WhoReads, DemoAssumption DEF Registered
<1>6. CASE p = main
  <2>1. \/ at[main] \in 3..(Lines + 2) /\ call[p].name = "log"
        \/ at[main] = Lines + 4 /\ call[p].name = "jobs"
    BY <1>6, WhoReads
  <2>2. CASE at[main] \in 3..(Lines + 2) /\ call[p].name = "log"
    BY <1>1, <1>6, <2>2, DemoAssumption DEF QueuesInv, OpenInv, Past, Registered
  <2>3. CASE at[main] = Lines + 4 /\ call[p].name = "jobs"
    BY <1>1, <1>6, <2>3, DemoAssumption DEF QueuesInv, OpenInv, Past, Registered
  <2> QED BY <1>6, <2>1, <2>2, <2>3, DemoAssumption
<1> QED BY <1>2, <1>3, <1>4, <1>5, <1>6, DemoAssumption DEF Sender

\* A step that touches no queue, and takes no call past its effect, keeps what is said of
\* the queues.
LEMMA Quiet ==
    ASSUME Known, UNCHANGED <<queues, heap, accepted, delivered>>,
           \A k \in Nat : Past(k)' <=> Past(k),
           \A p \in Sender : Sent(p)' = Sent(p)
    PROVE  QueuesInv' /\ OpenInv' /\ CountInv' /\ EventInv'
<1> USE DEF Known, DemoInv
<1>1. Lines \in Nat
  BY MainCalls
<1>2. \A k \in Nat : Past(Lines + k)' <=> Past(Lines + k)
  BY <1>1
<1>3. QueuesInv'
  BY <1>1, <1>2 DEF QueuesInv
<1>4. OpenInv'
  BY <1>2 DEF OpenInv
<1>5. CountInv'
  <2>1. \A k \in 1..Lines : Past(2 + k)' <=> Past(2 + k)
    BY <1>1
  <2> QED BY <1>2, <2>1 DEF CountInv, Sender
<1>6. EventInv'
  <2>1. EventsSent' = EventsSent
    BY DEF EventsSent, Sender
  <2> QED BY <2>1 DEF EventInv
<1> QED BY <1>3, <1>4, <1>5, <1>6

\* What a call that is begun leaves as it is.
LEMMA CallFrame ==
    ASSUME Known, NEW p \in Goroutine, NextCall(p)
    PROVE  /\ pc[p] = "idle" /\ pc'[p] \in {"rlock", "lock"} /\ call'[p] = NextOf(p)
           /\ ret'[p] = "ok"
           /\ \A x \in Goroutine \ {p} : /\ pc'[x] = pc[x] /\ call'[x] = call[x]
                                         /\ ret'[x] = ret[x] /\ at'[x] = at[x]
           /\ p = consumer => at' = at
           /\ p # consumer => at'[p] = at[p] + 1
           /\ UNCHANGED <<queues, heap, accepted, delivered>>
<1>1. Invoke(p, NextOf(p))
  BY CallsAreCalls DEF Known, DemoInv
<1>2. /\ pc[p] = "idle" /\ pc'[p] \in {"rlock", "lock"} /\ call'[p] = NextOf(p)
      /\ ret'[p] = "ok"
      /\ \A x \in Goroutine \ {p} : pc'[x] = pc[x] /\ call'[x] = call[x] /\ ret'[x] = ret[x]
      /\ UNCHANGED <<queues, heap, accepted, delivered>>
  BY <1>1 DEF Invoke, Known, IInv, TypeOK
<1>3. at' = IF p = consumer THEN at ELSE [at EXCEPT ![p] = @ + 1]
  BY DEF NextCall
<1>4. \A x \in Goroutine \ {p} : at'[x] = at[x]
  BY <1>3 DEF Known, DemoInv, AtInv
<1>5. p # consumer => at'[p] = at[p] + 1
  BY <1>3 DEF Known, DemoInv, AtInv
<1> QED BY <1>2, <1>3, <1>4, <1>5

\* A goroutine that has started runs behind main's call that starts it.
LEMMA StartedPast ==
    ASSUME Known, NEW p \in Goroutine \ {main}, Started(p)
    PROVE  Past(Launch(p))
<1>1. /\ at[main] \in Nat /\ Lines \in Nat
  BY MainAt
<1>2. Launch(p) \in Nat /\ MainDone >= Launch(p)
  BY <1>1, DemoAssumption DEF Started, Launch
<1> QED BY <1>1, <1>2 DEF MainDone, Past

\* Beginning a call keeps the program's invariant.
LEMMA CallStep ==
    ASSUME Known, NEW p \in Goroutine, NextCall(p)
    PROVE  DemoInv'
<1> USE DEF Known, DemoInv
<1>1. /\ at[main] \in Nat /\ Lines \in Nat /\ main \in Goroutine /\ consumer \in Goroutine
      /\ \A e \in Sender : e \in Goroutine \ {main, consumer} /\ at[e] \in Nat
  BY MainAt, DemoAssumption DEF AtInv
<1>2. AtInv'
  BY NextAt DEF DemoNext
<1>3. \A k \in Nat : Past(k)' <=> Past(k)
  <2>1. CASE p = main
    <3>1. pc[main] = "idle" /\ pc'[main] \in {"rlock", "lock"} /\ at'[main] = at[main] + 1
      BY <1>1, <2>1, CallFrame, DemoAssumption
    <3> QED BY <1>1, <3>1 DEF Past
  <2>2. CASE p # main
    BY <1>1, <2>2, CallFrame DEF Past
  <2> QED BY <2>1, <2>2
<1>4. \A e \in Sender : Sent(e)' = Sent(e)
  <2> SUFFICES ASSUME NEW e \in Sender PROVE Sent(e)' = Sent(e)
    OBVIOUS
  <2>1. CASE e = p
    <3>1. pc'[p] = "rlock"
      <4>1. at[p] + 1 \in 1..Len(Batch[p]) /\ p # consumer
        BY <1>1, <1>2, <2>1, SenderCalls, CallFrame DEF AtInv
      <4>2. NextOf(p) = publish(Target(p), Batch[p][at[p] + 1])
        BY <2>1, <4>1, SenderCalls DEF NextOf
      <4>3. NextOf(p).op = "Publish"
        BY <4>2, CallParts
      <4> QED BY <4>3, CallsAreCalls DEF Invoke, ReadOp, IInv, TypeOK
    <3>2. at'[p] = at[p] + 1 /\ pc[p] = "idle"
      BY <1>1, <2>1, CallFrame
    <3> QED BY <1>1, <2>1, <3>1, <3>2 DEF Sent
  <2>2. CASE e # p
    BY <1>1, <2>2, CallFrame DEF Sent
  <2> QED BY <2>1, <2>2
<1>5. QueuesInv' /\ OpenInv' /\ CountInv' /\ EventInv'
  BY <1>3, <1>4, CallFrame, Quiet
<1>6. RunsInv'
  <2>1. ASSUME NEW x \in Goroutine \ {p} PROVE
          pc'[x] # "idle" => IF x = consumer THEN call'[x] = on("Consume", "events")
                             ELSE at'[x] >= 1 /\ call'[x] = Program(x)[at'[x]]
    BY <2>1, CallFrame DEF RunsInv
  <2>2. CASE p = consumer
    BY <2>1, <2>2, CallFrame DEF RunsInv, NextOf
  <2>3. CASE p # consumer
    <3>1. call'[p] = Program(p)[at[p] + 1] /\ at'[p] = at[p] + 1 /\ at[p] \in Nat
      BY <2>3, CallFrame DEF NextOf, AtInv
    <3>2. at'[p] >= 1 /\ call'[p] = Program(p)[at'[p]]
      BY <3>1
    <3> QED BY <2>1, <2>3, <3>2 DEF RunsInv
  <2> QED BY <2>2, <2>3
<1>7. LaunchInv'
  <2>1. \A x \in Goroutine : Launch(x) \in Nat
    BY <1>1 DEF Launch
  <2>2. p # main => Past(Launch(p))
    BY StartedPast DEF NextCall
  <2>3. ASSUME NEW e \in Sender, at'[e] > 0 PROVE Past(Launch(e))'
    <3>1. Past(Launch(e))
      <4>1. CASE e = p
        BY <1>1, <2>2, <4>1
      <4>2. CASE e # p
        BY <1>1, <2>3, <4>2, CallFrame DEF LaunchInv
      <4> QED BY <4>1, <4>2
    <3> QED BY <1>1, <1>3, <2>1, <3>1 DEF Launch
  <2>4. ASSUME pc'[consumer] # "idle" PROVE Past(Launch(consumer))'
    <3>1. Past(Launch(consumer))
      <4>1. CASE p = consumer
        BY <2>2, <4>1, DemoAssumption
      <4>2. CASE p # consumer
        BY <1>1, <2>4, <4>2, CallFrame DEF LaunchInv
      <4> QED BY <4>1, <4>2
    <3> QED BY <1>1, <1>3, <2>1, <3>1 DEF Launch
  <2> QED BY <2>3, <2>4 DEF LaunchInv
<1>8. WaitInv'
  <2>1. \A e \in Publisher : e \in Sender
    BY DEF Sender
  <2>2. \A x \in Goroutine : ~Failed(x)
    BY BatchAssumption DEF AnswerInv, Failed
  <2>3. \A e \in Publisher : Returned(e) <=> pc[e] = "idle" /\ at[e] = Len(Batch[e])
    BY <1>1, <2>1, <2>2, SenderCalls DEF Returned
  <2>4. CASE p = main
    <3>1. at'[main] = at[main] + 1 /\ Ready(main)
      BY <2>4, CallFrame, DemoAssumption DEF NextCall
    <3>2. ASSUME at'[main] >= Lines + 7, NEW e \in Publisher
          PROVE  pc'[e] = "idle" /\ at'[e] = Len(Batch[e])
      <4>1. at[main] = Lines + 6 \/ at[main] >= Lines + 7
        BY <1>1, <3>1, <3>2
      <4>2. pc[e] = "idle" /\ at[e] = Len(Batch[e])
        BY <2>3, <3>1, <4>1 DEF Ready, WaitInv
      <4> QED BY <1>1, <2>1, <2>4, <4>2, CallFrame
    <3>3. ASSUME at'[main] >= Lines + 8
          PROVE  pc'[consumer] = "idle" /\ ret'[consumer] = "ErrQueueClosed"
      <4>1. at[main] = Lines + 7 \/ at[main] >= Lines + 8
        BY <1>1, <3>1, <3>3
      <4>2. pc[consumer] = "idle" /\ ret[consumer] = "ErrQueueClosed"
        BY <3>1, <4>1 DEF Ready, WaitInv, Returned
      <4> QED BY <1>1, <2>4, <4>2, CallFrame, DemoAssumption
    <3> QED BY <3>2, <3>3 DEF WaitInv
  <2>5. CASE p # main
    <3>1. at'[main] = at[main] /\ ~Returned(p)
      BY <1>1, <2>5, CallFrame DEF NextCall
    <3>2. at[main] >= Lines + 7 => p \notin Publisher
      BY <2>3, <3>1 DEF WaitInv
    <3>3. at[main] >= Lines + 8 => p # consumer
      BY <3>1 DEF WaitInv, Returned
    <3> QED BY <1>1, <2>1, <3>1, <3>2, <3>3, CallFrame DEF WaitInv
  <2> QED BY <2>4, <2>5
<1>9. AnswerInv'
  <2>1. at'[main] >= at[main]
    BY <1>1, CallFrame, DemoAssumption
  <2>2. at'[main] \in Nat
    BY <1>1, <1>2 DEF AtInv
  <2> QED BY <1>1, <2>1, <2>2, CallFrame DEF AnswerInv
<1> QED BY <1>2, <1>5, <1>6, <1>7, <1>8, <1>9

\* A goroutine goes on inside its call, or leaves it, without coming to its effect.
GoesOn(x) ==
    \/ pc'[x] = pc[x] /\ call'[x] = call[x]
    \/ /\ pc[x] \in {"rlock", "parked", "read"} /\ pc'[x] \in {"parked", "read", "send", "recv"}
       /\ call'[x] = call[x] /\ (x \in Sender => pc'[x] # "recv")
    \/ pc[x] \in {"lock", "drain"} /\ pc'[x] \in {"drain", "write"} /\ call'[x] = call[x]
    \/ pc[x] \in {"runlock", "unlock"} /\ pc'[x] = "idle"

\* Such a step keeps the program's invariant.
LEMMA PlaceStep ==
    ASSUME Known, UNCHANGED <<queues, heap, accepted, delivered, at, ret>>,
           \A x \in Goroutine : GoesOn(x)
    PROVE  DemoInv'
<1> USE DEF Known, DemoInv
<1>1. /\ at[main] \in Nat /\ Lines \in Nat /\ main \in Goroutine /\ consumer \in Goroutine
      /\ Sender \subseteq Goroutine
  BY MainAt, DemoAssumption
<1>2. \A k \in Nat : Past(k)' <=> Past(k)
  <2>1. pc'[main] \in {"unlock", "runlock", "idle"} <=> pc[main] \in {"unlock", "runlock", "idle"}
    BY <1>1 DEF GoesOn
  <2> QED BY <2>1 DEF Past
<1>3. \A e \in Sender : Sent(e)' = Sent(e)
  <2> SUFFICES ASSUME NEW e \in Sender PROVE Sent(e)' = Sent(e)
    OBVIOUS
  <2>1. pc[e] \notin {"lock", "drain"}
    BY <1>1, OnlyMainWrites, DemoAssumption
  <2>2. pc'[e] \in {"rlock", "parked", "read", "send"}
          <=> pc[e] \in {"rlock", "parked", "read", "send"}
    BY <1>1, <2>1 DEF GoesOn
  <2> QED BY <2>2 DEF Sent
<1>4. QueuesInv' /\ OpenInv' /\ CountInv' /\ EventInv'
  BY <1>2, <1>3, Quiet
<1>5. AtInv'
  BY DEF AtInv
<1>6. RunsInv'
  BY DEF RunsInv, GoesOn
<1>7. LaunchInv'
  <2>1. \A x \in Goroutine : Launch(x)' = Launch(x) /\ Launch(x) \in Nat
    BY <1>1 DEF Launch
  <2>2. pc'[consumer] # "idle" => pc[consumer] # "idle"
    BY <1>1 DEF GoesOn
  <2>3. \A x \in Goroutine : Past(Launch(x))' <=> Past(Launch(x))
    BY <1>2, <2>1
  <2> QED BY <1>1, <2>2, <2>3 DEF LaunchInv
<1>8. WaitInv'
  <2>1. \A x \in Goroutine : pc[x] = "idle" => pc'[x] = "idle"
    BY DEF GoesOn
  <2>2. Publisher \subseteq Goroutine
    BY <1>1 DEF Sender
  <2> QED BY <1>1, <2>1, <2>2 DEF WaitInv
<1>9. AnswerInv'
  BY DEF AnswerInv
<1> QED BY <1>4, <1>5, <1>6, <1>7, <1>8, <1>9

\* Taking and leaving the lock keep the program's invariant.
LEMMA LockStep ==
    ASSUME Known, NEW p \in Goroutine, at' = at,
           RLock(p) \/ RUnlock(p) \/ Lock(p) \/ Drain(p) \/ Unlock(p)
    PROVE  DemoInv'
<1>1. UNCHANGED <<queues, heap, accepted, delivered, at, ret>>
  BY DEF RLock, RUnlock, Lock, Drain, Unlock
<1>2. \A x \in Goroutine : GoesOn(x)
  BY DEF Known, IInv, TypeOK, RLock, RUnlock, Lock, Drain, Unlock, GoesOn
<1> QED BY <1>1, <1>2, PlaceStep

\* A look-up finds the queue and goes on to the channel.
LEMMA LookUpStep ==
    ASSUME Known, NEW p \in Goroutine, at' = at, GetQueue(p) \/ Publish(p) \/ Consume(p)
    PROVE  DemoInv'
<1>1. /\ pc[p] = "read" /\ Registered(p) # Nil
      /\ p \in Sender => ~heap[Registered(p)].closed
      /\ call[p].op = "Publish" <=> p \in Sender
      /\ call[p].op \in {"Publish", "Consume"}
  <2>1. pc[p] = "read"
    BY DEF GetQueue, Publish, Consume
  <2> QED BY <2>1, QueueThere, WhoReads
<1>2. ~GetQueue(p)
  BY <1>1 DEF GetQueue
<1>3. \E where \in {"send", "recv"} :
        /\ Block(p, where) /\ (p \in Sender => where = "send")
        /\ UNCHANGED <<queues, heap, accepted, delivered, call>>
  BY <1>1, <1>2 DEF Publish, Consume
<1>4. UNCHANGED <<queues, heap, accepted, delivered, at, ret>>
  BY <1>3 DEF Block
<1>5. \A x \in Goroutine : GoesOn(x)
  BY <1>1, <1>3 DEF Block, Known, IInv, TypeOK, GoesOn
<1> QED BY <1>4, <1>5, PlaceStep

Queues == {"log", "jobs", "events"}

\* Where main is when it writes, and what that means for what is past.
LEMMA MainWrites ==
    ASSUME Known, NEW p \in Goroutine, at' = at,
           CreateQueue(p) \/ CloseQueue(p) \/ DeleteQueue(p)
    PROVE  /\ p = main /\ at[main] \in 1..(Lines + 8) /\ Lines \in Nat
           /\ \A k \in Nat : Past(k) <=> at[main] > k
           /\ \A k \in Nat : Past(k)' <=> at[main] >= k
           /\ pc[main] = "write" /\ pc' = [pc EXCEPT ![main] = "unlock"]
           /\ call' = call /\ call[main] = MainProgram[at[main]]
           /\ call[main].name \in Queues
           /\ CreateQueue(p) => call[main].op = "CreateQueue"
           /\ CloseQueue(p) => call[main].op = "CloseQueue"
           /\ DeleteQueue(p) => call[main].op = "DeleteQueue"
<1>1. pc[p] = "write"
  BY DEF CreateQueue, CloseQueue, DeleteQueue
<1>2. p = main
  BY <1>1, OnlyMainWrites
<1>3. at[main] \in 1..(Lines + 8) /\ Lines \in Nat /\ call[main] = MainProgram[at[main]]
  BY <1>1, <1>2, Roles, MainAt
<1>4. pc' = [pc EXCEPT ![main] = "unlock"] /\ call' = call /\ pc'[main] = "unlock"
  BY <1>2 DEF CreateQueue, CloseQueue, DeleteQueue, Known, IInv, TypeOK
<1>5. \A k \in Nat : Past(k) <=> at[main] > k
  BY <1>1, <1>2, <1>3 DEF Past
<1>6. \A k \in Nat : Past(k)' <=> at[main] >= k
  BY <1>3, <1>4 DEF Past
<1>7. call[main].name \in Queues
  BY <1>3, MainKinds DEF Queues
<1>8. /\ CreateQueue(p) => call[main].op = "CreateQueue"
      /\ CloseQueue(p) => call[main].op = "CloseQueue"
      /\ DeleteQueue(p) => call[main].op = "DeleteQueue"
  BY <1>2 DEF CreateQueue, CloseQueue, DeleteQueue
<1> QED BY <1>1, <1>2, <1>3, <1>4, <1>5, <1>6, <1>7, <1>8

\* A write concerns the queue it names, and does not fail.
LEMMA WriteEffect ==
    ASSUME Known, NEW p \in Goroutine, at' = at,
           CreateQueue(p) \/ CloseQueue(p) \/ DeleteQueue(p),
           NEW n, n = call[main].name
    PROVE  /\ ret' = ret
           /\ \A x \in Queues \ {n} :
                /\ queues'[x] = queues[x]
                /\ queues[x] # Nil => /\ heap'[queues[x]] = heap[queues[x]]
                                      /\ accepted'[queues[x]] = accepted[queues[x]]
                                      /\ delivered'[queues[x]] = delivered[queues[x]]
           /\ \A x, y \in Name : queues'[x] # Nil /\ queues'[x] = queues'[y] => x = y
           /\ CreateQueue(p) =>
                /\ queues'[n] # Nil /\ heap'[queues'[n]] = NewQueue(call[main].buffer)
                /\ accepted'[queues'[n]] = <<>> /\ delivered'[queues'[n]] = <<>>
           /\ DeleteQueue(p) => queues'[n] = Nil
           /\ CloseQueue(p) =>
                /\ queues' = queues /\ accepted' = accepted /\ delivered' = delivered
                /\ queues[n] # Nil
                /\ heap'[queues[n]].chClosed /\ heap'[queues[n]].cap = heap[queues[n]].cap
<1> USE DEF Known, DemoInv
<1> DEFINE m == at[main]
<1>1. /\ p = main /\ m \in 1..(Lines + 8) /\ Lines \in Nat
      /\ \A k \in Nat : Past(k) <=> m > k
      /\ call[main] = MainProgram[m]
      /\ CreateQueue(p) => call[main].op = "CreateQueue"
      /\ CloseQueue(p) => call[main].op = "CloseQueue"
      /\ DeleteQueue(p) => call[main].op = "DeleteQueue"
  BY MainWrites
<1>2. n \in Queues /\ Queues \subseteq Name /\ Registered(p) = queues[n]
  BY <1>1, MainWrites, DemoAssumption DEF Registered, Queues
<1>3. queues \in [Name -> QueueId \cup {Nil}] /\ heap \in [QueueId -> QueueValue]
  BY DEF IInv, TypeOK
<1>4. \A x, y \in Name : queues[x] # Nil /\ queues[x] = queues[y] => x = y
  BY DEF QueuesInv
<1>5. CASE CreateQueue(p)
  <2>1. m \in {1, 2, Lines + 6}
    BY <1>1, <1>5, MainKinds
  <2>2. queues[n] = Nil
    BY <1>1, <2>1, MainKinds DEF QueuesInv
  <2>3. PICK q \in Unreachable :
          /\ queues' = [queues EXCEPT ![n] = q]
          /\ heap' = [heap EXCEPT ![q] = NewQueue(call[main].buffer)]
          /\ accepted' = [accepted EXCEPT ![q] = <<>>]
          /\ delivered' = [delivered EXCEPT ![q] = <<>>]
    BY <1>1, <1>2, <1>5, <2>2 DEF CreateQueue
  <2>4. q \in QueueId /\ q # Nil /\ \A x \in Name : queues[x] # q
    BY NilAssumption DEF Unreachable
  <2>5. /\ accepted \in [QueueId -> Seq(Message)] /\ delivered \in [QueueId -> Seq(Message)]
    BY DEF IInv, TypeOK
  <2>6. /\ queues'[n] = q /\ heap'[q] = NewQueue(call[main].buffer)
        /\ accepted'[q] = <<>> /\ delivered'[q] = <<>>
        /\ \A x \in Name \ {n} : queues'[x] = queues[x]
        /\ \A x \in QueueId \ {q} : heap'[x] = heap[x] /\ accepted'[x] = accepted[x]
                                    /\ delivered'[x] = delivered[x]
    BY <1>2, <1>3, <2>3, <2>4, <2>5
  <2>7. ret' = ret /\ ~DeleteQueue(p) /\ ~CloseQueue(p)
    BY <1>1, <1>5 DEF CreateQueue
  <2>8. \A x, y \in Name : queues'[x] # Nil /\ queues'[x] = queues'[y] => x = y
    BY <1>4, <2>4, <2>6
  <2>9. \A x \in Queues \ {n} : queues[x] # Nil => queues[x] \in QueueId \ {q}
    BY <1>2, <1>3, <2>4
  <2> QED BY <1>2, <2>4, <2>6, <2>7, <2>8, <2>9
<1>6. CASE CloseQueue(p) \/ DeleteQueue(p)
  <2>1. m \in {Lines + 3, Lines + 5, Lines + 7, Lines + 8} /\ (CloseQueue(p) => m = Lines + 7)
    BY <1>1, <1>6, MainKinds
  <2>2. queues[n] # Nil /\ queues[n] \in QueueId
    <3>1. queues[n] # Nil
      BY <1>1, <2>1, MainKinds DEF QueuesInv
    <3> QED BY <1>2, <1>3, <3>1
  <2>3. CloseQueue(p) => ~heap[queues[n]].closed
    <3> SUFFICES ASSUME CloseQueue(p) PROVE ~heap[queues[n]].closed
      OBVIOUS
    <3>1. m = Lines + 7 /\ n = "events"
      BY <1>1, <2>1, MainKinds
    <3>2. ~heap[queues[n]].chClosed
      BY <1>1, <2>2, <3>1 DEF OpenInv
    <3> QED BY <2>2, <3>2 DEF IInv, ClosedInv
  <2>4. /\ ret' = ret /\ accepted' = accepted /\ delivered' = delivered
        /\ UNCHANGED heap \/ CloseChannel(queues[n])
        /\ queues' = queues \/ queues' = [queues EXCEPT ![n] = Nil]
        /\ DeleteQueue(p) => queues' = [queues EXCEPT ![n] = Nil]
        /\ CloseQueue(p) => queues' = queues /\ CloseChannel(queues[n])
    <3>1. CASE CloseQueue(p)
      <4>1. ~DeleteQueue(p)
        BY <1>1, <3>1
      <4> QED BY <1>1, <1>2, <2>2, <2>3, <3>1, <4>1 DEF CloseQueue
    <3>2. CASE DeleteQueue(p)
      <4>1. ~CloseQueue(p)
        BY <1>1, <3>2
      <4> QED BY <1>1, <1>2, <2>2, <3>2, <4>1 DEF DeleteQueue
    <3> QED BY <1>6, <3>1, <3>2
  <2>5. \A x \in QueueId \ {queues[n]} : heap'[x] = heap[x]
    BY <1>3, <2>2, <2>4, CloseOne
  <2>6. CloseQueue(p) => heap'[queues[n]].chClosed /\ heap'[queues[n]].cap = heap[queues[n]].cap
    BY <1>3, <2>2, <2>4, CloseOne, CloseKeepsBuffer
  <2>7. \A x \in Name \ {n} : queues'[x] = queues[x]
    BY <1>2, <1>3, <2>4
  <2>8. \A x \in Queues \ {n} : queues[x] # Nil => queues[x] \in QueueId \ {queues[n]}
    BY <1>2, <1>3, <1>4, <2>2
  <2>9. \A x, y \in Name : queues'[x] # Nil /\ queues'[x] = queues'[y] => x = y
    BY <1>2, <1>3, <1>4, <2>4
  <2>10. DeleteQueue(p) => queues'[n] = Nil
    BY <1>2, <1>3, <2>4
  <2>11. ~CreateQueue(p)
    BY <1>1, <1>6
  <2> QED BY <1>2, <2>2, <2>4, <2>5, <2>6, <2>7, <2>8, <2>9, <2>10, <2>11
<1> QED BY <1>5, <1>6

\* A sender that is not started has sent nothing, and nobody sends more than he has.
LEMMA SentBounds ==
    ASSUME Known, NEW e \in Sender
    PROVE  /\ Sent(e) \in 0..Len(Batch[e]) /\ Len(Batch[e]) \in Nat
           /\ ~Past(Launch(e)) => Sent(e) = 0
<1> USE DEF Known, DemoInv
<1>1. e \in Goroutine \ {main, consumer} /\ at[e] \in Nat /\ Len(Batch[e]) \in Nat
  BY DemoAssumption, SenderCalls DEF AtInv
<1>2. at[e] <= Len(Batch[e])
  BY <1>1, SenderCalls DEF AtInv
<1>3. pc[e] # "idle" => at[e] >= 1
  BY <1>1 DEF RunsInv
<1>4. ~Past(Launch(e)) => at[e] = 0
  BY <1>1 DEF LaunchInv
<1> QED BY <1>1, <1>2, <1>3, <1>4 DEF Sent

\* A write keeps the program's invariant.
LEMMA WriteStep ==
    ASSUME Known, NEW p \in Goroutine, at' = at,
           CreateQueue(p) \/ CloseQueue(p) \/ DeleteQueue(p)
    PROVE  DemoInv'
<1> USE DEF Known, DemoInv
<1> DEFINE m == at[main]
           n == call[main].name
           c == call[main].op
<1>1. /\ p = main /\ m \in 1..(Lines + 8) /\ Lines \in Nat
      /\ \A k \in Nat : Past(k) <=> m > k
      /\ \A k \in Nat : Past(k)' <=> m >= k
      /\ pc[main] = "write" /\ pc' = [pc EXCEPT ![main] = "unlock"]
      /\ call' = call /\ call[main] = MainProgram[m]
      /\ CreateQueue(p) => c = "CreateQueue"
      /\ CloseQueue(p) => c = "CloseQueue"
      /\ DeleteQueue(p) => c = "DeleteQueue"
  BY MainWrites
<1>2. /\ ret' = ret
      /\ \A x \in Queues \ {n} :
           /\ queues'[x] = queues[x]
           /\ queues[x] # Nil => /\ heap'[queues[x]] = heap[queues[x]]
                                 /\ accepted'[queues[x]] = accepted[queues[x]]
                                 /\ delivered'[queues[x]] = delivered[queues[x]]
      /\ \A x, y \in Name : queues'[x] # Nil /\ queues'[x] = queues'[y] => x = y
      /\ CreateQueue(p) =>
           /\ queues'[n] # Nil /\ heap'[queues'[n]] = NewQueue(call[main].buffer)
           /\ accepted'[queues'[n]] = <<>> /\ delivered'[queues'[n]] = <<>>
      /\ DeleteQueue(p) => queues'[n] = Nil
      /\ CloseQueue(p) =>
           /\ queues' = queues /\ accepted' = accepted /\ delivered' = delivered
           /\ queues[n] # Nil
           /\ heap'[queues[n]].chClosed /\ heap'[queues[n]].cap = heap[queues[n]].cap
  BY WriteEffect
<1>3. /\ \/ m = 1 /\ n = "log" /\ CreateQueue(p) /\ call[main].buffer = 100
         \/ m = 2 /\ n = "jobs" /\ CreateQueue(p) /\ call[main].buffer = 0
         \/ m = Lines + 3 /\ n = "log" /\ DeleteQueue(p)
         \/ m = Lines + 5 /\ n = "jobs" /\ DeleteQueue(p)
         \/ m = Lines + 6 /\ n = "events" /\ CreateQueue(p) /\ call[main].buffer = 0
         \/ m = Lines + 7 /\ n = "events" /\ CloseQueue(p)
         \/ m = Lines + 8 /\ n = "events" /\ DeleteQueue(p)
  <2>1. CASE CreateQueue(p)
    <3>1. m \in {1, 2, Lines + 6}
      BY <1>1, <2>1, MainKinds
    <3> QED BY <1>1, <2>1, <3>1, MainCalls, CallParts
  <2>2. CASE CloseQueue(p)
    <3>1. m = Lines + 7
      BY <1>1, <2>2, MainKinds
    <3> QED BY <1>1, <2>2, <3>1, MainCalls, CallParts
  <2>3. CASE DeleteQueue(p)
    <3>1. m \in {Lines + 3, Lines + 5, Lines + 8}
      BY <1>1, <2>3, MainKinds
    <3> QED BY <1>1, <2>3, <3>1, MainCalls, CallParts
  <2> QED BY <2>1, <2>2, <2>3
<1>4. /\ main \in Goroutine /\ consumer \in Goroutine /\ Sender \subseteq Goroutine \ {main}
      /\ main # consumer /\ logger \in Sender /\ jobber \in Sender /\ Publisher \subseteq Sender
  BY DemoAssumption DEF Sender
<1>5. \A x \in Goroutine \ {main} : pc'[x] = pc[x]
  BY <1>1 DEF IInv, TypeOK
<1>6. pc'[main] = "unlock"
  BY <1>1, <1>4 DEF IInv, TypeOK
<1>7. \A e \in Sender : Sent(e)' = Sent(e)
  BY <1>4, <1>5 DEF Sent
<1>8. AtInv' /\ RunsInv' /\ WaitInv' /\ AnswerInv'
  <2>1. AtInv' /\ AnswerInv'
    BY <1>2 DEF AtInv, AnswerInv
  <2>2. RunsInv'
    BY <1>1, <1>4, <1>5 DEF RunsInv
  <2>3. WaitInv'
    BY <1>2, <1>4, <1>5 DEF WaitInv
  <2> QED BY <2>1, <2>2, <2>3
<1>9. LaunchInv'
  <2>1. \A x \in Goroutine : Launch(x)' = Launch(x) /\ Launch(x) \in Nat
    BY <1>1 DEF Launch
  <2>2. \A x \in Goroutine : Past(Launch(x)) => Past(Launch(x))'
    BY <1>1, <2>1
  <2> QED BY <1>4, <1>5, <2>2 DEF LaunchInv
<1>10. QueuesInv'
  BY <1>1, <1>2, <1>3 DEF QueuesInv, Queues
<1>11. OpenInv'
  <2>1. queues'["log"] # Nil =>
          ~heap'[queues'["log"]].chClosed /\ heap'[queues'["log"]].cap = 100
    BY <1>1, <1>2, <1>3 DEF OpenInv, Queues, NewQueue
  <2>2. queues'["jobs"] # Nil =>
          ~heap'[queues'["jobs"]].chClosed /\ heap'[queues'["jobs"]].cap = 0
    BY <1>1, <1>2, <1>3 DEF OpenInv, Queues, NewQueue
  <2>3. queues'["events"] # Nil =>
          /\ heap'[queues'["events"]].chClosed <=> Past(Lines + 7)'
          /\ heap'[queues'["events"]].cap = 0
    <3>1. CASE m = Lines + 6 \/ m = Lines + 7 \/ m = Lines + 8
      BY <1>1, <1>2, <1>3, <3>1 DEF OpenInv, Queues, NewQueue
    <3>2. CASE m < Lines + 6
      <4>1. n # "events" /\ ~Past(Lines + 6)
        BY <1>1, <1>3, <3>2
      <4>2. queues["events"] = Nil
        BY <4>1 DEF QueuesInv
      <4> QED BY <1>2, <4>1, <4>2 DEF Queues
    <3> QED BY <1>1, <3>1, <3>2
  <2> QED BY <2>1, <2>2, <2>3 DEF OpenInv
<1>12. CountInv'
  <2>1. /\ Sent(logger) \in 0..Lines /\ Sent(jobber) \in 0..1
        /\ m < 3 => Sent(logger) = 0 /\ Sent(jobber) = 0
    <3>1. /\ Sent(logger) \in 0..Lines /\ Sent(jobber) \in 0..1
          /\ ~Past(Launch(logger)) => Sent(logger) = 0
          /\ ~Past(Launch(jobber)) => Sent(jobber) = 0
      BY <1>4, SentBounds, BatchAssumption DEF Lines
    <3>2. Launch(logger) = 2 /\ Launch(jobber) = Lines + 3
      BY DemoAssumption DEF Launch
    <3> QED BY <1>1, <3>1, <3>2
  <2>2. queues'["log"] # Nil =>
          /\ Len(accepted'[queues'["log"]]) = Sent(logger)
          /\ \A k \in 1..Lines : Past(2 + k)' <=> Len(delivered'[queues'["log"]]) >= k
    <3>1. CASE m = 1
      BY <1>1, <1>2, <1>3, <2>1, <3>1
    <3>2. CASE n # "log"
      <4>1. queues'["log"] = queues["log"]
        BY <1>2, <3>2 DEF Queues
      <4>2. \A k \in 1..Lines : Past(2 + k)' <=> Past(2 + k)
        BY <1>1, <1>3, <3>2
      <4> QED BY <1>2, <3>2, <4>1, <4>2 DEF CountInv, Queues
    <3>3. CASE m = Lines + 3
      BY <1>1, <1>2, <1>3, <3>3
    <3> QED BY <1>1, <1>3, <3>1, <3>2, <3>3
  <2>3. queues'["jobs"] # Nil =>
          /\ Len(accepted'[queues'["jobs"]]) = Sent(jobber)
          /\ Past(Lines + 4)' <=> Len(delivered'[queues'["jobs"]]) >= 1
    <3>1. CASE m = 2
      BY <1>1, <1>2, <1>3, <2>1, <3>1
    <3>2. CASE n # "jobs"
      <4>1. queues'["jobs"] = queues["jobs"]
        BY <1>2, <3>2 DEF Queues
      <4>2. Past(Lines + 4)' <=> Past(Lines + 4)
        BY <1>1, <1>3, <3>2
      <4> QED BY <1>2, <3>2, <4>1, <4>2 DEF CountInv, Queues
    <3>3. CASE m = Lines + 5
      BY <1>1, <1>2, <1>3, <3>3
    <3> QED BY <1>1, <1>3, <3>1, <3>2, <3>3
  <2>4. Past(Lines + 2)' => Sent(logger) = Lines
    <3>1. CASE Past(Lines + 2)
      BY <3>1 DEF CountInv
    <3>2. CASE ~Past(Lines + 2) /\ Past(Lines + 2)'
      <4>1. m = 2 /\ Lines = 0
        BY <1>1, <1>3, <3>2
      <4> QED BY <2>1, <4>1
    <3> QED BY <3>1, <3>2
  <2>5. Past(Lines + 4)' => Sent(jobber) = 1
    <3>1. Past(Lines + 4)' => Past(Lines + 4)
      BY <1>1, <1>3
    <3> QED BY <3>1 DEF CountInv
  <2> QED BY <1>4, <1>7, <2>2, <2>3, <2>4, <2>5 DEF CountInv
<1>13. EventInv'
  <2>1. CASE m = Lines + 6
    <3>1. /\ queues'["events"] # Nil /\ accepted'[queues'["events"]] = <<>>
      BY <1>1, <1>2, <1>3, <2>1
    <3>2. \A e \in Publisher : EventsSent'[e] = 0
      <4> SUFFICES ASSUME NEW e \in Publisher PROVE Sent(e)' = 0
        BY DEF EventsSent
      <4>1. Launch(e) = Lines + 6
        BY DemoAssumption DEF Launch
      <4> QED BY <1>1, <1>4, <1>7, <2>1, <4>1, SentBounds
    <3> QED BY <3>1, <3>2 DEF EventInv, Merges
  <2>2. CASE m # Lines + 6
    <3>1. /\ queues'["events"] # Nil => queues'["events"] = queues["events"]
          /\ queues["events"] # Nil /\ queues'["events"] # Nil =>
               accepted'[queues["events"]] = accepted[queues["events"]]
      BY <1>1, <1>2, <1>3, <2>2 DEF Queues
    <3>2. CASE queues'["events"] = Nil
      BY <3>2 DEF EventInv
    <3>3. CASE queues'["events"] # Nil
      <4>1. accepted'[queues'["events"]] = accepted[queues["events"]] /\ queues["events"] # Nil
        BY <3>1, <3>3
      <4>2. EventsSent' = EventsSent
        BY <1>4, <1>7 DEF EventsSent
      <4> QED BY <4>1, <4>2 DEF EventInv
    <3> QED BY <3>2, <3>3
  <2> QED BY <2>1, <2>2
<1> QED BY <1>8, <1>9, <1>10, <1>11, <1>12, <1>13

\* The next message of a publisher, put behind what is merged, is merged in its turn.
LEMMA OneMoreEvent ==
    ASSUME NEW s \in Seq(Message), NEW n \in [Publisher -> Nat], Merges(s, n),
           NEW p \in Publisher, n[p] < Len(Batch[p]), \A e \in Publisher : n[e] <= Len(Batch[e])
    PROVE  Merges(Append(s, Batch[p][n[p] + 1]), [n EXCEPT ![p] = @ + 1])
<1> DEFINE m == Batch[p][n[p] + 1]
           t == Append(s, m)
           u == [n EXCEPT ![p] = @ + 1]
<1>1. \A e \in Publisher : e \in Sender /\ Batch[e] \in Seq(Message) /\ Len(Batch[e]) \in Nat
  BY SenderCalls DEF Sender
<1>2. m \in Message /\ n[p] + 1 \in 1..Len(Batch[p])
  BY <1>1
<1>3. /\ Len(s) \in Nat /\ Len(t) = Len(s) + 1 /\ t[Len(s) + 1] = m
      /\ \A i \in 1..Len(s) : t[i] = s[i]
  BY <1>2, LenProperties
<1>4. u[p] = n[p] + 1 /\ \A e \in Publisher \ {p} : u[e] = n[e]
  OBVIOUS
<1>5. \A e, f \in Publisher : \A k \in 1..Len(Batch[e]), l \in 1..Len(Batch[f]) :
        Batch[e][k] = Batch[f][l] => e = f /\ k = l
  BY <1>1, BatchAssumption
<1>6. \A e \in Publisher : \A k \in 1..Len(Batch[e]) :
        Batch[e][k] = m => e = p /\ k = n[p] + 1
  <2>1. PICK l \in 1..Len(Batch[p]) : l = n[p] + 1
    BY <1>2
  <2> QED BY <1>5, <2>1
<1>7. m = Batch[p][n[p] + 1] /\ n[p] \in Nat
  OBVIOUS
<1> HIDE DEF t, u, m
<1>8. ASSUME NEW e \in Publisher, NEW k \in 1..u[e] PROVE \E i \in 1..Len(t) : t[i] = Batch[e][k]
  <2>1. CASE e = p /\ k = n[p] + 1
    BY <1>3, <1>7, <2>1
  <2>2. CASE k \in 1..n[e]
    <3>1. PICK i \in 1..Len(s) : s[i] = Batch[e][k]
      BY <2>2 DEF Merges
    <3>2. i \in 1..Len(t) /\ t[i] = s[i]
      BY <1>3
    <3> QED BY <3>1, <3>2
  <2> QED BY <1>4, <2>1, <2>2
<1>9. ASSUME NEW i \in 1..Len(t) PROVE \E e \in Publisher : \E k \in 1..u[e] : t[i] = Batch[e][k]
  <2>1. CASE i = Len(s) + 1
    <3>1. n[p] + 1 \in 1..u[p]
      BY <1>4, <1>7
    <3>2. t[i] = Batch[p][n[p] + 1]
      BY <1>3, <1>7, <2>1
    <3> QED BY <3>1, <3>2
  <2>2. CASE i \in 1..Len(s)
    <3>1. PICK e \in Publisher : \E k \in 1..n[e] : s[i] = Batch[e][k]
      BY <2>2 DEF Merges
    <3>2. 1..n[e] \subseteq 1..u[e]
      BY <1>4
    <3> QED BY <1>3, <2>2, <3>1, <3>2
  <2> QED BY <1>3, <2>1, <2>2
<1>10. ASSUME NEW i \in 1..Len(t), NEW j \in 1..Len(t), i < j
       PROVE  /\ t[i] # t[j]
              /\ \A e \in Publisher : \A k, l \in 1..Len(Batch[e]) :
                   t[i] = Batch[e][k] /\ t[j] = Batch[e][l] => k < l
  <2>1. CASE j \in 1..Len(s)
    <3>1. i \in 1..Len(s) /\ t[i] = s[i] /\ t[j] = s[j]
      BY <1>3, <1>10, <2>1
    <3>2. /\ s[i] # s[j]
          /\ \A e \in Publisher : \A k, l \in 1..Len(Batch[e]) :
               s[i] = Batch[e][k] /\ s[j] = Batch[e][l] => k < l
      BY <1>10, <2>1, <3>1 DEF Merges
    <3> QED BY ONLY <3>1, <3>2
  <2>2. CASE j = Len(s) + 1
    <3>1. i \in 1..Len(s) /\ t[i] = s[i] /\ t[j] = m
      BY <1>3, <1>10, <2>2
    <3>2. PICK d \in Publisher : \E h \in 1..n[d] : s[i] = Batch[d][h]
      BY <3>1 DEF Merges
    <3>3. PICK h \in 1..n[d] : s[i] = Batch[d][h]
      BY <3>2
    <3>4. h \in 1..Len(Batch[d])
      BY <1>1
    <3>5. d = p => h # n[p] + 1
      BY <1>7
    <3>6. t[i] # t[j]
      BY ONLY <1>6, <3>1, <3>3, <3>4, <3>5
    <3>7. ASSUME NEW e \in Publisher, NEW k \in 1..Len(Batch[e]), NEW l \in 1..Len(Batch[e]),
                 t[i] = Batch[e][k], t[j] = Batch[e][l]
          PROVE  k < l
      <4>1. Batch[e][l] = m /\ Batch[e][k] = Batch[d][h]
        BY <3>1, <3>3, <3>7
      <4>2. e = p /\ l = n[p] + 1
        BY ONLY <1>6, <4>1, e \in Publisher, l \in 1..Len(Batch[e])
      <4>3. e = d /\ k = h
        BY ONLY <1>5, <3>4, <4>1, e \in Publisher, d \in Publisher, k \in 1..Len(Batch[e])
      <4> QED BY <1>7, <4>2, <4>3
    <3> QED BY <3>6, <3>7
  <2>3. j \in 1..Len(s) \/ j = Len(s) + 1
    BY <1>3
  <2> QED BY <2>1, <2>2, <2>3
<1>11. Merges(t, u)
  BY <1>8, <1>9, <1>10 DEF Merges
<1> QED BY <1>11 DEF t, u, m

\* Who is at a channel, and at which.
LEMMA AtChannel ==
    ASSUME Known, NEW p \in Goroutine, pc[p] \in {"send", "recv"}
    PROVE  /\ ptr[p] = Registered(p) /\ ptr[p] \in QueueId
           /\ heap[ptr[p]] \in QueueValue /\ accepted[ptr[p]] \in Seq(Message)
           /\ delivered[ptr[p]] \in Seq(Message)
           /\ accepted[ptr[p]] = delivered[ptr[p]] \o heap[ptr[p]].buf
           /\ Len(heap[ptr[p]].buf) <= heap[ptr[p]].cap
           /\ pc[p] = "send" => p \in Sender
           /\ pc[p] = "recv" => p \in {main, consumer}
           /\ p \in Sender => /\ ptr[p] = queues[Target(p)] /\ call[p].msg = Batch[p][at[p]]
                              /\ at[p] \in 1..Len(Batch[p]) /\ ~heap[ptr[p]].chClosed
           /\ p = consumer => ptr[p] = queues["events"]
           /\ p = main => /\ ~heap[ptr[p]].chClosed
                          /\ \/ at[main] \in 3..(Lines + 2) /\ ptr[p] = queues["log"]
                             \/ at[main] = Lines + 4 /\ ptr[p] = queues["jobs"]
<1> USE DEF Known
<1>1. /\ ptr[p] \in QueueId /\ ptr[p] = Registered(p)
      /\ pc[p] = "send" => call[p].op = "Publish"
      /\ pc[p] = "recv" => call[p].op = "Consume"
  BY DEF IInv, BlockedInv, Registered, CallInv, PlaceInv
<1>2. /\ heap[ptr[p]] \in QueueValue /\ accepted[ptr[p]] \in Seq(Message)
      /\ delivered[ptr[p]] \in Seq(Message)
  BY <1>1 DEF IInv, TypeOK
<1>3. /\ accepted[ptr[p]] = delivered[ptr[p]] \o heap[ptr[p]].buf
      /\ Len(heap[ptr[p]].buf) <= heap[ptr[p]].cap
  BY <1>1 DEF DrainInv, BooksInv
<1>4. /\ pc[p] = "send" => p \in Sender
      /\ pc[p] = "recv" => p \in {main, consumer}
  BY <1>1, WhoReads, DemoAssumption
<1>5. p \in Sender => /\ ptr[p] = queues[Target(p)] /\ call[p].msg = Batch[p][at[p]]
                      /\ at[p] \in 1..Len(Batch[p]) /\ ~heap[ptr[p]].chClosed
  BY <1>1, WhoReads, Roles, QueueThere DEF Registered, IInv, ClosedInv
<1>6. p = consumer => ptr[p] = queues["events"]
  BY <1>1, WhoReads DEF Registered
<1>7. p = main => /\ ~heap[ptr[p]].chClosed
                  /\ \/ at[main] \in 3..(Lines + 2) /\ ptr[p] = queues["log"]
                     \/ at[main] = Lines + 4 /\ ptr[p] = queues["jobs"]
  BY <1>1, WhoReads, QueueThere DEF Registered
<1> QED BY <1>1, <1>2, <1>3, <1>4, <1>5, <1>6, <1>7

\* The queues that exist are three different channels.
LEMMA ThreeChannels ==
    ASSUME Known
    PROVE  /\ \A x \in Queues : queues[x] # Nil => queues[x] \in QueueId
           /\ \A x, y \in Queues : queues[x] # Nil /\ queues[x] = queues[y] => x = y
           /\ queues["log"] # Nil => heap[queues["log"]].cap = 100
           /\ queues["jobs"] # Nil => heap[queues["jobs"]].cap = 0
           /\ queues["events"] # Nil => /\ heap[queues["events"]].cap = 0
                                        /\ heap[queues["events"]].chClosed <=> Past(Lines + 7)
<1>1. \A x \in Queues : x \in Name
  BY DemoAssumption DEF Queues
<1> QED BY <1>1 DEF Known, DemoInv, QueuesInv, OpenInv, IInv, TypeOK

\* What any step at a channel does to the places, and that it leaves the rest alone.
LEMMA ChannelFrame ==
    ASSUME Known, NEW p \in Goroutine, NEW r \in Goroutine, at' = at,
           Send(p) \/ Receive(p) \/ Handoff(p, r)
    PROVE  /\ UNCHANGED <<queues, call>>
           /\ \A x \in Goroutine : \/ pc'[x] = pc[x] /\ ret'[x] = ret[x]
                                   \/ pc[x] \in {"send", "recv"} /\ pc'[x] = "runlock"
           /\ \A x \in Goroutine \ {p, r} : pc'[x] = pc[x] /\ ret'[x] = ret[x]
           /\ Send(p) \/ Receive(p) => \A x \in Goroutine \ {p} : pc'[x] = pc[x]
           /\ Send(p) \/ Receive(p) => pc'[p] = "runlock"
           /\ Handoff(p, r) => pc'[p] = "runlock" /\ pc'[r] = "runlock"
           /\ \A q \in QueueId : /\ heap'[q].chClosed = heap[q].chClosed
                                 /\ heap'[q].cap = heap[q].cap
           /\ \A q \in QueueId \ {ptr[p]} : /\ accepted'[q] = accepted[q]
                                            /\ delivered'[q] = delivered[q]
<1> USE DEF Known, IInv, TypeOK
<1>1. UNCHANGED <<queues, call>>
  BY DEF Send, Receive, Handoff
<1>2. /\ Send(p) \/ Receive(p) => /\ pc'[p] = "runlock" /\ pc[p] \in {"send", "recv"}
                                  /\ \A x \in Goroutine \ {p} : pc'[x] = pc[x]
      /\ Handoff(p, r) => /\ pc'[p] = "runlock" /\ pc'[r] = "runlock"
                          /\ pc[p] = "send" /\ pc[r] = "recv"
                          /\ \A x \in Goroutine \ {p, r} : pc'[x] = pc[x]
  BY DEF Send, Receive, Handoff
<1>3. /\ Send(p) => ret' = ret
      /\ Receive(p) => \A x \in Goroutine \ {p} : ret'[x] = ret[x]
      /\ Handoff(p, r) => \A x \in Goroutine \ {r} : ret'[x] = ret[x]
  BY DEF Send, Receive, Handoff
<1>4. \A x \in Goroutine : \/ pc'[x] = pc[x] /\ ret'[x] = ret[x]
                           \/ pc[x] \in {"send", "recv"} /\ pc'[x] = "runlock"
  BY <1>2, <1>3
<1>5. \A x \in Goroutine \ {p, r} : pc'[x] = pc[x] /\ ret'[x] = ret[x]
  BY <1>2, <1>3
<1>6. ptr[p] \in QueueId
  BY AtChannel DEF Send, Receive, Handoff
<1>7. \A q \in QueueId : heap'[q].chClosed = heap[q].chClosed /\ heap'[q].cap = heap[q].cap
  <2>1. heap' = heap \/ \E b : heap' = [heap EXCEPT ![ptr[p]].buf = b]
    BY DEF Send, Receive, Handoff
  <2>2. ASSUME NEW b, heap' = [heap EXCEPT ![ptr[p]].buf = b], NEW q \in QueueId
        PROVE  heap'[q].chClosed = heap[q].chClosed /\ heap'[q].cap = heap[q].cap
    BY <1>6, <2>2 DEF QueueValue
  <2> QED BY <2>1, <2>2
<1>8. \A q \in QueueId \ {ptr[p]} : accepted'[q] = accepted[q] /\ delivered'[q] = delivered[q]
  BY <1>6 DEF Send, Receive, Handoff
<1> QED BY <1>1, <1>2, <1>4, <1>5, <1>7, <1>8

\* A step at a channel takes main past a call only when main is the receiver, and counts as
\* sent only what a sender at the channel has there.
LEMMA ChannelPast ==
    ASSUME Known, NEW p \in Goroutine, NEW r \in Goroutine, at' = at,
           Send(p) \/ Receive(p) \/ Handoff(p, r)
    PROVE  /\ \A k \in Nat : Past(k)' <=> \/ Past(k)
                                          \/ /\ k = at[main] /\ pc[main] = "recv"
                                             /\ pc'[main] = "runlock"
           /\ \A e \in Sender :
                /\ pc'[e] = pc[e] => Sent(e)' = Sent(e)
                /\ pc'[e] # pc[e] => pc[e] = "send" /\ Sent(e) = at[e] - 1 /\ Sent(e)' = at[e]
<1>1. \A x \in Goroutine : \/ pc'[x] = pc[x]
                           \/ pc[x] \in {"send", "recv"} /\ pc'[x] = "runlock"
  BY ChannelFrame
<1>2. main \in Goroutine /\ pc[main] # "send" /\ \A e \in Sender : e \in Goroutine /\ pc[e] # "recv"
  BY DemoAssumption, AtChannel
<1>3. ASSUME NEW k \in Nat
      PROVE  Past(k)' <=> \/ Past(k)
                          \/ k = at[main] /\ pc[main] = "recv" /\ pc'[main] = "runlock"
  BY <1>1, <1>2 DEF Past
<1>4. ASSUME NEW e \in Sender
      PROVE  /\ pc'[e] = pc[e] => Sent(e)' = Sent(e)
             /\ pc'[e] # pc[e] => pc[e] = "send" /\ Sent(e) = at[e] - 1 /\ Sent(e)' = at[e]
  BY <1>1, <1>2 DEF Sent
<1> QED BY <1>3, <1>4

\* Steps at channels keep all that is not about messages.
LEMMA ChannelKeeps ==
    ASSUME Known, NEW p \in Goroutine, NEW r \in Goroutine, at' = at,
           Send(p) \/ Receive(p) \/ Handoff(p, r)
    PROVE  AtInv' /\ RunsInv' /\ LaunchInv' /\ WaitInv' /\ QueuesInv' /\ OpenInv'
<1> USE DEF Known, DemoInv
<1>1. /\ at[main] \in Nat /\ Lines \in Nat /\ main \in Goroutine /\ consumer \in Goroutine
      /\ Sender \subseteq Goroutine /\ Publisher \subseteq Goroutine
  BY MainAt, DemoAssumption DEF Sender
<1>2. /\ UNCHANGED <<queues, call>>
      /\ \A x \in Goroutine : \/ pc'[x] = pc[x] /\ ret'[x] = ret[x]
                              \/ pc[x] \in {"send", "recv"} /\ pc'[x] = "runlock"
      /\ \A q \in QueueId : /\ heap'[q].chClosed = heap[q].chClosed
                            /\ heap'[q].cap = heap[q].cap
  BY ChannelFrame
<1>3. \A k \in Nat : Past(k) => Past(k)'
  BY ChannelPast
<1>4. \A k \in Nat : k # at[main] => (Past(k)' <=> Past(k))
  BY ChannelPast
<1>5. pc[main] = "recv" => at[main] \in 3..(Lines + 2) \/ at[main] = Lines + 4
  BY <1>1, AtChannel
<1>6. \A k \in {1, 2, Lines + 3, Lines + 5, Lines + 6, Lines + 7, Lines + 8} :
        Past(k)' <=> Past(k)
  <2>1. CASE pc[main] = "recv"
    BY <1>1, <1>4, <1>5, <2>1
  <2>2. CASE pc[main] # "recv"
    BY <1>1, <2>2, ChannelPast
  <2> QED BY <2>1, <2>2
<1>7. AtInv' /\ RunsInv'
  BY <1>2 DEF AtInv, RunsInv
<1>8. LaunchInv'
  <2>1. \A x \in Goroutine : Launch(x)' = Launch(x) /\ Launch(x) \in Nat
    BY <1>1 DEF Launch
  <2>2. \A x \in Goroutine : Past(Launch(x)) => Past(Launch(x))'
    BY <1>3, <2>1
  <2> QED BY <1>1, <1>2, <2>2 DEF LaunchInv
<1>9. WaitInv'
  BY <1>1, <1>2 DEF WaitInv
<1>10. QueuesInv'
  BY <1>2, <1>6 DEF QueuesInv
<1>11. OpenInv'
  <2>1. \A x \in Queues : queues[x] # Nil => queues[x] \in QueueId
    BY ThreeChannels
  <2> QED BY <1>2, <1>6, <2>1 DEF OpenInv, Queues
<1> QED BY <1>7, <1>8, <1>9, <1>10, <1>11

\* The logger puts a line into the log queue.
LEMMA LineSent ==
    ASSUME Known, NEW p \in Goroutine, at' = at, Send(p)
    PROVE  DemoInv'
<1> USE DEF Known, DemoInv
<1>1. pc[p] = "send" /\ p \in Sender /\ ptr[p] = queues[Target(p)] /\ ptr[p] \in QueueId
  BY AtChannel DEF Send
<1>2. p = logger /\ ptr[p] = queues["log"] /\ at[p] \in 1..Lines /\ queues["log"] # Nil
  <2>1. heap[ptr[p]].cap # 0
    <3>1. ~heap[ptr[p]].chClosed /\ heap[ptr[p]] \in QueueValue
      BY <1>1, AtChannel
    <3>2. Len(heap[ptr[p]].buf) < heap[ptr[p]].cap
      BY <3>1 DEF Send
    <3>3. Len(heap[ptr[p]].buf) \in Nat
      BY <3>1, LenProperties DEF QueueValue
    <3> QED BY <3>2, <3>3
  <2>2. queues[Target(p)] # Nil
    BY <1>1, NilAssumption
  <2>3. Target(p) = "log"
    BY <1>1, <2>1, <2>2, ThreeChannels DEF Target
  <2>4. p = logger
    BY <2>3 DEF Target
  <2> QED BY <1>1, <2>2, <2>3, <2>4, AtChannel DEF Lines
<1>3. /\ UNCHANGED <<queues, delivered, ret>> /\ pc'[p] = "runlock"
      /\ \A x \in Goroutine \ {p} : pc'[x] = pc[x]
      /\ \A q \in QueueId \ {queues["log"]} : accepted'[q] = accepted[q]
  <2>1. UNCHANGED <<queues, delivered, ret>>
    BY DEF Send
  <2> QED BY <1>1, <1>2, <2>1, ChannelFrame
<1>4. Len(accepted'[queues["log"]]) = Len(accepted[queues["log"]]) + 1
  <2>1. accepted'[queues["log"]] = Append(accepted[queues["log"]], call[p].msg)
    BY <1>1, <1>2, AtChannel DEF Send, IInv, TypeOK
  <2>2. accepted[queues["log"]] \in Seq(Message)
    BY <1>1, <1>2 DEF IInv, TypeOK
  <2> QED BY <2>1, <2>2
<1>5. /\ Sent(logger) = at[logger] - 1 /\ Sent(logger)' = at[logger]
      /\ \A e \in Sender \ {logger} : Sent(e)' = Sent(e)
  BY <1>1, <1>2, <1>3, ChannelPast, DemoAssumption
<1>6. \A k \in Nat : Past(k)' <=> Past(k)
  BY <1>1, <1>2, <1>3, ChannelPast, DemoAssumption
<1>7. Lines \in Nat /\ jobber \in Sender \ {logger} /\ Publisher \subseteq Sender \ {logger}
  BY MainCalls, DemoAssumption DEF Sender
<1>8. \A x \in {"jobs", "events"} : queues[x] # Nil => queues[x] \in QueueId \ {queues["log"]}
  BY ThreeChannels DEF Queues
<1>9. AnswerInv'
  BY <1>3 DEF AnswerInv
<1>10. CountInv'
  <2>1. /\ Len(accepted'[queues["log"]]) = Sent(logger)'
        /\ \A k \in 1..Lines : Past(2 + k)' <=> Len(delivered[queues["log"]]) >= k
    <3>1. /\ Len(accepted[queues["log"]]) = Sent(logger)
          /\ \A k \in 1..Lines : Past(2 + k) <=> Len(delivered[queues["log"]]) >= k
      BY <1>2 DEF CountInv
    <3>2. \A k \in 1..Lines : Past(2 + k)' <=> Past(2 + k)
      BY ONLY <1>6, <1>7
    <3>3. Len(accepted'[queues["log"]]) = Sent(logger)'
      BY ONLY <1>2, <1>4, <1>5, <1>7, <3>1
    <3> QED BY ONLY <3>1, <3>2, <3>3
  <2>2. queues["jobs"] # Nil => /\ Len(accepted'[queues["jobs"]]) = Sent(jobber)'
                                /\ Past(Lines + 4)' <=> Len(delivered[queues["jobs"]]) >= 1
    <3>1. queues["jobs"] # Nil => accepted'[queues["jobs"]] = accepted[queues["jobs"]]
      BY <1>3, <1>8
    <3>2. (Past(Lines + 4)' <=> Past(Lines + 4)) /\ Sent(jobber)' = Sent(jobber)
      BY <1>5, <1>6, <1>7
    <3>3. queues["jobs"] # Nil => /\ Len(accepted[queues["jobs"]]) = Sent(jobber)
                                  /\ Past(Lines + 4) <=> Len(delivered[queues["jobs"]]) >= 1
      BY DEF CountInv
    <3> QED BY ONLY <3>1, <3>2, <3>3
  <2>3. ~Past(Lines + 2)'
    BY <1>2, <1>5, <1>6, <1>7 DEF CountInv
  <2>4. Past(Lines + 4)' => Sent(jobber)' = 1
    BY <1>5, <1>6, <1>7 DEF CountInv
  <2> QED BY <1>3, <2>1, <2>2, <2>3, <2>4 DEF CountInv
<1>11. EventInv'
  <2>1. EventsSent' = EventsSent
    BY <1>5, <1>7 DEF EventsSent
  <2>2. queues["events"] # Nil => accepted'[queues["events"]] = accepted[queues["events"]]
    BY <1>3, <1>8
  <2> QED BY <1>3, <2>1, <2>2 DEF EventInv
<1> QED BY <1>9, <1>10, <1>11, ChannelKeeps

\* A receive takes a line from the log queue, or tells the consumer that events has ended:
\* nothing is ever in the buffer of a rendezvous queue.
LEMMA WhoReceives ==
    ASSUME Known, NEW p \in Goroutine, Receive(p)
    PROVE  /\ pc[p] = "recv" /\ ptr[p] \in QueueId
           /\ \/ /\ p = main /\ at[main] \in 3..(Lines + 2)
                 /\ ptr[p] = queues["log"] /\ heap[ptr[p]].buf # <<>>
              \/ /\ p = consumer /\ ptr[p] = queues["events"]
                 /\ heap[ptr[p]].buf = <<>> /\ heap[ptr[p]].chClosed /\ Past(Lines + 7)
<1> DEFINE q == ptr[p]
<1>1. /\ pc[p] = "recv" /\ p \in {main, consumer} /\ q \in QueueId /\ heap[q] \in QueueValue
      /\ Len(heap[q].buf) <= heap[q].cap
      /\ p = consumer => q = queues["events"]
      /\ p = main => /\ ~heap[q].chClosed
                     /\ \/ at[main] \in 3..(Lines + 2) /\ q = queues["log"]
                        \/ at[main] = Lines + 4 /\ q = queues["jobs"]
  BY AtChannel DEF Receive
<1>2. heap[q].buf # <<>> \/ heap[q].chClosed
  BY DEF Receive
<1>3. q # Nil
  BY <1>1, NilAssumption
<1>4. q = queues["jobs"] \/ q = queues["events"] => heap[q].cap = 0
  BY <1>3, ThreeChannels
<1>5. heap[q].cap = 0 => heap[q].buf = <<>>
  <2>1. heap[q].buf \in Seq(Message) /\ Len(heap[q].buf) \in Nat
    BY <1>1, LenProperties DEF QueueValue
  <2> QED BY <1>1, <2>1, EmptySeq
<1>6. p = consumer /\ heap[q].chClosed => Past(Lines + 7)
  BY <1>1, <1>3, ThreeChannels
<1> QED BY <1>1, <1>2, <1>4, <1>5, <1>6

\* main takes a line from the log queue.
LEMMA LineReceived ==
    ASSUME Known, NEW p \in Goroutine, at' = at, Receive(p), p = main
    PROVE  DemoInv'
<1> USE DEF Known, DemoInv
<1> DEFINE q == queues["log"]
           a == at[main]
<1>1. /\ pc[main] = "recv" /\ ptr[main] = q /\ q \in QueueId /\ q # Nil
      /\ heap[q].buf # <<>> /\ a \in 3..(Lines + 2) /\ Lines \in Nat
  BY WhoReceives, MainCalls, NilAssumption, DemoAssumption
<1>2. /\ delivered' = [delivered EXCEPT ![q] = Append(@, Head(heap[q].buf))]
      /\ ret' = [ret EXCEPT ![main] = Head(heap[q].buf)]
      /\ UNCHANGED <<queues, accepted>>
  BY <1>1 DEF Receive
<1>3. /\ heap[q].buf \in Seq(Message) /\ delivered[q] \in Seq(Message)
      /\ accepted[q] = delivered[q] \o heap[q].buf
  BY <1>1, AtChannel DEF QueueValue
<1>4. /\ Len(heap[q].buf) \in Nat \ {0} /\ Head(heap[q].buf) \in Message
      /\ Len(delivered[q]) \in Nat
      /\ Len(accepted[q]) = Len(delivered[q]) + Len(heap[q].buf)
  <2>1. Len(heap[q].buf) \in Nat \ {0} /\ Head(heap[q].buf) \in Message
    BY <1>1, <1>3, HeadTailProperties, EmptySeq, LenProperties
  <2>2. Len(delivered[q]) \in Nat /\ Len(accepted[q]) = Len(delivered[q]) + Len(heap[q].buf)
    BY <1>3, LenProperties, ConcatProperties
  <2> QED BY <2>1, <2>2
<1>5. /\ delivered'[q] = Append(delivered[q], Head(heap[q].buf))
      /\ Len(delivered'[q]) = Len(delivered[q]) + 1
  BY <1>1, <1>2, <1>3, <1>4 DEF IInv, TypeOK
<1>6. \A k \in Nat : Past(k)' <=> Past(k) \/ k = a
  <2>1. pc'[main] = "runlock"
    BY ChannelFrame
  <2> QED BY <1>1, <2>1, ChannelPast
<1>7. \A k \in Nat : Past(k) <=> a > k
  BY <1>1 DEF Past
<1>8. \A e \in Sender : Sent(e)' = Sent(e)
  <2>1. \A e \in Sender : e \in Goroutine \ {main}
    BY DemoAssumption
  <2> QED BY <2>1, ChannelPast, ChannelFrame
<1>9. \A x \in {"jobs", "events"} : queues[x] # Nil => queues[x] \in QueueId \ {q}
  BY <1>1, ThreeChannels DEF Queues
<1>10. \A x \in QueueId \ {q} : delivered'[x] = delivered[x]
  BY <1>1, <1>2 DEF IInv, TypeOK
<1>11. logger \in Sender /\ jobber \in Sender /\ Publisher \subseteq Sender
  BY DEF Sender
<1>12. AnswerInv'
  <2>1. /\ ret'[main] \in Message /\ ret'[main] # "ErrQueueClosed"
        /\ \A x \in Goroutine \ {main} : ret'[x] = ret[x]
    BY <1>2, <1>4, MessageAssumption, DemoAssumption DEF IInv, TypeOK
  <2> QED BY <2>1, DemoAssumption DEF AnswerInv
<1>13. CountInv'
  <2>1. Len(delivered[q]) = a - 3
    <3>1. Len(accepted[q]) = Sent(logger)
      BY <1>1 DEF CountInv
    <3>2. \A k \in 1..Lines : a > 2 + k <=> Len(delivered[q]) >= k
      <4> SUFFICES ASSUME NEW k \in 1..Lines PROVE a > 2 + k <=> Len(delivered[q]) >= k
        OBVIOUS
      <4>1. Past(2 + k) <=> Len(delivered[q]) >= k
        BY <1>1 DEF CountInv
      <4>2. Past(2 + k) <=> a > 2 + k
        BY <1>1, <1>7
      <4> QED BY <4>1, <4>2
    <3>3. a - 2 \in 1..Lines
      BY <1>1
    <3>4. ~(Len(delivered[q]) >= a - 2)
      BY <1>1, <3>2, <3>3
    <3>5. a - 3 >= 1 => Len(delivered[q]) >= a - 3
      <4> SUFFICES ASSUME a - 3 >= 1 PROVE Len(delivered[q]) >= a - 3
        OBVIOUS
      <4>1. a - 3 \in 1..Lines
        BY <1>1
      <4> QED BY <1>1, <3>2, <4>1
    <3> QED BY <1>1, <1>4, <3>4, <3>5
  <2>2. \A k \in 1..Lines : Past(2 + k)' <=> Len(delivered'[q]) >= k
    BY <1>1, <1>5, <1>6, <1>7, <2>1
  <2>3. Len(accepted[q]) = Sent(logger)'
    BY <1>1, <1>8, <1>11 DEF CountInv
  <2>4. Past(Lines + 4)' <=> Past(Lines + 4)
    BY <1>1, <1>6
  <2>5. queues["jobs"] # Nil => /\ Len(accepted[queues["jobs"]]) = Sent(jobber)'
                                /\ Past(Lines + 4)' <=> Len(delivered'[queues["jobs"]]) >= 1
    BY <1>8, <1>9, <1>10, <1>11, <2>4 DEF CountInv
  <2>6. Past(Lines + 2)' => Sent(logger)' = Lines
    <3>1. SUFFICES ASSUME Past(Lines + 2)' PROVE Sent(logger) = Lines
      BY <1>8, <1>11
    <3>2. a = Lines + 2
      BY <1>1, <1>6, <1>7, <3>1
    <3>3. Sent(logger) >= Lines
      <4>1. Len(accepted[q]) = Sent(logger)
        BY <1>1 DEF CountInv
      <4> QED BY <1>1, <1>4, <2>1, <3>2, <4>1
    <3>4. Sent(logger) \in 0..Lines
      BY <1>11, SentBounds DEF Lines
    <3> QED BY <1>1, <3>3, <3>4
  <2>7. Past(Lines + 4)' => Sent(jobber)' = 1
    BY <1>8, <1>11, <2>4 DEF CountInv
  <2> QED BY <1>2, <2>2, <2>3, <2>5, <2>6, <2>7 DEF CountInv
<1>14. EventInv'
  <2>1. EventsSent' = EventsSent
    BY <1>8, <1>11 DEF EventsSent
  <2> QED BY <1>2, <2>1 DEF EventInv
<1> QED BY <1>12, <1>13, <1>14, ChannelKeeps

\* The consumer learns that events is closed: main closed it, so main is past that call.
LEMMA EndReported ==
    ASSUME Known, NEW p \in Goroutine, at' = at, Receive(p), p = consumer
    PROVE  DemoInv'
<1> USE DEF Known, DemoInv
<1>1. /\ pc[p] = "recv" /\ heap[ptr[p]].buf = <<>> /\ Past(Lines + 7)
      /\ consumer # main /\ consumer \in Goroutine \ Sender /\ at[main] \in Nat /\ Lines \in Nat
  BY WhoReceives, MainAt, DemoAssumption
<1>2. /\ ret' = [ret EXCEPT ![consumer] = "ErrQueueClosed"]
      /\ UNCHANGED <<queues, heap, accepted, delivered>>
  BY <1>1 DEF Receive
<1>3. \A x \in Goroutine \ {consumer} : pc'[x] = pc[x]
  BY ChannelFrame
<1>4. \A k \in Nat : Past(k)' <=> Past(k)
  BY <1>1, <1>3, DemoAssumption, ChannelPast
<1>5. \A e \in Sender : Sent(e)' = Sent(e)
  <2>1. \A e \in Sender : e \in Goroutine \ {consumer}
    BY DemoAssumption
  <2> QED BY <1>3, <2>1, ChannelPast
<1>6. QueuesInv' /\ OpenInv' /\ CountInv' /\ EventInv'
  BY <1>2, <1>4, <1>5, Quiet
<1>7. AnswerInv'
  <2>1. at[main] >= Lines + 7
    BY <1>1 DEF Past
  <2>2. /\ ret'[consumer] = "ErrQueueClosed"
        /\ \A x \in Goroutine \ {consumer} : ret'[x] = ret[x]
    BY <1>1, <1>2 DEF IInv, TypeOK
  <2> QED BY <2>1, <2>2 DEF AnswerInv
<1> QED BY <1>6, <1>7, ChannelKeeps

\* A handoff passes the job to main, or an event to the consumer.
LEMMA WhoHandsOver ==
    ASSUME Known, NEW p \in Goroutine, NEW r \in Goroutine, Handoff(p, r)
    PROVE  /\ pc[p] = "send" /\ pc[r] = "recv" /\ ptr[p] = queues[Target(p)]
           /\ ptr[p] \in QueueId /\ call[p].msg = Batch[p][at[p]] /\ at[p] \in 1..Len(Batch[p])
           /\ \/ p = jobber /\ r = main /\ at[main] = Lines + 4 /\ Target(p) = "jobs"
              \/ p \in Publisher /\ r = consumer /\ Target(p) = "events"
<1>1. /\ pc[p] = "send" /\ pc[r] = "recv" /\ p \in Sender /\ ptr[r] = ptr[p]
      /\ ptr[p] = queues[Target(p)] /\ ptr[p] \in QueueId /\ heap[ptr[p]].cap = 0
      /\ call[p].msg = Batch[p][at[p]] /\ at[p] \in 1..Len(Batch[p])
  BY AtChannel DEF Handoff
<1>2. /\ r \in {main, consumer}
      /\ r = consumer => ptr[r] = queues["events"]
      /\ r = main => \/ at[main] \in 3..(Lines + 2) /\ ptr[r] = queues["log"]
                     \/ at[main] = Lines + 4 /\ ptr[r] = queues["jobs"]
  BY <1>1, AtChannel
<1>3. Target(p) \in Queues /\ ptr[p] # Nil
  BY <1>1, NilAssumption DEF Target, Queues
<1>4. Target(p) # "log"
  BY <1>1, <1>3, ThreeChannels
<1>5. p # logger
  BY <1>4 DEF Target
<1>6. CASE p = jobber
  <2>1. Target(p) = "jobs"
    BY <1>6, DemoAssumption DEF Target
  <2> QED BY <1>1, <1>2, <1>3, <1>6, <2>1, ThreeChannels DEF Queues
<1>7. CASE p \in Publisher
  <2>1. Target(p) = "events"
    BY <1>7, DemoAssumption DEF Target
  <2> QED BY <1>1, <1>2, <1>3, <1>7, <2>1, ThreeChannels DEF Queues
<1> QED BY <1>1, <1>5, <1>6, <1>7 DEF Sender

\* What a handoff does to the channel, and to the one who gets the message.
LEMMA HandoffEffect ==
    ASSUME Known, NEW p \in Goroutine, NEW r \in Goroutine, Handoff(p, r), NEW q, q = ptr[p]
    PROVE  /\ queues' = queues /\ call[p].msg \in Message
           /\ accepted[q] \in Seq(Message) /\ delivered[q] = accepted[q]
           /\ accepted'[q] = Append(accepted[q], call[p].msg)
           /\ delivered'[q] = Append(delivered[q], call[p].msg)
           /\ ret'[r] = call[p].msg /\ \A x \in Goroutine \ {r} : ret'[x] = ret[x]
<1>1. /\ q \in QueueId /\ p \in Sender /\ Batch[p] \in Seq(Message)
      /\ call[p].msg = Batch[p][at[p]] /\ at[p] \in 1..Len(Batch[p])
  BY WhoHandsOver, AtChannel, SenderCalls
<1>2. call[p].msg \in Message
  BY <1>1
<1>3. /\ accepted \in [QueueId -> Seq(Message)] /\ delivered \in [QueueId -> Seq(Message)]
      /\ ret \in [Goroutine -> Result] /\ heap[q] \in QueueValue
  BY <1>1 DEF Known, IInv, TypeOK
<1>4. /\ queues' = queues
      /\ accepted'[q] = Append(accepted[q], call[p].msg)
      /\ delivered'[q] = Append(delivered[q], call[p].msg)
      /\ ret'[r] = call[p].msg /\ \A x \in Goroutine \ {r} : ret'[x] = ret[x]
  BY <1>1, <1>3 DEF Handoff
<1>5. delivered[q] = accepted[q]
  <2>1. Len(heap[q].buf) <= 0 /\ accepted[q] = delivered[q] \o heap[q].buf
    BY <1>1 DEF Handoff, Known, DrainInv, BooksInv
  <2>2. heap[q].buf = <<>>
    BY <1>3, <2>1, EmptySeq, LenProperties DEF QueueValue
  <2> QED BY <1>1, <1>3, <2>1, <2>2, ConcatEmptySeq
<1> QED BY <1>1, <1>2, <1>3, <1>4, <1>5

\* The job publisher hands its message to main.
LEMMA JobHanded ==
    ASSUME Known, NEW p \in Goroutine, NEW r \in Goroutine, at' = at, Handoff(p, r), p = jobber
    PROVE  DemoInv'
<1>0. QueuesInv /\ CountInv /\ EventInv /\ AnswerInv
  BY DEF Known, DemoInv
<1> DEFINE q == queues["jobs"]
<1>1. /\ r = main /\ at[main] = Lines + 4 /\ ptr[p] = q /\ q \in QueueId /\ q # Nil
      /\ pc[p] = "send" /\ pc[main] = "recv" /\ Lines \in Nat /\ main \in Goroutine
      /\ main \notin Sender /\ jobber \in Sender /\ at[p] = 1
      /\ logger \in Sender \ {jobber} /\ Publisher \subseteq Sender \ {jobber}
  <2>1. ptr[p] \in QueueId /\ ptr[p] # Nil
    BY WhoHandsOver, NilAssumption
  <2>2. at[p] \in 1..1
    BY WhoHandsOver, BatchAssumption
  <2> QED BY <2>1, <2>2, WhoHandsOver, MainCalls, DemoAssumption DEF Sender
<1>2. /\ queues' = queues /\ accepted[q] \in Seq(Message) /\ delivered[q] = accepted[q]
      /\ call[p].msg \in Message
      /\ accepted'[q] = Append(accepted[q], call[p].msg)
      /\ delivered'[q] = Append(delivered[q], call[p].msg)
      /\ ret'[main] = call[p].msg /\ \A x \in Goroutine \ {main} : ret'[x] = ret[x]
  <2>1. Known /\ Handoff(p, main) /\ q = ptr[p] /\ main \in Goroutine
    BY <1>1
  <2> HIDE DEF q
  <2> QED BY ONLY <2>1, HandoffEffect
<1>3. /\ pc'[p] = "runlock" /\ pc'[main] = "runlock"
      /\ \A x \in Goroutine \ {p, main} : pc'[x] = pc[x]
      /\ \A x \in QueueId \ {q} : accepted'[x] = accepted[x] /\ delivered'[x] = delivered[x]
  BY <1>1, ChannelFrame
<1>4. \A k \in Nat : Past(k)' <=> Past(k) \/ k = Lines + 4
  BY <1>1, <1>3, ChannelPast
<1>5. \A k \in Nat : Past(k) <=> Lines + 4 > k
  BY <1>1 DEF Past
<1>6. /\ Sent(jobber)' = 1 /\ Sent(jobber) = 0
      /\ \A e \in Sender \ {jobber} : Sent(e)' = Sent(e)
  <2>1. \A e \in Sender \ {jobber} : pc'[e] = pc[e]
    BY <1>1, <1>3, DemoAssumption
  <2> QED BY <1>1, <1>3, <2>1, ChannelPast
<1>7. AnswerInv'
  <2>1. ret'[main] \in Message /\ ret'[main] # "ErrQueueClosed" /\ main # consumer
    BY <1>2, MessageAssumption, DemoAssumption
  <2> QED BY <1>0, <1>2, <2>1, DemoAssumption DEF AnswerInv
<1>8. CountInv'
  <2>1. queues["log"] = Nil
    BY <1>0, <1>1, <1>5 DEF QueuesInv
  <2>2. Len(accepted[q]) = 0
    BY <1>0, <1>1, <1>6 DEF CountInv
  <2>3. Len(accepted'[q]) = 1 /\ Len(delivered'[q]) = 1
    BY <1>2, <2>2
  <2>4. Past(Lines + 4)'
    BY <1>1, <1>4
  <2>5. Past(Lines + 2)' => Sent(logger)' = Lines
    BY <1>0, <1>1, <1>4, <1>6 DEF CountInv
  <2> QED BY <1>0, <1>2, <1>6, <2>1, <2>3, <2>4, <2>5 DEF CountInv
<1>9. EventInv'
  <2>1. queues["events"] = Nil
    BY <1>0, <1>1, <1>5 DEF QueuesInv
  <2> QED BY <1>0, <1>2, <2>1 DEF EventInv
<1> QED BY <1>7, <1>8, <1>9, ChannelKeeps DEF DemoInv

\* A publisher hands its next event to the consumer.
LEMMA EventHanded ==
    ASSUME Known, NEW p \in Goroutine, NEW r \in Goroutine, at' = at, Handoff(p, r),
           p \in Publisher
    PROVE  DemoInv'
<1>0. QueuesInv /\ CountInv /\ EventInv /\ AnswerInv
  BY DEF Known, DemoInv
<1> DEFINE q == queues["events"]
<1>1. /\ r = consumer /\ ptr[p] = q /\ q \in QueueId /\ q # Nil
      /\ pc[p] = "send" /\ pc[consumer] = "recv" /\ Lines \in Nat
      /\ p \in Sender /\ p # main /\ main # consumer /\ consumer \in Goroutine \ Sender
      /\ at[p] \in 1..Len(Batch[p]) /\ call[p].msg = Batch[p][at[p]]
      /\ logger \in Sender \ Publisher /\ jobber \in Sender \ Publisher
      /\ \A e \in Publisher : e \in Sender /\ e \in Goroutine /\ Len(Batch[e]) \in Nat
  <2>1. ptr[p] \in QueueId /\ ptr[p] # Nil
    BY WhoHandsOver, NilAssumption
  <2>2. \A e \in Publisher : e \in Sender
    BY DEF Sender
  <2>3. r = consumer /\ ptr[p] = q
    BY <2>2, WhoHandsOver, DemoAssumption
  <2> QED BY <2>1, <2>2, <2>3, WhoHandsOver, SenderCalls, MainCalls, DemoAssumption DEF Sender
<1>2. /\ queues' = queues /\ accepted[q] \in Seq(Message)
      /\ call[p].msg \in Message
      /\ accepted'[q] = Append(accepted[q], call[p].msg)
      /\ ret'[consumer] = call[p].msg /\ \A x \in Goroutine \ {consumer} : ret'[x] = ret[x]
  BY <1>1, HandoffEffect
<1>3. /\ pc'[p] = "runlock" /\ \A x \in Goroutine \ {p, consumer} : pc'[x] = pc[x]
      /\ \A x \in QueueId \ {q} : accepted'[x] = accepted[x] /\ delivered'[x] = delivered[x]
  BY <1>1, ChannelFrame
<1>4. \A k \in Nat : Past(k)' <=> Past(k)
  <2>1. pc'[main] = pc[main]
    BY <1>1, <1>3, MainAt
  <2> QED BY <2>1, ChannelPast
<1>5. /\ Sent(p) = at[p] - 1 /\ Sent(p)' = at[p]
      /\ \A e \in Sender \ {p} : Sent(e)' = Sent(e)
  <2>1. \A e \in Sender \ {p} : pc'[e] = pc[e]
    BY <1>1, <1>3, DemoAssumption
  <2> QED BY <1>1, <1>3, <2>1, ChannelPast
<1>6. AnswerInv'
  <2>1. ret'[consumer] \in Message /\ ret'[consumer] # "ErrQueueClosed"
    BY <1>2, MessageAssumption
  <2> QED BY <1>0, <1>2, <2>1 DEF AnswerInv
<1>7. CountInv'
  <2>1. \A x \in {"log", "jobs"} : queues[x] # Nil => queues[x] \in QueueId \ {q}
    BY <1>1, ThreeChannels DEF Queues
  <2>2. Sent(logger)' = Sent(logger) /\ Sent(jobber)' = Sent(jobber)
    BY <1>1, <1>5
  <2>3. \A k \in 1..Lines : Past(2 + k)' <=> Past(2 + k)
    BY <1>1, <1>4
  <2>4. (Past(Lines + 2)' <=> Past(Lines + 2)) /\ (Past(Lines + 4)' <=> Past(Lines + 4))
    BY <1>1, <1>4
  <2> QED BY <1>0, <1>2, <1>3, <2>1, <2>2, <2>3, <2>4 DEF CountInv
<1>8. EventInv'
  <2> DEFINE n == EventsSent
             u == [n EXCEPT ![p] = @ + 1]
             t == Append(accepted[q], Batch[p][n[p] + 1])
  <2>1. /\ n \in [Publisher -> Nat] /\ n[p] + 1 = at[p] /\ n[p] < Len(Batch[p])
        /\ \A e \in Publisher : n[e] <= Len(Batch[e])
    <3>1. \A e \in Publisher : Sent(e) \in 0..Len(Batch[e])
      BY <1>1, SentBounds
    <3>2. \A e \in Publisher : Sent(e) \in Nat /\ Sent(e) <= Len(Batch[e])
      BY <1>1, <3>1
    <3> QED BY <1>1, <1>5, <3>2 DEF EventsSent
  <2>2. EventsSent' = u
    <3>1. \A e \in Publisher : EventsSent'[e] = Sent(e)' /\ n[e] = Sent(e)
      BY DEF EventsSent
    <3>2. \A e \in Publisher : u[e] = EventsSent'[e]
      BY <1>1, <1>5, <2>1, <3>1
    <3>3. EventsSent' = [e \in Publisher |-> EventsSent'[e]] /\ u = [e \in Publisher |-> u[e]]
      BY <2>1 DEF EventsSent
    <3> QED BY ONLY <3>2, <3>3
  <2>3. Merges(accepted[q], n)
    BY <1>0, <1>1 DEF EventInv
  <2>4. accepted'[q] = t
    BY <1>1, <1>2, <2>1
  <2> HIDE DEF n
  <2>5. Merges(t, u)
    BY <1>2, <2>1, <2>3, OneMoreEvent
  <2> HIDE DEF t, u
  <2> QED BY <1>0, <1>2, <2>2, <2>4, <2>5 DEF EventInv
<1> QED BY <1>6, <1>7, <1>8, ChannelKeeps DEF DemoInv

\* Before main's first call nothing has happened.
LEMMA InitDemo == DemoInit => DemoInv
<1> SUFFICES ASSUME DemoInit PROVE DemoInv
  OBVIOUS
<1>1. /\ main \in Goroutine /\ consumer \in Goroutine /\ Sender \subseteq Goroutine
      /\ logger \in Sender /\ jobber \in Sender /\ Publisher \subseteq Sender /\ Lines \in Nat
  BY MainCalls, DemoAssumption DEF Sender
<1>2. /\ \A p \in Goroutine : pc[p] = "idle" /\ at[p] = 0 /\ ret[p] = "ok"
      /\ \A n \in Name : queues[n] = Nil
      /\ queues["log"] = Nil /\ queues["jobs"] = Nil /\ queues["events"] = Nil
  BY DemoAssumption DEF DemoInit, Init
<1>3. \A k \in Nat : k > 0 => ~Past(k)
  BY <1>1, <1>2 DEF Past
<1>4. AtInv
  BY ProgramLengths DEF DemoInit, AtInv
<1>5. RunsInv /\ LaunchInv /\ AnswerInv
  BY <1>1, <1>2 DEF RunsInv, LaunchInv, AnswerInv
<1>6. WaitInv /\ QueuesInv /\ OpenInv
  BY <1>1, <1>2, <1>3 DEF WaitInv, QueuesInv, OpenInv
<1>7. CountInv /\ EventInv
  BY <1>1, <1>2, <1>3 DEF CountInv, EventInv
<1> QED BY <1>4, <1>5, <1>6, <1>7 DEF DemoInv

\* Every step of the program, and every stutter, keeps its invariant.
LEMMA NextDemo == Known /\ [DemoNext]_demoVars => DemoInv'
<1> SUFFICES ASSUME Known, [DemoNext]_demoVars PROVE DemoInv'
  OBVIOUS
<1>1. ASSUME NEW p \in Goroutine, NextCall(p) PROVE DemoInv'
  BY <1>1, CallStep
<1>2. ASSUME NEW p \in Goroutine, Run(p) PROVE DemoInv'
  <2>1. at' = at
    BY <1>2 DEF Run
  <2>2. CASE Step(p)
    <3>1. Receive(p) => p \in {main, consumer}
      BY WhoReceives
    <3> QED BY <2>1, <2>2, <3>1, LockStep, WriteStep, LookUpStep, LineSent, LineReceived,
               EndReported DEF Step
  <2>3. ASSUME NEW r \in Goroutine, Handoff(p, r) PROVE DemoInv'
    <3>1. p = jobber \/ p \in Publisher
      BY <2>3, WhoHandsOver
    <3> QED BY <2>1, <2>3, <3>1, JobHanded, EventHanded
  <2> QED BY <1>2, <2>2, <2>3 DEF Run
<1>3. CASE Save \/ UNCHANGED demoVars
  <2>1. UNCHANGED <<vars, at>>
    BY <1>3 DEF Save, demoVars
  <2>2. UNCHANGED <<queues, heap, accepted, delivered, at, ret, pc, call>>
    BY <2>1 DEF vars
  <2> QED BY <2>2, PlaceStep DEF GoesOn
<1> QED BY <1>1, <1>2, <1>3 DEF DemoNext

\* Where main is says which queues exist, who may be running and what has been sent; no
\* call ever fails (main.go:116-227).
THEOREM ProgramInductive == DemoSpec => []DemoInv
<1>1. Spec => []IInv /\ []DrainInv /\ []PlaceInv
  BY Inductive, BooksKept, Places, PTL
<1>2. IInv /\ DrainInv /\ PlaceInv /\ DemoInv /\ [DemoNext]_demoVars => DemoInv'
  BY NextDemo DEF Known
<1> QED BY <1>1, <1>2, InitDemo, DemoImplementsSimpleQueue, PTL DEF DemoSpec

\* Whatever the schedule no call fails and nothing panics; and once the consumer has
\* returned it has received every event of every publisher once, each publisher's in the
\* order it sent them (main.go:171-209).
THEOREM EveryEventReceived == DemoSpec => []AllEventsReceived
<1>1. Known => AllEventsReceived
  <2> SUFFICES ASSUME Known PROVE AllEventsReceived
    OBVIOUS
  <2> USE DEF Known, DemoInv
  <2>1. \A p \in Goroutine : ~Failed(p)
    BY BatchAssumption DEF AnswerInv, Failed
  <2>2. ~Crashed
    BY <2>1, DemoAssumption, BatchAssumption, MessageAssumption DEF AnswerInv, Failed, Crashed
  <2>3. ASSUME Returned(consumer), queues["events"] # Nil PROVE Interleaves(Received)
    <3> DEFINE q == queues["events"]
    <3>1. at[main] >= Lines + 7
      BY <2>3 DEF AnswerInv, Returned
    <3>2. \A e \in Publisher : EventsSent[e] = Len(Batch[e])
      BY <3>1 DEF WaitInv, EventsSent, Sent
    <3>3. /\ q \in QueueId /\ heap[q] \in QueueValue /\ heap[q].cap = 0
          /\ delivered[q] \in Seq(Message)
      BY <2>3, ThreeChannels DEF Queues, IInv, TypeOK
    <3>4. delivered[q] = accepted[q]
      <4>1. Len(heap[q].buf) <= 0 /\ accepted[q] = delivered[q] \o heap[q].buf
        BY <3>3 DEF DrainInv, BooksInv
      <4>2. heap[q].buf = <<>>
        BY <3>3, <4>1, EmptySeq, LenProperties DEF QueueValue
      <4> QED BY <3>3, <4>1, <4>2, ConcatEmptySeq
    <3>5. Received = accepted[q]
      BY <2>3, <3>4 DEF Received
    <3>6. Merges(accepted[q], EventsSent)
      BY <2>3 DEF EventInv
    <3>7. \A e \in Publisher : 1..EventsSent[e] = 1..Len(Batch[e])
      BY <3>2
    <3>8. Interleaves(accepted[q])
      <4> DEFINE s == accepted[q]
                 n == EventsSent
      <4>1. Merges(s, n) /\ \A e \in Publisher : 1..n[e] = 1..Len(Batch[e])
        BY <3>6, <3>7
      <4> HIDE DEF s, n
      <4>2. ASSUME NEW e \in Publisher, NEW k \in 1..Len(Batch[e])
            PROVE  \E i \in 1..Len(s) : s[i] = Batch[e][k]
        <5>1. k \in 1..n[e]
          BY <4>1
        <5> QED BY ONLY <4>1, <5>1 DEF Merges
      <4>3. ASSUME NEW i \in 1..Len(s)
            PROVE  \E e \in Publisher : \E k \in 1..Len(Batch[e]) : s[i] = Batch[e][k]
        <5>1. PICK e \in Publisher : \E k \in 1..n[e] : s[i] = Batch[e][k]
          BY ONLY <4>1 DEF Merges
        <5> QED BY ONLY <4>1, <5>1
      <4>4. \A i, j \in 1..Len(s) : i < j =>
              /\ s[i] # s[j]
              /\ \A e \in Publisher : \A k, l \in 1..Len(Batch[e]) :
                   s[i] = Batch[e][k] /\ s[j] = Batch[e][l] => k < l
        BY ONLY <4>1 DEF Merges
      <4>5. Interleaves(s)
        BY ONLY <4>2, <4>3, <4>4 DEF Interleaves
      <4> QED BY <4>5 DEF s
    <3> QED BY <3>5, <3>8
  <2> QED BY <2>1, <2>2, <2>3 DEF AllEventsReceived
<1>2. Spec => []IInv /\ []DrainInv /\ []PlaceInv
  BY Inductive, BooksKept, Places, PTL
<1>3. IInv /\ DrainInv /\ PlaceInv /\ DemoInv => AllEventsReceived
  BY <1>1 DEF Known
<1> QED BY <1>2, <1>3, ProgramInductive, DemoImplementsSimpleQueue, PTL

--------------------------------------------------------------------------------
(* The program does not stop before its end, but in CloseQueue. *)

\* What a sender has not begun to send is still to be sent.
UnsentInv ==
    \A e \in Sender : \A k \in 1..Len(Batch[e]) : k > at[e] => Batch[e][k] \in unsent

\* The next step of p in the program can be taken: the guards of NextCall and Run.
MayGoOn(p) ==
    /\ ~exited /\ ~Crashed
    /\ \/ /\ pc[p] = "idle" /\ Started(p) /\ ~Returned(p) /\ Ready(p)
          /\ NextOf(p).op = "Publish" => NextOf(p).msg \in unsent
       \/ MayRun(p)
       \/ \E r \in Goroutine : /\ pc[p] = "send" /\ pc[r] = "recv" /\ ptr[r] = ptr[p]
                               /\ ~heap[ptr[p]].chClosed /\ heap[ptr[p]].cap = 0

\* The guard of Save.
MaySave == ~exited /\ ~Crashed /\ Returned(main)

\* The program comes to a stop only at its exit or where CloseQueue waits for the consumer.
StopsOnlyInClose == exited \/ MaySave \/ Hangs \/ \E p \in Goroutine : MayGoOn(p)

\* A step that begins a call takes the message it carries from those still to be sent.
LEMMA NextUnsent == Known /\ UnsentInv /\ [DemoNext]_demoVars => UnsentInv'
<1> SUFFICES ASSUME Known, UnsentInv, [DemoNext]_demoVars PROVE UnsentInv'
  OBVIOUS
<1> USE DEF Known, DemoInv
<1>1. ASSUME NEW p \in Goroutine, NextCall(p) PROVE UnsentInv'
  <2>1. unsent' = IF NextOf(p).op = "Publish" THEN unsent \ {NextOf(p).msg} ELSE unsent
    BY <1>1, CallsAreCalls DEF Invoke
  <2>2. \A e \in Sender : e \in Goroutine \ {main, consumer} /\ at[e] \in Nat
    BY DemoAssumption DEF AtInv
  <2>3. CASE p \in Sender
    <3>1. at'[p] = at[p] + 1 /\ \A e \in Sender \ {p} : at'[e] = at[e]
      BY <1>1, <2>2, <2>3, CallFrame
    <3>2. at[p] + 1 \in 1..Len(Batch[p])
      <4>1. at'[p] <= Len(Batch[p]) /\ Len(Batch[p]) \in Nat
        BY <1>1, <2>2, <2>3, NextAt, SenderCalls DEF DemoNext, AtInv
      <4> QED BY <2>2, <2>3, <3>1, <4>1
    <3>3. NextOf(p) = publish(Target(p), Batch[p][at[p] + 1])
      BY <2>2, <2>3, <3>2, SenderCalls DEF NextOf
    <3>4. unsent' = unsent \ {Batch[p][at[p] + 1]}
      BY <2>1, <3>3, CallParts
    <3> SUFFICES ASSUME NEW e \in Sender, NEW k \in 1..Len(Batch[e]), k > at'[e]
                 PROVE  Batch[e][k] \in unsent'
      BY DEF UnsentInv
    <3>5. k > at[e] /\ ~(e = p /\ k = at[p] + 1)
      BY <2>2, <3>1
    <3>6. Batch[e][k] # Batch[p][at[p] + 1]
      <4>1. PICK i \in 1..Len(Batch[p]) : i = at[p] + 1
        BY <3>2
      <4>2. Batch[e][k] = Batch[p][i] => e = p /\ k = i
        BY <2>3, BatchAssumption
      <4> QED BY <3>5, <4>1, <4>2
    <3> QED BY <3>4, <3>5, <3>6 DEF UnsentInv
  <2>4. CASE p \notin Sender
    <3>1. \A e \in Sender : at'[e] = at[e]
      BY <1>1, <2>2, <2>4, CallFrame
    <3>2. NextOf(p).op # "Publish"
      <4>1. CASE p = consumer
        BY <4>1, CallParts DEF NextOf
      <4>2. CASE p = main
        <5>1. at[main] + 1 \in 1..(Lines + 8)
          <6>1. at'[main] = at[main] + 1
            BY <1>1, <4>2, CallFrame, DemoAssumption
          <6>2. AtInv'
            BY <1>1, NextAt DEF DemoNext
          <6>3. at'[main] <= Lines + 8
            BY <4>2, <6>2, MainCalls, DemoAssumption DEF AtInv, Program
          <6> QED BY <6>1, <6>3, MainAt
        <5>2. NextOf(p) = MainProgram[at[main] + 1]
          BY <4>2, DemoAssumption DEF NextOf, Program
        <5> QED BY <5>1, <5>2, MainKinds
      <4> QED BY <2>4, <4>1, <4>2, DemoAssumption
    <3> QED BY <2>1, <3>1, <3>2 DEF UnsentInv
  <2> QED BY <2>3, <2>4
<1>2. ASSUME NEW p \in Goroutine, Run(p) PROVE UnsentInv'
  <2>1. unsent' = unsent /\ at' = at
    BY <1>2 DEF Run, Step, RLock, RUnlock, Lock, Drain, Unlock, CreateQueue, CloseQueue,
                DeleteQueue, GetQueue, Publish, Consume, Send, Receive, Handoff
  <2> QED BY <2>1 DEF UnsentInv
<1>3. CASE Save \/ UNCHANGED demoVars
  BY <1>3 DEF Save, demoVars, vars, UnsentInv
<1> QED BY <1>1, <1>2, <1>3 DEF DemoNext

\* A sender that is started goes on, unless it waits for room or for a receiver.
LEMMA SenderGoesOn ==
    ASSUME Known, ParkInv, UnsentInv, ~exited, ~Crashed, writer = Nobody,
           NEW e \in Sender, Started(e), ~Returned(e)
    PROVE  MayGoOn(e) \/ pc[e] = "send"
<1> USE DEF Known, DemoInv
<1>1. /\ e \in Goroutine /\ e # main /\ e # consumer /\ at[e] \in Nat /\ Len(Batch[e]) \in Nat
      /\ at[e] <= Len(Batch[e])
  BY DemoAssumption, SenderCalls DEF AtInv
<1>2. CASE pc[e] = "idle"
  <2>1. at[e] + 1 \in 1..Len(Batch[e])
    BY <1>1, <1>2, SenderCalls DEF Returned
  <2>2. NextOf(e).msg = Batch[e][at[e] + 1]
    BY <1>1, <2>1, SenderCalls, CallParts DEF NextOf
  <2>3. NextOf(e).msg \in unsent
    BY <1>1, <2>1, <2>2 DEF UnsentInv
  <2> QED BY <1>1, <1>2, <2>3 DEF MayGoOn, Ready
<1>3. CASE pc[e] \in {"rlock", "read", "runlock"}
  BY <1>3 DEF MayGoOn, MayRun
<1>4. pc[e] \notin {"lock", "drain", "write", "unlock", "recv", "parked"}
  BY <1>1, OnlyMainWrites, AtChannel DEF ParkInv
<1> QED BY <1>1, <1>2, <1>3, <1>4 DEF IInv, TypeOK, Pc

\* So does the consumer, unless it waits for an event.
LEMMA ConsumerGoesOn ==
    ASSUME Known, ParkInv, ~exited, ~Crashed, writer = Nobody, Started(consumer),
           ~Returned(consumer)
    PROVE  MayGoOn(consumer) \/ pc[consumer] = "recv"
<1>1. consumer \in Goroutine /\ consumer # main /\ consumer \notin Sender
  BY DemoAssumption
<1>2. CASE pc[consumer] = "idle"
  BY <1>1, <1>2, CallParts DEF MayGoOn, Ready, NextOf
<1>3. CASE pc[consumer] \in {"rlock", "read", "runlock"}
  BY <1>3 DEF MayGoOn, MayRun
<1>4. pc[consumer] \notin {"lock", "drain", "write", "unlock", "send", "parked"}
  BY <1>1, OnlyMainWrites, AtChannel DEF ParkInv
<1> QED BY <1>1, <1>2, <1>3, <1>4 DEF Known, IInv, TypeOK, Pc

\* A rendezvous queue has nothing in its buffer.
LEMMA RendezvousEmpty ==
    ASSUME Known, NEW q \in QueueId, heap[q].cap = 0
    PROVE  heap[q].buf = <<>> /\ accepted[q] = delivered[q]
<1>1. heap[q].buf \in Seq(Message) /\ delivered[q] \in Seq(Message)
  BY DEF Known, IInv, TypeOK, QueueValue
<1>2. Len(heap[q].buf) <= 0 /\ accepted[q] = delivered[q] \o heap[q].buf
  BY DEF Known, DrainInv, BooksInv
<1>3. heap[q].buf = <<>>
  BY <1>1, <1>2, EmptySeq, LenProperties
<1> QED BY <1>1, <1>2, <1>3, ConcatEmptySeq

\* A line or a job that main waits for comes: who sends it goes on, or hands it to main.
LEMMA MainReceives ==
    ASSUME Known, ParkInv, UnsentInv, ~exited, ~Crashed, writer = Nobody, pc[main] = "recv"
    PROVE  \E p \in Goroutine : MayGoOn(p)
<1> USE DEF Known, DemoInv
<1> DEFINE q == ptr[main]
           a == at[main]
<1>1. /\ main \in Goroutine /\ Lines \in Nat /\ a \in Nat /\ q \in QueueId /\ q # Nil
      /\ heap[q] \in QueueValue /\ ~heap[q].chClosed /\ delivered[q] \in Seq(Message)
      /\ accepted[q] = delivered[q] \o heap[q].buf /\ MainDone = a - 1
      /\ \/ a \in 3..(Lines + 2) /\ q = queues["log"]
         \/ a = Lines + 4 /\ q = queues["jobs"]
  BY MainAt, AtChannel, NilAssumption DEF MainDone
<1>2. CASE heap[q].buf # <<>>
  BY <1>1, <1>2 DEF MayGoOn, MayRun
<1>3. CASE heap[q].buf = <<>> /\ a \in 3..(Lines + 2) /\ q = queues["log"]
  <2>1. logger \in Sender /\ logger \in Goroutine /\ logger # main /\ at[logger] \in Nat
        /\ logger # jobber
    BY DemoAssumption DEF Sender, AtInv
  <2>2. Sent(logger) < Lines
    <3>1. accepted[q] = delivered[q]
      BY <1>1, <1>3, ConcatEmptySeq
    <3>2. a - 2 \in 1..Lines /\ ~Past(2 + (a - 2))
      BY <1>1, <1>3 DEF Past
    <3>3. ~(Len(delivered[q]) >= a - 2)
      BY <1>1, <1>3, <3>2 DEF CountInv
    <3>4. Len(accepted[q]) = Sent(logger) /\ Len(delivered[q]) \in Nat
      BY <1>1, <1>3, LenProperties DEF CountInv
    <3> QED BY <1>1, <1>3, <3>1, <3>3, <3>4
  <2>3. Started(logger)
    <3>1. MainDone >= 2
      BY <1>1, <1>3
    <3> QED BY <2>1, <3>1 DEF Started
  <2>4. ~Returned(logger)
    <3>1. pc[logger] = "idle" => at[logger] # Len(Program(logger))
      BY <2>1, <2>2, SenderCalls DEF Sent, Lines
    <3>2. ~Failed(logger)
      BY <2>1, BatchAssumption DEF AnswerInv, Failed
    <3> QED BY <2>1, <3>1, <3>2, DemoAssumption DEF Returned
  <2>5. CASE pc[logger] = "send"
    <3>1. ptr[logger] = q
      BY <1>3, <2>1, <2>5, AtChannel DEF Target
    <3>2. heap[q].cap = 100
      BY <1>1, <1>3, ThreeChannels
    <3>3. MayRun(logger)
      BY <1>3, <2>5, <3>1, <3>2 DEF MayRun
    <3> QED BY <2>1, <3>3 DEF MayGoOn
  <2> QED BY <2>1, <2>3, <2>4, <2>5, SenderGoesOn
<1>4. CASE heap[q].buf = <<>> /\ a = Lines + 4 /\ q = queues["jobs"]
  <2>1. jobber \in Sender /\ jobber \in Goroutine /\ jobber # main /\ at[jobber] \in Nat
        /\ jobber # logger
    BY DemoAssumption DEF Sender, AtInv
  <2>2. heap[q].cap = 0
    BY <1>1, <1>4, ThreeChannels
  <2>3. Sent(jobber) # 1
    <3>1. accepted[q] = delivered[q] /\ ~Past(Lines + 4)
      BY <1>1, <1>4, <2>2, RendezvousEmpty DEF Past
    <3> QED BY <1>1, <1>4, <3>1 DEF CountInv
  <2>4. Started(jobber)
    BY <1>1, <1>4, <2>1 DEF Started
  <2>5. ~Returned(jobber)
    <3>1. pc[jobber] = "idle" => at[jobber] # Len(Program(jobber))
      BY <2>1, <2>3, SenderCalls, BatchAssumption DEF Sent
    <3>2. ~Failed(jobber)
      BY <2>1, BatchAssumption DEF AnswerInv, Failed
    <3> QED BY <2>1, <3>1, <3>2, DemoAssumption DEF Returned
  <2>6. CASE pc[jobber] = "send"
    <3>1. ptr[jobber] = q
      BY <1>4, <2>1, <2>6, AtChannel DEF Target
    <3> QED BY <1>1, <2>1, <2>2, <2>6, <3>1 DEF MayGoOn
  <2> QED BY <2>1, <2>4, <2>5, <2>6, SenderGoesOn
<1> QED BY <1>1, <1>2, <1>3, <1>4

\* No call has failed.
LEMMA NoErrors == Known => ~Crashed /\ \A p \in Goroutine : ~Failed(p)
BY DemoAssumption, BatchAssumption, MessageAssumption
   DEF Known, DemoInv, AnswerInv, Failed, Crashed

\* Between its calls main calls next, or the goroutines it waits for go on.
LEMMA MainIdle ==
    ASSUME Known, ParkInv, UnsentInv, ~exited, ~Crashed, writer = Nobody,
           pc[main] = "idle", ~Returned(main)
    PROVE  \E p \in Goroutine : MayGoOn(p)
<1> USE DEF Known, DemoInv
<1> DEFINE a == at[main]
           q == queues["events"]
<1>1. /\ main \in Goroutine /\ main # consumer /\ consumer \in Goroutine /\ Lines \in Nat
      /\ a \in Nat /\ a + 1 \in 1..(Lines + 8) /\ MainDone = a
  <2>1. /\ main \in Goroutine /\ main # consumer /\ consumer \in Goroutine
        /\ Lines \in Nat /\ a \in Nat
    BY MainAt, DemoAssumption
  <2>2. a # Lines + 8 /\ a <= Lines + 8
    BY <2>1, MainCalls DEF Returned, Program, AtInv
  <2> QED BY <2>1, <2>2 DEF MainDone
<1>2. \A e \in Publisher : /\ e \in Sender /\ e \in Goroutine /\ e \notin {main, logger, jobber}
                           /\ Target(e) = "events"
  BY DemoAssumption DEF Sender, Target
<1>3. CASE Ready(main)
  <2>1. NextOf(main) = MainProgram[a + 1]
    BY <1>1 DEF NextOf, Program
  <2>2. NextOf(main).op # "Publish"
    BY <1>1, <2>1, MainKinds
  <2>3. Started(main)
    BY DemoAssumption DEF Started, Sender
  <2> QED BY <1>1, <1>3, <2>2, <2>3 DEF MayGoOn
<1>4. CASE a = Lines + 6 /\ \E e \in Publisher : ~Returned(e)
  <2>1. PICK e \in Publisher : ~Returned(e)
    BY <1>4
  <2>2. Started(e) /\ Started(consumer)
    <3>1. MainDone >= Lines + 6
      BY <1>1, <1>4
    <3>2. consumer \notin {main, logger, jobber}
      BY DemoAssumption DEF Sender
    <3> QED BY <1>2, <3>1, <3>2 DEF Started
  <2>3. CASE MayGoOn(e)
    BY <1>2, <2>3
  <2>4. CASE pc[e] = "send"
    <3>1. ~Returned(consumer)
      BY <1>1, <1>4 DEF Returned, AnswerInv
    <3>2. CASE MayGoOn(consumer)
      BY <1>1, <3>2
    <3>3. CASE pc[consumer] = "recv"
      <4>1. ptr[e] = q /\ ptr[consumer] = q /\ q \in QueueId /\ ~heap[q].chClosed
        BY <1>1, <1>2, <2>4, <3>3, AtChannel
      <4>2. heap[q].cap = 0
        BY <4>1, ThreeChannels, NilAssumption
      <4> QED BY <1>1, <1>2, <2>4, <3>3, <4>1, <4>2 DEF MayGoOn
    <3> QED BY <2>2, <3>1, <3>2, <3>3, ConsumerGoesOn
  <2> QED BY <1>2, <2>1, <2>2, <2>3, <2>4, SenderGoesOn
<1>5. CASE a = Lines + 7 /\ ~Returned(consumer)
  <2>1. Started(consumer)
    <3>1. MainDone >= Lines + 6
      BY <1>1, <1>5
    <3>2. consumer \notin {main, logger, jobber}
      BY DemoAssumption DEF Sender
    <3> QED BY <3>1, <3>2 DEF Started
  <2>2. CASE MayGoOn(consumer)
    BY <1>1, <2>2
  <2>3. CASE pc[consumer] = "recv"
    <3>1. ptr[consumer] = q /\ q # Nil
      BY <1>1, <2>3, AtChannel, NilAssumption
    <3>2. Past(Lines + 7)
      BY <1>1, <1>5 DEF Past
    <3>3. heap[q].chClosed
      BY <3>1, <3>2, ThreeChannels
    <3> QED BY <1>1, <2>3, <3>1, <3>3 DEF MayGoOn, MayRun
  <2> QED BY <1>5, <2>1, <2>2, <2>3, ConsumerGoesOn
<1> QED BY <1>3, <1>4, <1>5 DEF Ready

\* Where main waits for the readers to leave, one of them goes on, or main closes events.
LEMMA MainDrains ==
    ASSUME Known, ParkInv, ~exited, ~Crashed, pc[main] = "drain", ~Hangs
    PROVE  \E p \in Goroutine : MayGoOn(p)
<1> USE DEF Known, DemoInv
<1> DEFINE a == at[main]
<1>1. /\ main \in Goroutine /\ Lines \in Nat /\ a \in Nat
      /\ a \in 1..(Lines + 8) /\ call[main] = MainProgram[a]
      /\ \A k \in Nat : Past(k) <=> a > k
  BY MainAt, Roles DEF Past
<1>2. a \in {1, 2, Lines + 3, Lines + 5, Lines + 6, Lines + 7, Lines + 8}
  <2>1. call[main].op \in WriteOp
    BY <1>1 DEF PlaceInv
  <2> QED BY <1>1, <2>1, MainKinds DEF WriteOp
<1>3. CASE readers = {}
  BY <1>1, <1>3 DEF MayGoOn, MayRun
<1>4. CASE readers # {}
  <2>1. PICK r \in Goroutine : pc[r] \in {"read", "send", "recv", "runlock"}
    BY <1>4 DEF IInv, TypeOK, LockInv, InReadSection
  <2>2. CASE pc[r] \in {"read", "runlock"}
    BY <2>2 DEF MayGoOn, MayRun
  <2>3. pc[r] # "send"
    <3> SUFFICES ASSUME pc[r] = "send" PROVE FALSE
      OBVIOUS
    <3>1. /\ r \in Sender /\ at[r] \in 1..Len(Batch[r]) /\ Len(Batch[r]) \in Nat
          /\ Sent(r) = at[r] - 1
      BY AtChannel, SenderCalls DEF Sent
    <3>2. Past(Launch(r))
      BY <3>1 DEF LaunchInv
    <3>3. CASE r = logger
      <4>1. Past(2) /\ ~Past(Lines + 2)
        BY <3>1, <3>2, <3>3 DEF Launch, CountInv, Lines
      <4> QED BY <1>1, <1>2, <4>1
    <3>4. CASE r = jobber
      <4>1. Launch(r) = Lines + 3
        BY <3>4, DemoAssumption DEF Launch
      <4>2. Sent(jobber) # 1
        <5>1. Len(Batch[jobber]) = 1
          BY BatchAssumption
        <5> QED BY <3>1, <3>4, <5>1
      <4>3. Past(Lines + 3) /\ ~Past(Lines + 4)
        BY <3>2, <4>1, <4>2 DEF CountInv
      <4> QED BY <1>1, <1>2, <4>3
    <3>5. CASE r \in Publisher
      <4>1. Launch(r) = Lines + 6
        BY <3>5, DemoAssumption DEF Launch
      <4>2. Past(Lines + 6) /\ ~(a >= Lines + 7)
        BY <3>2, <3>5, <4>1 DEF WaitInv
      <4> QED BY <1>1, <4>2
    <3> QED BY <3>1, <3>3, <3>4, <3>5 DEF Sender
  <2>4. pc[r] # "recv"
    <3> SUFFICES ASSUME pc[r] = "recv" PROVE FALSE
      OBVIOUS
    <3>1. r = consumer
      BY AtChannel
    <3>2. Past(Lines + 6) /\ ~(a >= Lines + 8)
      BY <3>1, DemoAssumption DEF LaunchInv, WaitInv, Launch, Sender
    <3>3. a = Lines + 7
      BY <1>1, <3>2
    <3>4. call[main] = on("CloseQueue", "events")
      BY <1>1, <3>3, MainCalls
    <3> QED BY <3>1, <3>4 DEF Hangs
  <2> QED BY <2>1, <2>2, <2>3, <2>4
<1> QED BY <1>3, <1>4

\* The program never comes to a stop but at its end, or where CloseQueue("events") waits for
\* the lock that the consumer holds: whatever any other goroutine waits for can happen
\* (main.go:116-227).  It is the safety half of ExitsOrHangsInClose.
THEOREM NoOtherDeadlock == DemoSpec => []StopsOnlyInClose
<1>1. Known /\ ParkInv /\ UnsentInv => StopsOnlyInClose
  <2> SUFFICES ASSUME Known, ParkInv, UnsentInv, ~exited, ~Returned(main), ~Hangs
               PROVE  \E p \in Goroutine : MayGoOn(p)
    BY NoErrors DEF StopsOnlyInClose, MaySave
  <2>1. main \in Goroutine /\ ~Crashed
    BY MainAt, NoErrors
  <2>2. pc[main] \notin {"drain", "write", "unlock"} => writer = Nobody
    <3>1. writer # Nobody => writer \in Goroutine /\ pc[writer] \in {"drain", "write", "unlock"}
      BY DEF Known, IInv, TypeOK, LockInv, InWriteSection
    <3> QED BY <3>1, OnlyMainWrites
  <2>3. CASE pc[main] = "idle"
    BY <2>1, <2>2, <2>3, MainIdle
  <2>4. CASE pc[main] \in {"rlock", "read", "runlock", "unlock"} \/ pc[main] = "lock"
    BY <2>1, <2>2, <2>4 DEF MayGoOn, MayRun
  <2>5. CASE pc[main] = "drain"
    BY <2>1, <2>5, MainDrains
  <2>6. CASE pc[main] = "write"
    BY <2>1, <2>6, WriterRuns DEF MayGoOn, Known
  <2>7. CASE pc[main] = "recv"
    BY <2>1, <2>2, <2>7, MainReceives
  <2>8. pc[main] \notin {"send", "parked"}
    BY <2>1, <2>2, AtChannel, DemoAssumption DEF ParkInv
  <2> QED BY <2>1, <2>3, <2>4, <2>5, <2>6, <2>7, <2>8 DEF Known, IInv, TypeOK, Pc
<1>2. DemoInit => UnsentInv
  <2> SUFFICES ASSUME DemoInit, NEW e \in Sender, NEW k \in 1..Len(Batch[e])
               PROVE  Batch[e][k] \in unsent
    BY DEF UnsentInv
  <2> QED BY SenderCalls DEF DemoInit, Init
<1>3. Spec => []IInv /\ []DrainInv /\ []PlaceInv /\ []ParkInv
  BY Inductive, BooksKept, Places, Parks, PTL
<1>4. IInv /\ DrainInv /\ PlaceInv /\ DemoInv /\ UnsentInv /\ [DemoNext]_demoVars => UnsentInv'
  BY NextUnsent DEF Known
<1>5. IInv /\ DrainInv /\ PlaceInv /\ DemoInv /\ ParkInv /\ UnsentInv => StopsOnlyInClose
  BY <1>1 DEF Known
<1> QED BY <1>2, <1>3, <1>4, <1>5, ProgramInductive, DemoImplementsSimpleQueue, PTL DEF DemoSpec

\* A step inside a call moves its goroutine, a partner at the channel, and parked readers.
LEMMA StepMoves ==
    ASSUME TypeOK, NEW p \in Goroutine, Step(p), NEW x \in Goroutine \ {p}, pc[x] # "parked"
    PROVE  pc'[x] = pc[x] /\ call'[x] = call[x]
<1>1. CASE RLock(p) \/ RUnlock(p) \/ Lock(p) \/ Drain(p) \/ Unlock(p)
  BY <1>1 DEF RLock, RUnlock, Lock, Drain, Unlock, TypeOK
<1>2. CASE CreateQueue(p) \/ CloseQueue(p) \/ DeleteQueue(p)
  <2>1. pc' = [pc EXCEPT ![p] = "unlock"] /\ call' = call
    BY <1>2 DEF CreateQueue, CloseQueue, DeleteQueue
  <2> QED BY <2>1 DEF TypeOK
<1>3. CASE GetQueue(p) \/ Publish(p) \/ Consume(p)
  BY <1>3 DEF GetQueue, Publish, Consume, Fail, Block, TypeOK
<1>4. CASE Send(p) \/ Receive(p)
  <2>1. pc' = [pc EXCEPT ![p] = "runlock"] /\ call' = call
    BY <1>4 DEF Send, Receive
  <2> QED BY <2>1 DEF TypeOK
<1> QED BY <1>1, <1>2, <1>3, <1>4 DEF Step

\* main and the consumer wait for each other: neither has a step of its own, and no
\* publisher is left to hand the consumer an event.
LEMMA NextHang == Known /\ Hangs /\ [DemoNext]_demoVars => Hangs'
<1> SUFFICES ASSUME Known, Hangs, [DemoNext]_demoVars PROVE Hangs'
  OBVIOUS
<1> DEFINE q == queues["events"]
<1>1. /\ main \in Goroutine /\ consumer \in Goroutine /\ main # consumer
      /\ consumer \notin Sender /\ main \notin Sender
  BY DemoAssumption
<1>2. /\ pc[main] = "drain" /\ call[main] = on("CloseQueue", "events")
      /\ pc[consumer] = "recv"
  BY DEF Hangs
<1>3. at[main] = Lines + 7
  <2>1. at[main] \in 1..(Lines + 8) /\ call[main] = MainProgram[at[main]]
    BY <1>1, <1>2, Roles
  <2> QED BY <1>2, <2>1, MainKinds, CallParts
<1>4. /\ ptr[consumer] = q /\ q \in QueueId /\ q # Nil /\ heap[q].buf = <<>>
      /\ ~heap[q].chClosed
  <2>1. ptr[consumer] = q /\ q \in QueueId /\ q # Nil
    <3>1. ptr[consumer] = q /\ ptr[consumer] \in QueueId
      BY <1>1, <1>2, AtChannel
    <3> QED BY <3>1, NilAssumption
  <2>2. heap[q].cap = 0 /\ (heap[q].chClosed <=> Past(Lines + 7))
    BY <2>1, ThreeChannels
  <2>3. ~Past(Lines + 7)
    BY <1>2, <1>3, MainAt DEF Past
  <2> QED BY <2>1, <2>2, <2>3, RendezvousEmpty
<1>5. SUFFICES ASSUME NEW p \in Goroutine, NextCall(p) \/ Run(p)
               PROVE  \A x \in {main, consumer} : pc'[x] = pc[x] /\ call'[x] = call[x]
  BY <1>1, <1>2 DEF DemoNext, Save, demoVars, vars, Hangs
<1>6. CASE NextCall(p)
  BY <1>1, <1>2, <1>6, CallFrame
<1>7. CASE Step(p)
  <2>1. TypeOK /\ consumer \in readers
    BY <1>1, <1>2 DEF Known, IInv, LockInv, InReadSection
  <2>2. p # main
    BY <1>2, <1>7, <2>1
       DEF Step, RLock, RUnlock, Lock, Drain, Unlock, CreateQueue, CloseQueue, DeleteQueue,
           GetQueue, Publish, Consume, Send, Receive
  <2>3. p # consumer
    BY <1>2, <1>4, <1>7
       DEF Step, RLock, RUnlock, Lock, Drain, Unlock, CreateQueue, CloseQueue, DeleteQueue,
           GetQueue, Publish, Consume, Send, Receive
  <2> QED BY <1>1, <1>2, <1>7, <2>1, <2>2, <2>3, StepMoves
<1>8. ASSUME NEW r \in Goroutine, Handoff(p, r) PROVE FALSE
  <2>1. pc[p] = "send" /\ pc[r] = "recv" /\ ptr[r] = ptr[p]
    BY <1>8 DEF Handoff
  <2>2. r = consumer /\ p \in Sender
    BY <1>2, <2>1, AtChannel
  <2>3. queues[Target(p)] = q
    BY <1>4, <2>1, <2>2, AtChannel
  <2>4. Target(p) = "events"
    BY <1>4, <2>3, ThreeChannels DEF Target, Queues
  <2>5. p \in Publisher
    BY <2>2, <2>4 DEF Target, Sender
  <2>6. pc[p] = "idle"
    BY <1>3, <2>5, MainAt DEF Known, DemoInv, WaitInv
  <2> QED BY <2>1, <2>6
<1> QED BY <1>5, <1>6, <1>7, <1>8 DEF Run

\* The hang is for good: once CloseQueue("events") waits for the consumer, and the consumer
\* for an event, no step of any goroutine frees them (main.go:203, 90).
THEOREM HangIsForGood == DemoSpec => [][Hangs => Hangs']_demoVars
<1>1. Spec => []IInv /\ []DrainInv /\ []PlaceInv
  BY Inductive, BooksKept, Places, PTL
<1>2. IInv /\ DrainInv /\ PlaceInv /\ DemoInv /\ [DemoNext]_demoVars
        => [Hangs => Hangs']_demoVars
  BY NextHang DEF Known
<1> QED BY <1>1, <1>2, ProgramInductive, DemoImplementsSimpleQueue, PTL DEF DemoSpec
================================================================================
