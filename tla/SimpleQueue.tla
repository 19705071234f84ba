------------------------------ MODULE SimpleQueue ------------------------------
(***************************************************************************)
(* The Orchestrator of simplequeue/cmd/sq/main.go: named queues, each a Go *)
(* channel, kept in a map that one sync.RWMutex guards.                    *)
(*                                                                         *)
(* Every goroutine runs one call at a time.  CreateQueue, CloseQueue and   *)
(* DeleteQueue hold the lock exclusively; GetQueue, Publish and Consume    *)
(* hold it shared, and Publish and Consume keep holding it while they are  *)
(* blocked on the channel (the unlock is deferred).  The lock follows      *)
(* sync.RWMutex: a writer that has announced itself stops later readers,   *)
(* and when it unlocks the readers parked meanwhile are all admitted.      *)
(***************************************************************************)
EXTENDS Naturals, Sequences, FiniteSets

CONSTANTS
    Goroutine,  \* the goroutines that call the orchestrator
    Name,       \* queue names
    QueueId,    \* addresses of Queue values; the collector reuses unreachable ones
    Message,    \* message texts, each published at most once (the bound on traffic)
    Buffer,     \* the channel capacities passed to CreateQueue
    Nobody,     \* no goroutine
    Nil         \* no queue

ASSUME BufferAssumption == Buffer \subseteq Nat
ASSUME NilAssumption == Nil \notin QueueId
ASSUME NobodyAssumption == Nobody \notin Goroutine
ASSUME MessageAssumption == "ErrQueueClosed" \notin Message

\* There is memory for a queue under each name.
ASSUME AddressAssumption ==
    \A f \in [Name -> QueueId \cup {Nil}], n \in Name :
        f[n] = Nil => \E q \in QueueId : \A m \in Name : f[m] # q

VARIABLES
    queues,     \* Orchestrator.queues: the address registered under each name
    heap,       \* the Queue value at each address: its channel and its closed field
    writer,     \* the goroutine that holds the lock's writer mutex, or Nobody
    readers,    \* the goroutines admitted as readers
    pc,         \* where each goroutine is
    call,       \* the call each goroutine runs
    ptr,        \* the local mq of Publish and Consume
    ret,        \* what the last call returned
    unsent,     \* messages no Publish call has carried yet
    accepted,   \* history: messages each channel took from senders, in order
    delivered,  \* history: messages each channel gave to receivers, in order
    panicked    \* a send on, or a close of, a closed channel happened

vars == <<queues, heap, writer, readers, pc, call, ptr, ret, unsent, accepted,
          delivered, panicked>>

--------------------------------------------------------------------------------

ReadOp == {"GetQueue", "Publish", "Consume"}
WriteOp == {"CreateQueue", "CloseQueue", "DeleteQueue"}

Call == [op : {"CreateQueue"}, name : Name, buffer : Buffer]
          \cup [op : {"Publish"}, name : Name, msg : Message]
          \cup [op : {"GetQueue", "Consume", "CloseQueue", "DeleteQueue"}, name : Name]

QueueValue == [cap : Nat, buf : Seq(Message), chClosed : BOOLEAN, closed : BOOLEAN]

NewQueue(buffer) == [cap |-> buffer, buf |-> <<>>, chClosed |-> FALSE, closed |-> FALSE]

Result == {"ok", "queue not found", "queue already closed", "ErrQueueClosed"} \cup Message

\* Between calls a goroutine calls nothing.
NoCall == [op |-> "none"]

\* The mq a goroutine's call finds in the map.
Registered(p) == queues[call[p].name]

\* Addresses nothing refers to.
Unreachable == {q \in QueueId : /\ \A n \in Name : queues[n] # q
                                /\ \A p \in Goroutine : ptr[p] # q}

Init ==
    /\ queues = [n \in Name |-> Nil]
    /\ heap = [q \in QueueId |-> NewQueue(0)]
    /\ writer = Nobody
    /\ readers = {}
    /\ pc = [p \in Goroutine |-> "idle"]
    /\ call = [p \in Goroutine |-> NoCall]
    /\ ptr = [p \in Goroutine |-> Nil]
    /\ ret = [p \in Goroutine |-> "ok"]
    /\ unsent = Message
    /\ accepted = [q \in QueueId |-> <<>>]
    /\ delivered = [q \in QueueId |-> <<>>]
    /\ panicked = FALSE

--------------------------------------------------------------------------------
(* The lock. *)

\* A goroutine calls a method of the orchestrator.
Invoke(p, c) ==
    /\ pc[p] = "idle"
    /\ c.op = "Publish" => c.msg \in unsent
    /\ unsent' = IF c.op = "Publish" THEN unsent \ {c.msg} ELSE unsent
    /\ call' = [call EXCEPT ![p] = c]
    /\ ret' = [ret EXCEPT ![p] = "ok"]
    /\ pc' = [pc EXCEPT ![p] = IF c.op \in ReadOp THEN "rlock" ELSE "lock"]
    /\ UNCHANGED <<queues, heap, writer, readers, ptr, accepted, delivered, panicked>>

\* mu.RLock: admitted at once unless a writer has announced itself.
RLock(p) ==
    /\ pc[p] = "rlock"
    /\ IF writer = Nobody
         THEN readers' = readers \cup {p} /\ pc' = [pc EXCEPT ![p] = "read"]
         ELSE readers' = readers /\ pc' = [pc EXCEPT ![p] = "parked"]
    /\ UNCHANGED <<queues, heap, writer, call, ptr, ret, unsent, accepted, delivered,
                   panicked>>

RUnlock(p) ==
    /\ pc[p] = "runlock"
    /\ readers' = readers \ {p}
    /\ ptr' = [ptr EXCEPT ![p] = Nil]
    /\ call' = [call EXCEPT ![p] = NoCall]
    /\ pc' = [pc EXCEPT ![p] = "idle"]
    /\ UNCHANGED <<queues, heap, writer, ret, unsent, accepted, delivered, panicked>>

\* mu.Lock, first half: win the writer mutex, which announces the writer.
Lock(p) ==
    /\ pc[p] = "lock"
    /\ writer = Nobody
    /\ writer' = p
    /\ pc' = [pc EXCEPT ![p] = "drain"]
    /\ UNCHANGED <<queues, heap, readers, call, ptr, ret, unsent, accepted, delivered,
                   panicked>>

\* mu.Lock, second half, were the writer not to wait for the admitted readers.
DrainWithoutWaiting(p) ==
    /\ pc[p] = "drain"
    /\ pc' = [pc EXCEPT ![p] = "write"]
    /\ UNCHANGED <<queues, heap, writer, readers, call, ptr, ret, unsent, accepted,
                   delivered, panicked>>

\* mu.Lock, second half: wait until every admitted reader has left.
Drain(p) ==
    /\ pc[p] = "drain"
    /\ readers = {}
    /\ pc' = [pc EXCEPT ![p] = "write"]
    /\ UNCHANGED <<queues, heap, writer, readers, call, ptr, ret, unsent, accepted,
                   delivered, panicked>>

\* mu.Unlock, were it to forget the readers that parked behind the writer.
UnlockForgetsReaders(p) ==
    /\ pc[p] = "unlock"
    /\ writer' = Nobody
    /\ call' = [call EXCEPT ![p] = NoCall]
    /\ pc' = [pc EXCEPT ![p] = "idle"]
    /\ UNCHANGED <<queues, heap, readers, ptr, ret, unsent, accepted, delivered,
                   panicked>>

\* mu.Unlock: the readers parked behind the writer are admitted before any other writer.
Unlock(p) ==
    LET parked == {r \in Goroutine : pc[r] = "parked"} IN
    /\ pc[p] = "unlock"
    /\ writer' = Nobody
    /\ readers' = readers \cup parked
    /\ pc' = [r \in Goroutine |-> IF r = p THEN "idle"
                                  ELSE IF r \in parked THEN "read" ELSE pc[r]]
    /\ call' = [call EXCEPT ![p] = NoCall]
    /\ UNCHANGED <<queues, heap, ptr, ret, unsent, accepted, delivered, panicked>>

--------------------------------------------------------------------------------
(* The bodies that run under the exclusive lock. *)

CreateQueue(p) ==
    /\ pc[p] = "write" /\ call[p].op = "CreateQueue"
    /\ IF Registered(p) # Nil
         THEN UNCHANGED <<queues, heap, accepted, delivered>>
         ELSE \E q \in Unreachable :
                /\ queues' = [queues EXCEPT ![call[p].name] = q]
                /\ heap' = [heap EXCEPT ![q] = NewQueue(call[p].buffer)]
                /\ accepted' = [accepted EXCEPT ![q] = <<>>]
                /\ delivered' = [delivered EXCEPT ![q] = <<>>]
    /\ pc' = [pc EXCEPT ![p] = "unlock"]
    /\ UNCHANGED <<writer, readers, call, ptr, ret, unsent, panicked>>

\* close(mq.ch) and mq.closed = true: closing a closed channel panics.
CloseChannel(q) ==
    /\ heap' = [heap EXCEPT ![q].chClosed = TRUE, ![q].closed = TRUE]
    /\ panicked' = (panicked \/ heap[q].chClosed)

CloseQueue(p) ==
    LET q == Registered(p) IN
    /\ pc[p] = "write" /\ call[p].op = "CloseQueue"
    /\ IF q = Nil
         THEN ret' = [ret EXCEPT ![p] = "queue not found"] /\ UNCHANGED <<heap, panicked>>
         ELSE IF heap[q].closed
         THEN ret' = [ret EXCEPT ![p] = "queue already closed"] /\ UNCHANGED <<heap, panicked>>
         ELSE ret' = ret /\ CloseChannel(q)
    /\ pc' = [pc EXCEPT ![p] = "unlock"]
    /\ UNCHANGED <<queues, writer, readers, call, ptr, unsent, accepted, delivered>>

\* DeleteQueue without the test of mq.closed that CloseQueue's earlier close makes needed.
DeleteQueueClosesTwice(p) ==
    LET q == Registered(p) IN
    /\ pc[p] = "write" /\ call[p].op = "DeleteQueue"
    /\ q # Nil /\ CloseChannel(q)
    /\ queues' = [queues EXCEPT ![call[p].name] = Nil]
    /\ pc' = [pc EXCEPT ![p] = "unlock"]
    /\ UNCHANGED <<writer, readers, call, ptr, ret, unsent, accepted, delivered>>

DeleteQueue(p) ==
    LET q == Registered(p) IN
    /\ pc[p] = "write" /\ call[p].op = "DeleteQueue"
    /\ IF q = Nil
         THEN /\ ret' = [ret EXCEPT ![p] = "queue not found"]
              /\ UNCHANGED <<queues, heap, panicked>>
         ELSE /\ ret' = ret
              /\ queues' = [queues EXCEPT ![call[p].name] = Nil]
              /\ IF heap[q].closed THEN UNCHANGED <<heap, panicked>> ELSE CloseChannel(q)
    /\ pc' = [pc EXCEPT ![p] = "unlock"]
    /\ UNCHANGED <<writer, readers, call, ptr, unsent, accepted, delivered>>

--------------------------------------------------------------------------------
(* The bodies that run under the shared lock. *)

GetQueue(p) ==
    /\ pc[p] = "read" /\ call[p].op = "GetQueue"
    /\ ret' = [ret EXCEPT ![p] = IF Registered(p) = Nil THEN "queue not found" ELSE "ok"]
    /\ pc' = [pc EXCEPT ![p] = "runlock"]
    /\ UNCHANGED <<queues, heap, writer, readers, call, ptr, unsent, accepted, delivered,
                   panicked>>

\* Look the queue up; then, with the lock still held, go to the channel operation.
Fail(p, why) ==
    /\ ret' = [ret EXCEPT ![p] = why]
    /\ pc' = [pc EXCEPT ![p] = "runlock"]
    /\ ptr' = ptr

Block(p, where) ==
    /\ ret' = ret
    /\ pc' = [pc EXCEPT ![p] = where]
    /\ ptr' = [ptr EXCEPT ![p] = Registered(p)]

\* Publish with the lock released between the look-up and the send.
PublishReleasesEarly(p) ==
    /\ pc[p] = "read" /\ call[p].op = "Publish"
    /\ IF Registered(p) = Nil THEN Fail(p, "queue not found") /\ readers' = readers
       ELSE IF heap[Registered(p)].closed
       THEN Fail(p, "queue already closed") /\ readers' = readers
       ELSE Block(p, "send") /\ readers' = readers \ {p}
    /\ UNCHANGED <<queues, heap, writer, call, unsent, accepted, delivered, panicked>>

Publish(p) ==
    /\ pc[p] = "read" /\ call[p].op = "Publish"
    /\ IF Registered(p) = Nil THEN Fail(p, "queue not found")
       ELSE IF heap[Registered(p)].closed THEN Fail(p, "queue already closed")
       ELSE Block(p, "send")
    /\ UNCHANGED <<queues, heap, writer, readers, call, unsent, accepted, delivered,
                   panicked>>

\* Consume does not look at mq.closed: what is buffered in a closed queue can be drained.
Consume(p) ==
    /\ pc[p] = "read" /\ call[p].op = "Consume"
    /\ IF Registered(p) = Nil THEN Fail(p, "queue not found") ELSE Block(p, "recv")
    /\ UNCHANGED <<queues, heap, writer, readers, call, unsent, accepted, delivered,
                   panicked>>

--------------------------------------------------------------------------------
(* Channel operations: mq.ch <- msg and <-mq.ch. *)

\* There is room in the buffer, or the channel is closed and the send panics.
Send(p) ==
    LET q == ptr[p] IN
    /\ pc[p] = "send"
    /\ heap[q].chClosed \/ Len(heap[q].buf) < heap[q].cap
    /\ IF heap[q].chClosed
         THEN panicked' = TRUE /\ UNCHANGED <<heap, accepted>>
         ELSE /\ heap' = [heap EXCEPT ![q].buf = Append(@, call[p].msg)]
              /\ accepted' = [accepted EXCEPT ![q] = Append(@, call[p].msg)]
              /\ panicked' = panicked
    /\ pc' = [pc EXCEPT ![p] = "runlock"]
    /\ UNCHANGED <<queues, writer, readers, call, ptr, ret, unsent, delivered>>

\* An unbuffered channel hands the message of a blocked sender to a blocked receiver.
Handoff(p, r) ==
    LET q == ptr[p] IN
    /\ pc[p] = "send" /\ pc[r] = "recv" /\ ptr[r] = q
    /\ ~heap[q].chClosed /\ heap[q].cap = 0
    /\ accepted' = [accepted EXCEPT ![q] = Append(@, call[p].msg)]
    /\ delivered' = [delivered EXCEPT ![q] = Append(@, call[p].msg)]
    /\ ret' = [ret EXCEPT ![r] = call[p].msg]
    /\ pc' = [pc EXCEPT ![p] = "runlock", ![r] = "runlock"]
    /\ UNCHANGED <<queues, heap, writer, readers, call, ptr, unsent, panicked>>

\* A receive that hands out the zero value of a closed channel as if it were a message.
ReceiveZeroValue(p) ==
    LET q == ptr[p] IN
    /\ pc[p] = "recv"
    /\ heap[q].chClosed /\ heap[q].buf = <<>>
    /\ ret' = [ret EXCEPT ![p] = ""]
    /\ pc' = [pc EXCEPT ![p] = "runlock"]
    /\ UNCHANGED <<queues, heap, writer, readers, call, ptr, unsent, accepted, delivered,
                   panicked>>

\* A receive that reports a closed channel before its buffer is empty.
ReceiveIgnoresBuffer(p) ==
    LET q == ptr[p] IN
    /\ pc[p] = "recv"
    /\ IF heap[q].chClosed
         THEN ret' = [ret EXCEPT ![p] = "ErrQueueClosed"] /\ UNCHANGED <<heap, delivered>>
         ELSE /\ heap[q].buf # <<>>
              /\ ret' = [ret EXCEPT ![p] = Head(heap[q].buf)]
              /\ heap' = [heap EXCEPT ![q].buf = Tail(@)]
              /\ delivered' = [delivered EXCEPT ![q] = Append(@, Head(heap[q].buf))]
    /\ pc' = [pc EXCEPT ![p] = "runlock"]
    /\ UNCHANGED <<queues, writer, readers, call, ptr, unsent, accepted, panicked>>

\* Take the oldest buffered message; with none left a closed channel reports the end.
Receive(p) ==
    LET q == ptr[p] IN
    /\ pc[p] = "recv"
    /\ heap[q].buf # <<>> \/ heap[q].chClosed
    /\ IF heap[q].buf # <<>>
         THEN /\ ret' = [ret EXCEPT ![p] = Head(heap[q].buf)]
              /\ heap' = [heap EXCEPT ![q].buf = Tail(@)]
              /\ delivered' = [delivered EXCEPT ![q] = Append(@, Head(heap[q].buf))]
         ELSE ret' = [ret EXCEPT ![p] = "ErrQueueClosed"] /\ UNCHANGED <<heap, delivered>>
    /\ pc' = [pc EXCEPT ![p] = "runlock"]
    /\ UNCHANGED <<queues, writer, readers, call, ptr, unsent, accepted, panicked>>

--------------------------------------------------------------------------------

\* What the goroutine does inside a call, without a partner.
Step(p) ==
    \/ RLock(p) \/ RUnlock(p) \/ Lock(p) \/ Drain(p) \/ Unlock(p)
    \/ CreateQueue(p) \/ CloseQueue(p) \/ DeleteQueue(p)
    \/ GetQueue(p) \/ Publish(p) \/ Consume(p)
    \/ Send(p) \/ Receive(p)

Internal ==
    \/ \E p \in Goroutine : Step(p)
    \/ \E p, r \in Goroutine : Handoff(p, r)

Next ==
    \/ \E p \in Goroutine, c \in Call : Invoke(p, c)
    \/ Internal

Spec == Init /\ [][Next]_vars

\* The scheduler runs every goroutine that can run.  sync.Mutex hands the writer mutex
\* to a waiter that has starved for a millisecond, hence strong fairness of Lock.
Fairness ==
    \A p \in Goroutine :
        /\ WF_vars(Step(p) \/ \E r \in Goroutine : Handoff(p, r))
        /\ SF_vars(Lock(p))

FairSpec == Spec /\ Fairness

--------------------------------------------------------------------------------
(* Properties. *)

Pc == {"idle", "rlock", "parked", "read", "send", "recv", "runlock", "lock", "drain",
       "write", "unlock"}

\* Type correctness of the orchestrator, its lock and its callers (main.go:11-21).
TypeOK ==
    /\ queues \in [Name -> QueueId \cup {Nil}]
    /\ heap \in [QueueId -> QueueValue]
    /\ writer \in Goroutine \cup {Nobody}
    /\ readers \subseteq Goroutine
    /\ pc \in [Goroutine -> Pc]
    /\ call \in [Goroutine -> Call \cup {NoCall}]
    /\ ptr \in [Goroutine -> QueueId \cup {Nil}]
    /\ ret \in [Goroutine -> Result]
    /\ unsent \subseteq Message
    /\ accepted \in [QueueId -> Seq(Message)]
    /\ delivered \in [QueueId -> Seq(Message)]
    /\ panicked \in BOOLEAN

\* No interleaving makes Publish send on a closed channel, or CloseQueue and DeleteQueue
\* close one twice: Publish's test of mq.closed (line 73) still holds when it sends
\* (line 77), because the shared lock is held in between.
NoPanic == ~panicked

\* A goroutine blocked on a channel is blocked on the queue that its name still
\* denotes: no DeleteQueue, and no re-creation under the same name, strands it.
BlockedOnRegistered ==
    \A p \in Goroutine :
        pc[p] \in {"send", "recv"} => ptr[p] # Nil /\ ptr[p] = Registered(p)

\* After a Consume has returned ErrQueueClosed for a name (line 92) every message that
\* Publish accepted for that queue has been delivered: CloseQueue loses nothing.
ClosedMeansDrained ==
    \A p \in Goroutine :
        pc[p] = "runlock" /\ ret[p] = "ErrQueueClosed"
            => delivered[ptr[p]] = accepted[ptr[p]]

\* While some goroutine is blocked in Publish or Consume nothing can create, close or
\* delete a queue, under any name: the shared lock is held across the channel operation.
FrozenWhileBlocked ==
    [][(\E p \in Goroutine : pc[p] \in {"send", "recv"})
         => /\ queues' = queues
            /\ \A q \in QueueId : heap'[q].chClosed = heap[q].chClosed]_vars

\* The only thing that can keep a goroutine waiting for the lock forever is a goroutine
\* blocked on a channel: without one, every Lock and every RLock returns.
WaitsOnlyForBlocked ==
    \A p \in Goroutine :
        <>[](pc[p] \in {"rlock", "parked", "lock", "drain"})
            => <>[](\E r \in Goroutine : pc[r] \in {"send", "recv"})
================================================================================
