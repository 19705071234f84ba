# A TLA+ project for gocrazy

gocrazy is one repository with several small Go programs that share no code. Seven of them
have logic that is hard to test: a lock held across a channel operation, a store whose
entries die at any moment, a non-blocking event loop, two work queues with redeliveries, a
terminal program whose requests finish in any order, a gateway under concurrent traffic with
books kept by several goroutines, and a loop over a slice that it changes. Each is modelled
here from its source; the models are independent of each other, as the programs are.

Contents: [inventory](#inventory), [modules](#modules-and-how-they-correspond-to-the-code),
[runs](#runs), [fairness](#fairness), [what is proved](#what-is-proved),
[what is only model-checked](#what-is-only-model-checked),
[findings](#findings), [what is not modelled](#what-is-not-modelled), [plan](#plan).

How to run, inside this directory:

    tlc -workers 2 -config SimpleQueue.cfg SimpleQueue.tla
    tlapm SimpleQueueProofs.tla

`PROJECT.json` lists every run with its module, configuration and properties, the source
lines each definition stands for, and for each property a *mutant*: an operator beside the
original that changes it as a plausible bug would (`DrainWithoutWaiting` beside `Drain`).
Mutants are not part of `Next`. They show that the property can be broken by the code.

## Inventory

### simplequeue (`src/simplequeue/cmd/sq/main.go`)

*State.* `Orchestrator`: a map from names to `Queue` values, each a Go channel and a `closed`
flag, and one `sync.RWMutex`. *Operations.* `CreateQueue`, `CloseQueue`, `DeleteQueue` take the
lock exclusively; `GetQueue`, `Publish`, `Consume` take it shared and unlock by `defer`, so
`Publish` and `Consume` hold it while they are blocked on the channel.
*Interaction.* Any number of goroutines call it. `main` runs a log, a job and an event queue
with two, one and four goroutines and WaitGroups between them.
*Hard.* A writer that waits for a blocked reader stops every later reader, also the one that
would unblock the first. A send on a closed channel, and a second close, panic.
*Correct when:* no panic; a blocked goroutine is never stranded on a queue that is closed or
replaced; closing loses no accepted message; nothing but a goroutine blocked on a channel makes
a goroutine wait for the lock for ever; `main` runs to its end.

### godis (`src/godis`)

A Redis-like server in one thread.

* **Store and commands** (`internal/storage/store.go`, `internal/command`). *State.* A map of
  values with optional deadlines. *Operations.* GET, SET, SET EX, DEL, EXISTS, INCR, KEYS,
  EXPIRE, TTL, PING, ECHO, and a sweep once a second. *Hard.* An expired entry stays in the map
  until GET, EXISTS, INCR or the sweep removes it, and every command treats such an entry
  differently; time passes between any two commands; numbers and durations have 64 bits.
  *Correct when* it behaves like one map whose dead keys are reclaimed at arbitrary moments.
* **Event loop** (`internal/eventloop/loop.go`, `poller_linux.go`). *State.* Read and write buffer
  of each client, epoll's interest, the descriptor table. *Operations.* accept, read, parse and
  execute, write, drop. *Hard.* Commands cut or joined anywhere, partial writes, full sockets,
  half-closed and reset connections, descriptors reused within a batch, system calls that fail.
  *Correct when* each peer gets the answers to its own commands, complete and in order; none is
  forgotten; only ended connections are dropped.
* **Parser and encoder** (`internal/protocol`), sequential; **sockets and main**, set-up.

### distributedcrawler (`src/distributedcrawler`)

* **API** (`internal/api`): POST /crawl publishes a request on a NATS stream, GET reads the status
  bucket. **Coordinator** (`internal/coordinator`): takes requests, creates the status, publishes
  the first job, acknowledges. **Messaging** (`internal/messaging`): the streams, consumers and the
  bucket, and what the API checks of them. **Crawler worker**: an empty package.
* *State.* All of it is on the NATS server. *Hard.* Either process may crash between two calls;
  a call may fail although it was carried out; an ack may be lost; requests are delivered again
  after 30 s, or 2 min after a nak, while older deliveries wait in the consumer's buffer; the
  server forgets message ids after 2 min; the API starts on a part of the infrastructure.
* *Correct when* an accepted crawl is never lost, is found "pending" by whoever finds its job,
  is scheduled in the end, and as a rule once.

### govis-jetstream (`src/govis-jetstream`)

* **Terminal program** (`internal/tui`): a Bubble Tea model. *State.* Streams, selection, what is
  shown for it, loading and fetching flags, particles. *Operations.* One message at a time: keys,
  timers, results of loads, events. *Hard.* Commands run in goroutines of their own, so results
  arrive in any order while the selection moves and streams come and go.
  *Correct when* only the selected stream's data is on the screen, each resource is polled by one
  request at a time and never forgotten, and loading marks are true and end.
* **Observation** (`internal/observe`): queries, and a channel of publish events that drops what
  does not fit. **View**: layout.
* **Demo** (`cmd/demo`, `internal/demo`): a publisher, and workers that fetch one job at a time from a
  work queue, take `PROCESS_DELAY` over it, and acknowledge, terminate or give it back. *State.* Jobs
  on the NATS server, with deliveries counted up to three. *Hard.* Workers are stopped, answers are
  lost, a publish may have worked although it failed, the stream discards old jobs. *Correct when* no
  two workers are at one job, and each is settled in the end, or its deliveries were used up by faults.

### api-gateway (`src/api-gateway`)

* **Gateway** (`internal/config`, `routing`, `proxy`, `gateway`): pure functions of a configuration that is
  read once. *Correct when* what `Validate` accepts is what the later parts rely on.
* **Traffic demo** (`cmd/traffic`): runs the gateway and sends requests to it. *State.* The dashboard under a mutex,
  slots in a channel, a WaitGroup. *Interaction.* `run`'s loop, a goroutine per request, the server's handlers, which
  `observe` wraps. *Hard.* A client gives up while its handler is at work; Ctrl+C and a failing
  listener come at any time. *Correct when* the books agree with the goroutines, and the run ends
  with a screen that tells all.

### round-robin (`src/round-robin`)

A scheduler simulation. *State.* Processes, and a slice of them that is cut and appended to while a range loop
goes over its old value; the two share an array at times. *Correct when* it is a FIFO queue.

### The rest

* **grab**: a recursive search. **fetch**: one HTTP request. **cad, todocli,
  simplequeue/cmd/atomic**: stubs and exercises.

## Modules, and how they correspond to the code

| Module | Models | Composed from |
| --- | --- | --- |
| `SimpleQueue` | the orchestrator, `sync.RWMutex`, channels | |
| `SimpleQueueDemo` | `main`: goroutines, WaitGroups, its queues and calls | `SimpleQueue` |
| `SimpleQueueProofs` | theorems about both | `SimpleQueueDemo` |
| `ExpiringMap` | abstract: what a client of the store may rely on | |
| `GodisStore` | store, dispatcher, sweep | refines `ExpiringMap` |
| `GodisStoreProofs` | the refinement, and what a client is told of a key | `GodisStore` |
| `GodisLoop` | the event loop, sockets and epoll | |
| `GodisLoopProofs` | theorems about it | `GodisLoop` |
| `Crawl` | API, orchestrator, messaging, NATS | |
| `CrawlProofs` | theorems about it | `Crawl` |
| `Tui` | `Update`, its commands, the event channel | |
| `TuiProofs` | theorems about it | `Tui` |
| `WorkDemo` | publisher, workers and the work queue of the demo | |
| `WorkDemoProofs` | theorems about it | `WorkDemo` |
| `Gateway` | configuration, routing and forwarding as operators | |
| `Traffic` | the traffic demo, with the gateway in its handlers | `Gateway` |
| `TrafficProofs` | theorems about it | `Traffic` |
| `RunQueue` | abstract: a FIFO queue of bursts | |
| `RoundRobin` | the scheduler, with slices and arrays | refines `RunQueue` |
| `RoundRobinProofs` | the safety part of the refinement, and the turnaround times | `RoundRobin` |
| `MC...` | arguments, messages and symmetry sets that a configuration cannot write | |

**SimpleQueue.** Each goroutine runs one call; `pc` is where it is. `RLock`, `Lock`/`Drain`, `RUnlock`
and `Unlock` follow `sync.RWMutex`: `Lock` wins the writer mutex and announces the writer, after
which `RLock` parks; `Drain` waits for the admitted readers; `Unlock` admits all parked readers.
The body of a call under the lock is one step (no other goroutine can see its parts), except
that `Publish` and `Consume` go on to `Send`, `Handoff` or `Receive`, which wait for the channel.
`QueueId` is the address of a `Queue`: an address is reused when nothing refers to it.
`accepted` and `delivered` are histories used by properties only. A message is published at most once, which bounds the traffic.

**SimpleQueueDemo.** The orchestrator calls of each goroutine of `main` as a sequence: `MainProgram`, and for a goroutine
that publishes its `Batch` to its `Target`; the consumer repeats one call. `Started` is the go statement and `Ready` the WaitGroups. The step is
`Invoke` or `Step` of `SimpleQueue`. The publishers and the messages are constants, so that the theorems can speak of any;
`MCSimpleQueueDemo` has those of the code. The final background save touches no queue and is one step.

**ExpiringMap / GodisStore.** One step per command: the server has one thread and a command runs to
its end. `data[k].left` is `ExpiresAt - now` in ticks, which is what all readers compute; `Tick` is
the clock. A value is an integer or `NaN`, any other string. A pattern is the set of keys it
matches. In `ExpiringMap`, `MapExecute` first loses any set of dead keys and then does the command on
what is left; nothing in it says when, so it hides both the lazy deletion and the sweep.
Deviations of the code from Redis that it does on purpose or at least consistently (an expired
key counts for DEL and KEYS, EXPIRE revives it, INCR fails on it once) are part of the abstract
map, so that the promise is the weakest one the commands share.

**GodisLoop.** `pc` is the place in `Run`: one step per system call or handler, with peers acting
between any two. A command and its answer are two units each so that both can be cut in the
middle; `Parse` keeps what the loop sees of the parser (complete, incomplete, malformed).
A free descriptor is reused, any of them. `removeClient` may lose what the kernel had not
delivered, when input is unread (TCP's reset).

**Crawl.** One step per call that leaves the process. `pc` is the orchestrator's next call. A `Fault`
is one of: a call that is not carried out, one whose reply is lost, an ack that is lost, a crash.
`due` is the time until a request may be delivered (again), `remembered` the time until the
server forgets a message id. Time passes at any moment; `punctual` remembers whether it did so only when nothing was
to do. What urlx makes of a start URL, and its errors, which `scheduleURL` ignores, are data: they change a job and not whether there is one.

**Tui.** The model `m` is a record with the fields of `Model`, except that what is shown for a stream
is represented by the stream it belongs to. `fresh` and `late` are the loads in flight: the latest of
each kind and stream, and the earlier ones.

**WorkDemo.** `jobs[n]` is the message with stream sequence n: what it is, how often it was delivered, `due` until it may
be delivered again, and how it left the stream. `worker[w]` has the delivery in hand and the time its
work still takes. `Store` is the stream with its `MaxMsgs`; `Deliverable` the consumer with AckWait and MaxDeliver. A
`Fault` is an attempt that fails: a worker that is stopped, a delivery or an answer that is lost, or a tick in which a worker that
is due does not run (`stalled`). A failed publish costs none: the publisher does not try again. A publisher that is restarted has a
new `run` (its runID), which with its `seq` makes a job's ID; an event is known by the ID of its job.
The stream's `MaxAge` of an hour and the consumers' `MaxAckPending` of 100 are left out: a run is shorter, and its jobs are fewer.

**Gateway / Traffic.** Paths are sequences of segments, so `MatchesPrefix` is a prefix test. `sender[i]` and
`handler[i]` are where the goroutine and the handler of request i are; `active`, `stats` are the dashboard's fields. `Tick` takes a
slot and `Launch` adds to the WaitGroup and starts the goroutine; at its end `Release` gives back the slot and `Done` tells the WaitGroup, as
the two deferred calls do. A connection on which a request was answered is kept alive, also after `Serve` has failed (`KeptAlive`).
When the backend's answer breaks off, `ReverseProxy` panics (`HandlerAborts`), and net/http sends the GET again if its connection was
a reused one: the handler runs a second time, and `resent` remembers that. Times, sizes, the list of recent requests, the count of skipped
ones and the drawing are left out. The client's timeout of five seconds is an `"ERR"` that may come at
any moment; Shutdown's is its failure while a handler is at work.

**RunQueue / RoundRobin.** A slice is an array, a start and a length; `CutHead` and `AppendTo` are Go's `s[1:]` and `append`,
which takes a new array with any spare room when there is none. Two arrays suffice: the range's and the current one.

## Runs

| Run | Instance | Shows |
| --- | --- | --- |
| `simplequeue` | 3 goroutines, 1 name, 1 address, 1 message, capacity 0 or 1; 257k states | no panic, no stranded goroutine, no lost message at a close, waiting only behind blocked goroutines |
| `demo_runs` | the program itself, with its three publishers and nine messages | no error under any schedule; all events received once and in order; the program exits or hangs in `CloseQueue` |
| `demo_exit` | the program itself | *violation*: it need not exit |
| `store` | 2 keys, integers to 2, half-second ticks; 61k states | the store refines `ExpiringMap`; no key comes back after it was reported absent; expired keys are reclaimed |
| `store_overflow` | a Duration shorter than the seconds given | *violation*: SET EX answers OK for a deadline that has wrapped |
| `loop_safety` | 2 connections with 2 commands, 2 descriptors, short reads and writes, failing calls; 1.3 M states | answers complete, in order, never crossed; nothing lost while served; no stale event |
| `loop_answers` | 1 command each, calls that work; 185k states | only ended connections dropped; every command answered |
| `crawl_faults` | 2 crawls, 1 garbage message, any 2 faults; 1.4 M states | accepted crawls not lost, status before job, scheduled in the end, and once as long as every delivery is in time and only acks and processes fail |
| `tui_shows` | 2 streams, 1 superseded load of each kind and stream, 1 channel slot; 577k states | shows the selection only; one poll at a time; loading marks true, and taken back |
| `workdemo` | 2 workers of one kind, 2 jobs and a message that is none, 2 runs of the publisher, room for 2, 3 deliveries, any 2 faults; 838k states | one worker per job, each message settled or its deliveries used up by faults |
| `traffic` | 3 requests, 2 slots, 1 of them sent again, a configuration that starts and two that do not; 1.2 M states | books balance; the last screen is complete; a pool for every route; Ctrl+C ends the run |
| `roundrobin` | 3 processes, all bursts to 6, quanta 1, 2 and 4, up to 2 spare places; 106k states | refines the FIFO queue, turnaround times are round robin's |

Why the bounds are enough for the cases that matter:

* `simplequeue`. Three goroutines are a blocked reader, a writer that waits for it and a third call
  that parks or competes. One name whose queue is deleted and created again, with one address, is
  the case in which an old and a new queue can be confused: the address is only reused when no
  goroutine holds it. Capacities 0 and 1 are rendezvous and buffer. The safety properties
  are proved for all values.
* `store`. Two keys are needed for commands with two arguments. A tick of half a second separates
  cut from exact seconds. `Oldest` stops the ageing of a dead entry after a second, which TTL can
  tell apart (0, -1) and beyond which nothing changes but TTL's number.
* `loop_safety`. Two descriptors for two connections, so that one can be closed and reused in a
  batch that still holds events; a batch of two events with three sources, so that one is left
  out; a send buffer of one unit, so that an answer of two is always partial; a read of three units
  of four, so that a read ends in the middle of the second command.
* `crawl_faults`. Two faults are a crash and a lost ack in the handling of the same request, or one of
  each process. `Prefetch` 2 lets a second delivery of a request wait behind the first. `NakDelay` equals
  `Window`, as 2 minutes equals 2 minutes in the code. AckWait is half of it (a quarter in the code), so
  `ScheduledOnce`, which holds while the redeliveries fit into the window, covers one fault here.
* `tui_shows`. Two streams are enough to go away and back. `MaxLate` is a bound on the environment: a
  user who moves faster would have more loads in flight.

* `workdemo`. Two faults with three deliveries: a job that is given back once can be used up by them, any other not, which
  is the boundary of `StuckAfterFaults`. Room for two of three messages makes the stream discard one, also one in
  work. `Delays` holds one legal value and one equal to AckWait. A cycle of three has all outcomes
  but the 20th's; the message that is no job is terminated as that one is. A second run of the publisher counts from one again, so two jobs
  may have the same `seq`.
* `traffic`. Three requests over two slots: the third waits for a slot that is given back. One request is sent again, on a connection of
  another. The third goes to orders, which has no
  route (404); the second asks for a 503. The proofs cover all other configurations and sizes.
* `roundrobin`. Bursts from one turn to six, equal and not, with and without a rest; spare room lets an append fall into the
  array that is ranged over, or into a new one.

The counters and sizes that bound a model are named constants in it: `Message`, `MaxSent`, `MaxFaults`,
`MaxLate`, `Oldest`, `MaxSeq`, `MaxJobs`, `MaxRuns`, `MaxId`, `MaxResent`, `MaxBurst`, `MaxSpare`, and in `Crawl` the value 2 of `jobs`, which stands for more than one. Deadlock
checking is off where the system may rest: goroutines blocked for good, all requests settled, a
server that has stopped.

## Fairness

* `SimpleQueue`: weak fairness of each goroutine's steps is the Go scheduler. Strong fairness of `Lock`
  is `sync.Mutex`, which hands the mutex to a waiter that has starved for a millisecond. Nothing
  makes a goroutine call anything: `Invoke` is not fair. In `SimpleQueueDemo` the next call of a
  program is fair too, as it follows from the code; `main` is the only writer, so `Lock` needs none.
* `GodisStore`: time passes, and the loop reaches its sweep, because `Wait` has a timeout of 100 ms.
* `GodisLoop`: the loop's thread runs; peers read what they were sent. Peers need not send, shut or
  connect.
* `Crawl`: the orchestrator is started again after a crash and goes on; the server delivers what is
  due; time passes. Faults are finite in number (`MaxFaults`): without that a crawl could fail for ever.
  The API need not be restarted: `AcceptedScheduled` does not depend on it.
* `Tui`: timers fire; loads and polls end, since each has a timeout of five seconds; a command that waits
  for an event gets it. Keys, events and particles' ends are not fair. Weak fairness of the completion
  of the loads of one stream is used, not of a particular load.

* `WorkDemo`: time passes, containers are restarted (docker-compose's `restart`), and workers fetch and settle. The publisher need not
  go on. Faults are finite in number, and each message charges its own stuckness to them.
* `Traffic`: `run` goes on when it can, and so do the senders, whose clients give up after five seconds. Nothing is
  assumed of the handlers and the backends: `StopsWhenTold` holds when they hang.
* `RoundRobin`: one goroutine that waits for none.

## What is proved

The theorems hold for all values of the constants that meet the named assumptions; they rest on
no other theorem than the library's about sequences, finite sets and well-founded orders, and have no unproved step.

### SimpleQueue

For any sets of goroutines, names, addresses and messages and any capacities:

* `TypeCorrect`: `Spec => []TypeOK`.
* `NeverPanics`: `Spec => []NoPanic`. No send on a closed channel and no second close.
* `BlockedOnRegisteredQueue`: `Spec => []BlockedOnRegistered`.
* `FrozenWhileSomeoneBlocked`: `Spec => FrozenWhileBlocked`, an action property.
* `CloseLosesNothing`: `Spec => []ClosedMeansDrained`.

* `BooksKept`: `Spec => []DrainInv`, the invariant behind the last one.
* `LockIsPassedOn`: `Spec => []LockPassesOn`. Whoever waits for the lock waits for itself, for the writer or for a reader, and one
  of these has a step that it can take, or is blocked on a channel. This is the safety half of `WaitsOnlyForBlocked`.

Assumptions: capacities are naturals, `Nil` is no address, `Nobody` is no goroutine, the text of the
error is no message, and there is memory for a queue under each name (`AddressAssumption`, which only `LockIsPassedOn` and what follows from it
need); all are named in `SimpleQueue` and hold in Go by construction. The proofs of
these theorems cite none of the assumptions about the program, although they are in one module with it.

The argument. `BlockedOnRegistered` and `NoPanic` are not inductive: a state in which a goroutine waits to
send while another runs `CloseQueue` satisfies both and is followed by one that does not. What excludes
it is the lock. `LockInv` says that the lock's books agree with where the goroutines are: a goroutine is
in `readers` exactly in the shared section, which includes `send` and `recv`; `writer` is the one
goroutine between `drain` and `unlock`; and past `drain` there are no readers. So the body of a
writer finds no goroutine at `send` or `recv`, and what `BlockedInv` says of them (their `ptr` is still what
the name denotes, and its channel is open for a sender) cannot be disturbed by it. `ClosedInv`, that
the `closed` field and the channel agree, makes the tests of the field in `Publish`, `CloseQueue` and
`DeleteQueue` tests of the channel. `IInv` is the conjunction; the lemmas `LockSteps`, `WriteSteps`,
`ReadSteps` and `ChannelSteps` show each group of actions preserves it, one conjunct at a time.

`ClosedMeansDrained` needs more (`DrainInv`). `BooksInv`: what a channel accepted is what it delivered followed
by what it holds, and it holds no more than its capacity, so a rendezvous passes an empty buffer and
keeps the order. `EndInv`: a reader that is about to report the end points to a closed channel with an
empty buffer. A sender would fill it only through an open channel, and the address is not reused while
the reader holds it.

`LockPassesOn` needs `ParkInv` besides: readers park behind an announced writer only, and nobody refers to a queue outside of
`send`, `recv` and `runlock`. So a writer in its body finds the addresses of all queues that are not registered free.

### SimpleQueueDemo

For any publishers, any lines, any events and one job (`DemoAssumption`: the goroutines of the program are different ones, and its queues and
capacities exist; `BatchAssumption`: no two messages are the same and none is the text of an error, as in the code):

* `DemoImplementsSimpleQueue`: `DemoSpec => Spec`, so that all of the above is true of the program.
* `ProgramInductive`: `DemoSpec => []DemoInv`.
* `EveryEventReceived`: `DemoSpec => []AllEventsReceived`. No call fails under any schedule, and a consumer that has returned has
  received each event once, each publisher's in order.
* `NoOtherDeadlock`: `DemoSpec => []StopsOnlyInClose`. As long as the program has not ended, some goroutine's next step is
  possible (`MayGoOn`), unless `main` is in `CloseQueue("events")` and the consumer waits for an event.
* `HangIsForGood`: `DemoSpec => [][Hangs => Hangs']_demoVars`. From there on no step of any goroutine frees the two.

The last two are the safety halves of `ExitsOrHangsInClose` and of the finding `demo_exit`. `MayGoOn` and `MaySave` write out the guards of the steps, because `ENABLED`
is beyond the prover.

`DemoInv` reads everything off `main`'s place in its program; `Past(k)` says that its call number k has taken effect.
`QueuesInv` and `OpenInv`: which queues exist, and which is closed, is a question of what is past. `LaunchInv` and `WaitInv` are the go statements and
the WaitGroups: who is running has been started, and who has been waited for has ended. `RunsInv` ties a goroutine's call to its program.
`CountInv` is the reason why the first two queues can be deleted without a WaitGroup: a queue has accepted what its sender
has `Sent`, `main` has received as many messages as it has made calls, and what is delivered was accepted, so when `main` has the
last line or the job nothing is left to send. `EventInv`: the events channel has accepted a merge of the
first `Sent(e)` events of each publisher. With `AnswerInv`, that no call has failed yet, these are inductive together: that no call fails
needs that its queue exists, which needs to know where `main` is, which needs that what it waits for did not fail.

For `NoOtherDeadlock`, `UnsentInv` says that a message is free to be sent until its call. The lemmas `MainReceives`, `MainIdle` and `MainDrains` go through what `main`
waits for: a line or a job has a sender who goes on or hands it over, the WaitGroups have publishers who meet the
consumer, and a writer waits for readers who can leave, but for the consumer in the case named.

### GodisStore

For any keys, values, seconds, durations and widths of integers (`StoreAssumption`: the values and durations of commands fit into
their widths, and `Missing` and `NoDeadline` are no entry and no deadline):

* `StoreTypes` and `NeverResurrected`: `TypeOK` and `NoResurrection`. The invariant is `StoreType /\ NoResurrection` (`AbsentStaysAbsent`): a
  command changes the entries of keys it names only, and of those that were reported absent only SET and its
  kind write one, which takes the key from the history. EXPIRE, which revives a dead entry, cannot
  revive one of these, because GET and EXISTS delete what they find dead.
* `StoreImplementsMap`: `Spec => ImplementsMap`, if `SecondsFit`: no SET .. EX asks for more seconds than a `Duration` holds. The
  assumption cannot be dropped: without it the run `store_overflow` finds a key that does not live as asked. One lemma per command shows
  that it is `MapExecute` with the dead keys that the code deletes as those the map loses first; `CleanupExpired` is the
  map's reclaiming, and `Tick` its `MapTick`. That the code's answers are the map's is the harder half: counts of DEL and
  EXISTS are cardinalities, and INCR and EXPIRE read an entry before they write it.
* `SetExHonouredInRange`: `SetExHonoured` under the same assumption. It says where the finding ends: within the range of a
  `Duration` the command does what it announces.

### GodisLoop

For any finite sets of connections and descriptors, and any sizes of reads, batches, commands and send buffers (`LoopAssumption`):

* `LoopTypes`, `EventsStayFresh`, `AnswersArmed`: `TypeOK`, `EventsFresh` and `WritableArmed`.
* `AnswersComeInOrder`, `NothingIsLost`: `AnswersInOrder` and `NothingLost`.
* `OnlyEndedDropped`: `DropsOnlyEnded`.

`TableInv` says that a connection is in the listener's queue, behind one descriptor, or dropped, and never in two of
these places. `EventInv` is why a batch that was fetched once may be handled in a row although descriptors are closed
and given out again in between: `epoll_wait` reports a descriptor once, so an event still to be handled is about a descriptor
that no event before it has closed; and a connection accepted meanwhile takes a free one, which none of these is. `ArmedInv` is
`WritableArmed` with what `HandleRead` leaves behind.

The bytes are the longer part. A unit is known by its number, and `StreamInv` says of each connection that what the peer
got, what is under way, the write buffer, the read buffer, the unread input and what is not sent yet are consecutive
`Part`s of one sequence, with at most one malformed command at its end. The lemmas `PartJoin`, `PartTaken`,
`PartLeft` and `PartGrows` are the arithmetic of such parts; with them each handler is a cut and a join. Both properties follow by reading the
parts off. For a reset connection only what was sent to the peer is claimed.

`DropsOnlyEnded` is inductive with the rest: a handler drops a connection on a hangup, an error, an end of input or a malformed
command, and `EventInv` and `StreamInv` say that the peer has done that. That the server does not stop for want of a
descriptor is a pigeonhole argument (`DescriptorLeft`): served connections have descriptors of their own, so a free one is left for one more.

### Crawl

For any crawls, garbage, timeouts and numbers of faults (`CrawlAssumption`: the numbers are naturals, the
timeouts and the prefetch positive, no crawl is garbage, `None` is neither):

* `CrawlTypeCorrect`, `ApiServesCompleteInfrastructure`, `StatusComesFirst`, `NoAcceptedRequestLost`: the invariants
  `TypeOK`, `ServesCompleteInfrastructure`, `StatusBeforeJob` and `AcceptedNotLost`.

None of the three safety properties is inductive. `InfraInv` says the infrastructure is created in the order
of the list, so what the API looks for, which includes the last part, implies the rest.
`ProgressInv` ties the orchestrator's place to what it has done: at `job` the current crawl has a status, at `ack` also
a job. It survives crashes because a crash drops `pc` together with the request, and lost
replies because neither a status nor a job is ever taken back. `JobsInv` adds that the server remembers the id of a
stored job only, so a publish that is dropped as a duplicate leaves a job too. `RequestInv` is about
requests that are stored but not yet answered; from it `AcceptedNotLost` follows.

* `CrawlsScheduledOnce`: `ScheduledOnce`, for any ratio of AckWait and window.

`OnceInv` holds as long as the orchestrator is punctual, which is a part of the property's premise and once lost stays
so. `RememberedInv` is a budget: at the time when the request of a scheduled crawl can come again, the server will still remember the job's
id for the whole window, less AckWait for each fault so far. Each crash or lost ack costs at most one AckWait, because `HandInv` says that no time passes while
a punctual orchestrator has a delivery. A second job needs the id forgotten, that is, the whole window spent.

### Tui

For any streams, lists, numbers of superseded loads and capacities of the event channel
(`TuiAssumption`): `TuiTypeCorrect`, `OnlySelectedShown`, `PolledOneAtATime` and `LoadingMarksTrue`, for `TypeOK`, `ShowsSelected`,
`OneAtATime` and `LoadingIsLoading`.

The three are conjuncts of `IInv`, next to `ShapeInv` (types) and `BoundInv` (the selection is in the list). The hard step
is a list that arrives: it may lack the selected stream or have it at another place. The lemma `ListArrives` says what the other steps need to know of it: either the screen is empty, or the
selection and the screen are unchanged, and nothing in flight is forgotten. With one poll at a time a
finished poll leaves none, whichever stream it was for; that is why `consumerPollFetching` needs no name.

### WorkDemo

For any workers (finitely many), kinds, outcomes, times, limits and numbers of faults (`WorkDemoAssumption`: positive sizes, a nak's
delay no longer than AckWait):

* `WorkDemoTypeCorrect` and `NoJobWorkedOnTwice`: `TypeOK` and `OneWorkerAtATime`. The latter needs `BusyInv`: unless a worker was not
  scheduled, the server's timer for a job in work is longer than what the work still takes, because
  `PROCESS_DELAY` is below AckWait (`DelayInv`) and both run down together.
* `GivenUpAfterFaults`: `StuckAfterFaults`. It is about the end of a job and not inductive; `ChargeInv` accounts for each delivery of
  a stored job before: it is held by a worker, has failed, or is the one that was given back. That a second
  one is not given back needs `AttemptsInv`: no two workers hold the same delivery, also when one is late.

### Traffic

For any configurations whose routes are a sequence, and any positive numbers of slots (`TrafficAssumption`): `NoPoolMissing`,
`BooksAlwaysBalance` and `LastScreenIsComplete`, for `PoolAlwaysFound`, `BooksBalance` and `LastScreenComplete`.

`FlowInv` orders a request's goroutine, handler and response; `MainInv` says what each phase of `run` excludes: behind the
WaitGroup no sender is at work, since its counter is the number of goroutines that have not called `Done`, and behind
`Shutdown` no handler. `PoolInv` counts the slots and the WaitGroup apart, since a goroutine gives back the one before the other. `BookInv` is
`BooksBalance` with the handlers counted by those that have ended, and a request that was sent again counted once more. That `Match` returns a
route of the configuration needs that a set of indices has a least one, from the library's theorem on
well-founded orders.

### RoundRobin

For any numbers of processes, bursts, quanta and capacities: `RunsFifoQueue`, the safety part of `ImplementsFifo`. `SharingInv` is the invariant:
what the range loop has still to visit is the front of the current slice, element by element, and where the
two share an array it is the same part of it, so an append in place cannot overwrite it.

`TurnaroundTimes`: `TurnaroundIsRoundRobin`. That the queue is first in first out is not enough: the order in which it is must be
kept. `Round(r, h)` says that after r rounds the turn is at h: each process that is not finished has had r or r + 1 turns, all of them whole
quanta, according to whether it comes before h, and the queue holds these processes in the order of turns from h on. A turn of p moves
h behind p, and begins a new round when the queue has wrapped (`RoundTurn`). The clock is the number of milliseconds of bursts that have been run (`ClockInv`);
when p ends, `Round` says how many these are of each process (`LastTurn`).

## What is only model-checked

Every safety property of the passing runs, invariant or action property, is proved. These stay with TLC:

* Liveness under fairness is beyond the prover: `WaitsOnlyForBlocked`,
  `ExitsOrHangsInClose`, `EventuallyReclaimed`, `Answered`, `AcceptedScheduled`, `LoadingEnds`, `EveryJobSettled`,
  `StopsWhenTold`, and the end of `ImplementsFifo`. What can be said of them without fairness is proved for the first
  two (`LockIsPassedOn`, `NoOtherDeadlock`) and the last (`RunsFifoQueue`).
* What a recursive definition computes on all inputs would need induction over data. `TurnaroundIsRoundRobin` counts
  milliseconds for that reason, where a sum over the processes would do.

## Findings

* `demo_exit`. `CloseQueue("events")` at main.go:203 can wait for ever: the consumer goroutine is by then in
  `Consume("events")` again, with the read lock, waiting for a message nobody will publish. The lines
  "all publishers finished and all events received" and "save complete; exiting" are then not printed.
  `demo_runs` shows it is the only way in which the program does not exit; `NoOtherDeadlock` and `HangIsForGood` prove the same
  without fairness, for any publishers and events.
* `store_overflow`. SET key value EX seconds multiplies the seconds into a `Duration` without a check of the
  range: OK is answered for a key that is dead at once or has another deadline.

## What is not modelled

* The result path of the crawler: nothing publishes results, and the handler panics "impement me".
  Streams' and statuses' ages of 30 days. What urlx makes of a URL. HTTP bodies that do not parse, answered before any effect.
* godis: the RESP grammar and the encoder's bytes, which the repository tests; `Stop`, which is empty;
  errors of the listening socket.
* godis imports `internal/persistence` (`dispatcher.go`), which is not part of this commit, so the program does not compile as
  checked in; the model is of what is there.
* govis-jetstream: the age of an hour and the hundred pending acknowledgements of the demo's stream: what is stuck there
  (`StuckAfterFaults`) is so until its `MaxAge`. The view, the queries to the server, rates and durations of the animation. `update.go` drops results of
  "an earlier selection" by name only, so after a, b, a the first load of a is shown; it is a's data all the same.
* api-gateway: reading the configuration file; `cmd/gateway`, which starts the same parts without state; the reverse
  proxy's copying of bodies.
* grab: one sequential walk over files. fetch, cad, todocli and the
  exercises: a request from checked flags, and stubs.

## Plan

Done, in this order: `SimpleQueue`, its program and the proofs about both; `GodisStore`, its refinement and the proof of it; `GodisLoop`, `Crawl`
and their proofs; `Tui` and its proofs; `WorkDemo` and its proofs; `Gateway` and `Traffic` with theirs; `RunQueue`, `RoundRobin`
and its proofs.

Next, models: `Resp`, the parser's grammar over short inputs (the parse of a prefix is "incomplete" or the same), and
`Grab`, what the exit status says of a tree of files.

Next, proofs: the safety half of the other liveness properties (that what they wait for stays possible until it happens), as
`LockIsPassedOn` and `NoOtherDeadlock` are for the orchestrator: `Answered` and `StopsWhenTold` first.
