---------------------------- MODULE SimpleQueueDemo ----------------------------
(***************************************************************************)
(* The program in main of simplequeue/cmd/sq/main.go, run on the           *)
(* Orchestrator of SimpleQueue: a log queue with 100 slots, a rendezvous   *)
(* queue for jobs, and an events queue with publishers and a consumer that *)
(* reads until the queue is closed.                                        *)
(*                                                                         *)
(* Each goroutine is a list of orchestrator calls; at counts the calls it  *)
(* has begun.  main's go statements and WaitGroups are the guards Started  *)
(* and Ready.  A publisher that gets an error stops; an error that main or *)
(* the consumer does not expect panics the program.                        *)
(***************************************************************************)
EXTENDS SimpleQueue

CONSTANTS main, logger, jobber, consumer,
    Publisher,  \* the event publishers
    Batch       \* the messages that the logger, the jobber and each publisher send

Sender == {logger, jobber} \cup Publisher

ASSUME DemoAssumption ==
    /\ Goroutine = {main, consumer} \cup Sender
    /\ main # consumer /\ logger # jobber
    /\ {main, consumer} \cap Sender = {} /\ {logger, jobber} \cap Publisher = {}
    /\ {"log", "jobs", "events"} \subseteq Name /\ {0, 100} \subseteq Buffer

\* No two messages are the same, and none is the text of an error.
ASSUME BatchAssumption ==
    /\ Batch \in [Sender -> Seq(Message)] /\ Len(Batch[jobber]) = 1
    /\ \A p, r \in Sender : \A i \in 1..Len(Batch[p]), j \in 1..Len(Batch[r]) :
         Batch[p][i] = Batch[r][j] => p = r /\ i = j
    /\ {"ok", "queue not found", "queue already closed"} \cap Message = {}

VARIABLES
    at,         \* how many orchestrator calls each goroutine has begun
    exited      \* main has returned

demoVars == <<vars, at, exited>>

create(n, b) == [op |-> "CreateQueue", name |-> n, buffer |-> b]
publish(n, m) == [op |-> "Publish", name |-> n, msg |-> m]
on(op, n) == [op |-> op, name |-> n]

\* len(logMessages): main reads as many lines as the logger writes.
Lines == Len(Batch[logger])

\* The calls of main, in program order.
MainProgram ==
    LET First == << create("log", 100), create("jobs", 0) >>
        Last == << on("DeleteQueue", "log"),
                   on("Consume", "jobs"), on("DeleteQueue", "jobs"), create("events", 0),
                   on("CloseQueue", "events"), on("DeleteQueue", "events") >>
    IN  [i \in 1..(Lines + 8) |-> IF i <= 2 THEN First[i]
                                  ELSE IF i <= Lines + 2 THEN on("Consume", "log")
                                  ELSE Last[i - (Lines + 2)]]

Target(p) == IF p = logger THEN "log" ELSE IF p = jobber THEN "jobs" ELSE "events"

\* The calls of each goroutine but the consumer, whose only call is Consume("events").
Program(p) ==
    IF p = main THEN MainProgram
    ELSE [i \in 1..Len(Batch[p]) |-> publish(Target(p), Batch[p][i])]

\* How many calls main has finished.
MainDone == IF pc[main] = "idle" THEN at[main] ELSE at[main] - 1

\* The job publisher is started only after the Consume that waits for its message.
StartedLate(p) ==
    CASE p = main -> TRUE
      [] p = logger -> MainDone >= 2
      [] p = jobber -> MainDone >= Lines + 4
      [] OTHER -> MainDone >= Lines + 6

\* The go statement that starts p has run.
Started(p) ==
    CASE p = main -> TRUE
      [] p = logger -> MainDone >= 2
      [] p = jobber -> MainDone >= Lines + 3
      [] OTHER -> MainDone >= Lines + 6

Failed(p) == ret[p] \in {"queue not found", "queue already closed"}

\* p's goroutine has returned: its calls are done, or (a publisher) one failed.
Returned(p) ==
    /\ pc[p] = "idle"
    /\ IF p = consumer THEN ret[p] = "ErrQueueClosed"
                       ELSE at[p] = Len(Program(p)) \/ Failed(p)

\* panic(err) in main, or in the consumer for an error other than ErrQueueClosed.
Crashed == \/ ret[main] \in {"queue not found", "queue already closed", "ErrQueueClosed"}
           \/ Failed(consumer)

\* eventPublishers.Wait() without one of the publishers.
ReadyMissesOne(p) ==
    p = main => /\ at[main] = Lines + 6 =>
                     \E e \in Publisher : \A f \in Publisher \ {e} : Returned(f)
                /\ at[main] = Lines + 7 => Returned(consumer)

\* The WaitGroups: CloseQueue("events") waits for the publishers, DeleteQueue("events")
\* for the consumer.
Ready(p) ==
    p = main => /\ at[main] = Lines + 6 => \A e \in Publisher : Returned(e)
                /\ at[main] = Lines + 7 => Returned(consumer)

--------------------------------------------------------------------------------

DemoInit == Init /\ at = [p \in Goroutine |-> 0] /\ exited = FALSE

\* A goroutine makes its next call.
NextCall(p) ==
    /\ ~exited /\ ~Crashed
    /\ pc[p] = "idle" /\ Started(p) /\ ~Returned(p) /\ Ready(p)
    /\ IF p = consumer THEN Invoke(p, on("Consume", "events")) /\ at' = at
       ELSE Invoke(p, Program(p)[at[p] + 1]) /\ at' = [at EXCEPT ![p] = @ + 1]
    /\ UNCHANGED exited

\* After the last call main runs the background save, waits for it and returns.
Save ==
    /\ ~exited /\ ~Crashed /\ Returned(main)
    /\ exited' = TRUE
    /\ UNCHANGED <<vars, at>>

\* A goroutine runs on inside its call.
Run(p) ==
    /\ ~exited /\ ~Crashed
    /\ Step(p) \/ \E r \in Goroutine : Handoff(p, r)
    /\ UNCHANGED <<at, exited>>

DemoNext == (\E p \in Goroutine : NextCall(p) \/ Run(p)) \/ Save

\* Every goroutine that can run runs; main is the only writer, so weak fairness is enough.
DemoFairness ==
    /\ \A p \in Goroutine : WF_demoVars(NextCall(p) \/ Run(p))
    /\ WF_demoVars(Save)

DemoSpec == DemoInit /\ [][DemoNext]_demoVars /\ DemoFairness

--------------------------------------------------------------------------------
(* Properties. *)

\* The events main's consumer has received, over the events channel's lifetime.
Received == IF queues["events"] = Nil THEN <<>> ELSE delivered[queues["events"]]

\* s holds every event of every publisher once, those of one publisher in its order.
Interleaves(s) ==
    /\ \A e \in Publisher : \A k \in 1..Len(Batch[e]) : \E i \in 1..Len(s) : s[i] = Batch[e][k]
    /\ \A i \in 1..Len(s) : \E e \in Publisher : \E k \in 1..Len(Batch[e]) : s[i] = Batch[e][k]
    /\ \A i, j \in 1..Len(s) : i < j =>
         /\ s[i] # s[j]
         /\ \A e \in Publisher : \A k, l \in 1..Len(Batch[e]) :
              s[i] = Batch[e][k] /\ s[j] = Batch[e][l] => k < l

\* No goroutine ever meets an error: main and the consumer do not panic and no publisher
\* gives up, whatever the schedule.  When main is past eventConsumers.Wait() (line 207) the
\* consumer has received every event once, and each publisher's events in the order it sent
\* them.
AllEventsReceived ==
    /\ ~Crashed /\ \A p \in Goroutine : ~Failed(p)
    /\ Returned(consumer) /\ queues["events"] # Nil => Interleaves(Received)

\* main either exits or hangs for one reason: CloseQueue("events") waits for the lock
\* that the consumer holds while it waits for an event nobody will publish.
Hangs ==
    /\ pc[main] = "drain" /\ call[main] = on("CloseQueue", "events")
    /\ pc[consumer] = "recv"

ExitsOrHangsInClose == <>exited \/ <>[]Hangs

\* What line 209 and line 226 announce: the program prints that all publishers finished
\* and all events were received, and exits.
MainExits == <>exited
================================================================================
