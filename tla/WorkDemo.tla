-------------------------------- MODULE WorkDemo --------------------------------
(***************************************************************************)
(* The work-queue demo of govis-jetstream: cmd/demo/main.go and            *)
(* internal/demo/demo.go, as docker-compose.yml runs them.  A publisher    *)
(* puts jobs on the JOBS stream, and every fourth one on EVENTS; workers   *)
(* of each kind fetch one job at a time, take PROCESS_DELAY over it, and   *)
(* acknowledge, reject or give it back, as its outcome says.               *)
(*                                                                         *)
(* NATS is the server's: a work queue that keeps a job until it is         *)
(* acknowledged or terminated, gives it to a worker again AckWait after it *)
(* was delivered (or the delay of a nak after it), at most MaxDeliver      *)
(* times, and discards the oldest job when there are more than MaxMsgs.    *)
(* Containers that end are restarted.  Times are counted in ticks.         *)
(*                                                                         *)
(* Two of the server's limits are left out.  MaxAge takes a message that   *)
(* is an hour old off the stream, long after what a run here is about.     *)
(* MaxAckPending holds back first deliveries while a hundred of a kind are *)
(* not settled, and a worker fetches one at a time.                        *)
(***************************************************************************)
EXTENDS Naturals, Sequences, FiniteSets

CONSTANTS
    Kinds,      \* the kinds of jobs, a sequence (email, report, image)
    Worker,     \* worker containers
    KindOf,     \* the kind each worker is started for
    Delays,     \* what PROCESS_DELAY may be set to
    Cycle,      \* outcomes repeat after this many jobs (20)
    NakOnce,    \* the places in a cycle of the jobs that are given back once ({1, 2, 3})
    EventEvery, \* a publish event for each of these (4)
    BurstSize,  \* BURST_SIZE
    MaxMsgs,    \* the stream's MaxMsgs (20000)
    MaxDeliver, \* the consumers' MaxDeliver (3)
    AckWait,    \* the consumers' AckWait (10 s)
    NakDelay,   \* NakWithDelay(350 * time.Millisecond)
    MaxRuns,    \* runs of the publisher, at most
    MaxSeq,     \* jobs that one run of the publisher attempts, at most
    MaxJobs,    \* messages ever stored, at most
    MaxFaults   \* failed attempts, at most

ASSUME WorkDemoAssumption ==
    /\ Kinds \in Seq(STRING) /\ Kinds # <<>> /\ IsFiniteSet(Worker)
    /\ KindOf \in [Worker -> {Kinds[i] : i \in DOMAIN Kinds}] /\ Delays \subseteq Nat
    /\ Cycle \in Nat \ {0} /\ EventEvery \in Nat \ {0} /\ BurstSize \in Nat \ {0}
    /\ MaxMsgs \in Nat \ {0} /\ MaxDeliver \in Nat \ {0}
    /\ AckWait \in Nat \ {0} /\ NakDelay \in 1..AckWait
    /\ MaxRuns \in Nat \ {0} /\ MaxSeq \in Nat /\ MaxJobs \in Nat /\ MaxFaults \in Nat

Kind == {Kinds[i] : i \in DOMAIN Kinds}

VARIABLES
    pub,        \* the publisher: "idle", or its next call
    run,        \* its runID, which with seq makes a job's ID
    seq,        \* its seq
    left,       \* jobs of this tick it has still to publish
    jobs,       \* the messages ever stored on JOBS, by their stream sequence
    events,     \* the events stored on EVENTS: the IDs of the jobs they are about
    worker,     \* per worker: what it does, with which message and delivery of it, and for
                \* how long still
    faults,     \* attempts that failed
    stalled     \* history: whether a worker was not scheduled in time

vars == <<pub, run, seq, left, jobs, events, worker, faults, stalled>>

pubVars == <<pub, run, seq, left, events>>
faultVars == <<faults, stalled>>

\* Outcome; 0 stands for a message that Decode refuses.
Outcome(s) == CASE s = 0 -> "invalid"
                [] s # 0 /\ s % Cycle = 0 -> "term"
                [] s # 0 /\ s % Cycle # 0 /\ s % Cycle \in NakOnce -> "nak-once"
                [] OTHER -> "ack"

\* The kind that NewJob gives a job.
KindFor(s) == Kinds[((s - 1) % Len(Kinds)) + 1]

\* What is still on the stream.
Stored == {n \in DOMAIN jobs : jobs[n].state = "stored"}

Idle == [pc |-> "idle", msg |-> 0, attempt |-> 0, left |-> 0, delay |-> 0]
Down == [Idle EXCEPT !.pc = "down"]

\* After Setup.
Init ==
    /\ pub = "idle" /\ run = 1 /\ seq = 0 /\ left = 0
    /\ jobs = <<>> /\ events = <<>>
    /\ worker = [w \in Worker |-> Down]
    /\ faults = 0 /\ stalled = FALSE

--------------------------------------------------------------------------------
(* Time and faults. *)

Fault == faults < MaxFaults /\ faults' = faults + 1

Minus1(t) == IF t = 0 THEN 0 ELSE t - 1

\* A worker whose delay is over settles its job at once, unless it is not scheduled: then
\* whatever it and the others hold grows older.
Overdue == \E w \in Worker : worker[w].pc = "busy" /\ worker[w].left = 0

Tick ==
    /\ \/ \E w \in Worker : worker[w].pc = "busy"
       \/ \E n \in Stored : jobs[n].due > 0
    /\ jobs' = [n \in DOMAIN jobs |-> [jobs[n] EXCEPT !.due = Minus1(@)]]
    /\ worker' = [w \in Worker |-> [worker[w] EXCEPT !.left = Minus1(@)]]
    /\ IF Overdue THEN Fault /\ stalled' = TRUE ELSE UNCHANGED faultVars
    /\ UNCHANGED pubVars

--------------------------------------------------------------------------------
(* The publisher, as far as the bounds go. *)

Room == seq < MaxSeq /\ Len(jobs) < MaxJobs

\* The server stores a message; the oldest one makes room for it.
Store(kind, s) ==
    /\ Len(jobs) < MaxJobs
    /\ LET full == Cardinality(Stored) = MaxMsgs
           oldest == CHOOSE n \in Stored : \A k \in Stored : n <= k
           kept == IF full THEN [jobs EXCEPT ![oldest].state = "discarded",
                                              ![oldest].due = 0]
                            ELSE jobs
       IN  jobs' = Append(kept, [kind |-> kind, run |-> run, seq |-> s, state |-> "stored",
                                 delivered |-> 0, due |-> 0])

\* The publisher ends, wherever it is, and is restarted.
PublisherRestart ==
    /\ Room /\ seq > 0 /\ run < MaxRuns
    /\ pub' = "idle" /\ run' = run + 1 /\ seq' = 0 /\ left' = 0
    /\ UNCHANGED <<jobs, events, worker>> /\ UNCHANGED faultVars

\* The regular tick asks for one job, a burst for BurstSize.
PublisherTick ==
    /\ Room /\ pub = "idle" /\ pub' = "job"
    /\ left' \in {1, BurstSize}
    /\ UNCHANGED <<run, seq, jobs, events, worker>> /\ UNCHANGED faultVars

NextJob == left' = left - 1 /\ pub' = IF left = 1 THEN "idle" ELSE "job"

\* A failed publish is reported, and its event is published all the same.
PublishJobIgnoresError ==
    /\ Room /\ pub = "job" /\ seq' = seq + 1
    /\ \/ Store(KindFor(seq'), seq')
       \/ UNCHANGED jobs
    /\ IF seq' % EventEvery = 0 THEN pub' = "event" /\ UNCHANGED left ELSE NextJob
    /\ UNCHANGED <<run, events, worker>> /\ UNCHANGED faultVars

\* The next job: stored, or stored without the publisher knowing, or not stored.  Only the
\* first may be followed by an event; none is tried again.
PublishJob ==
    /\ Room /\ pub = "job" /\ seq' = seq + 1
    /\ \/ /\ Store(KindFor(seq'), seq')
          /\ IF seq' % EventEvery = 0 THEN pub' = "event" /\ UNCHANGED left ELSE NextJob
       \/ Store(KindFor(seq'), seq') /\ NextJob
       \/ UNCHANGED jobs /\ NextJob
    /\ UNCHANGED <<run, events, worker>> /\ UNCHANGED faultVars

\* The event of the job just stored, whose failure is only reported.
PublishEvent ==
    /\ pub = "event" /\ NextJob
    /\ events' \in {events, Append(events, <<run, seq>>)}
    /\ UNCHANGED <<run, seq, jobs, worker>> /\ UNCHANGED faultVars

\* Another client's message on a subject of JOBS that is no job.
PutInvalid ==
    /\ \A n \in DOMAIN jobs : jobs[n].seq # 0
    /\ \E kind \in Kind : Store(kind, 0)
    /\ UNCHANGED worker /\ UNCHANGED pubVars /\ UNCHANGED faultVars

--------------------------------------------------------------------------------
(* The workers. *)

\* work takes a delay as long as AckWait.
WorkerStartAllowsAckWait(w) ==
    /\ worker[w].pc = "down"
    /\ \E d \in Delays : d <= AckWait /\ worker' = [worker EXCEPT ![w] = [Idle EXCEPT !.delay = d]]
    /\ UNCHANGED jobs /\ UNCHANGED pubVars /\ UNCHANGED faultVars

\* work up to its loop: PROCESS_DELAY must be below AckWait.
WorkerStart(w) ==
    /\ worker[w].pc = "down"
    /\ \E d \in Delays : d < AckWait /\ worker' = [worker EXCEPT ![w] = [Idle EXCEPT !.delay = d]]
    /\ UNCHANGED jobs /\ UNCHANGED pubVars /\ UNCHANGED faultVars

\* The worker is stopped or killed; the job in flight is left for redelivery.  (One that ends
\* with nothing in flight is one that does not fetch for a while.)
WorkerEnds(w) ==
    /\ worker[w].pc = "busy" /\ Fault
    /\ worker' = [worker EXCEPT ![w] = Down]
    /\ UNCHANGED <<jobs, stalled>> /\ UNCHANGED pubVars

\* The server may give message n to worker w: a job of its kind that waits for redelivery,
\* or the first that was never delivered.
Deliverable(n, w) ==
    /\ n \in Stored /\ jobs[n].kind = KindOf[w] /\ jobs[n].due = 0
    /\ jobs[n].delivered < MaxDeliver
    /\ jobs[n].delivered = 0 =>
         ~\E k \in Stored : k < n /\ jobs[k].kind = jobs[n].kind /\ jobs[k].delivered = 0

\* Fetch(1) returns a message, or was over when it came.
Fetch(w) ==
    /\ worker[w].pc = "idle"
    /\ \E n \in DOMAIN jobs :
         /\ Deliverable(n, w)
         /\ jobs' = [jobs EXCEPT ![n].delivered = @ + 1, ![n].due = AckWait]
         /\ \/ /\ worker' = [worker EXCEPT ![w].pc = "busy", ![w].msg = n, ![w].left = worker[w].delay,
                                           ![w].attempt = jobs[n].delivered + 1]
               /\ UNCHANGED faults
            \/ UNCHANGED worker /\ Fault
    /\ UNCHANGED stalled /\ UNCHANGED pubVars

Settled(w) == worker' = [worker EXCEPT ![w] = [Idle EXCEPT !.delay = worker[w].delay]]

\* The message that w holds leaves the work queue, unless it has left it before.
Remove(w, how) ==
    jobs' = [jobs EXCEPT ![worker[w].msg].state = IF @ = "stored" THEN how ELSE @,
                         ![worker[w].msg].due = 0]

\* The server postpones the next delivery of a message it still has.
Postpone(w) ==
    jobs' = [jobs EXCEPT ![worker[w].msg].due =
               IF jobs[worker[w].msg].state = "stored" THEN NakDelay ELSE @]

\* Every attempt at a job that is to be given back once is given back.
SettleAlwaysNaks(w) ==
    LET outcome == Outcome(jobs[worker[w].msg].seq) IN
    /\ worker[w].pc = "busy" /\ worker[w].left = 0
    /\ CASE outcome \in {"invalid", "term"} -> Remove(w, "terminated")
         [] outcome = "nak-once" -> Postpone(w)
         [] OTHER -> Remove(w, "acknowledged")
    /\ Settled(w)
    /\ UNCHANGED faultVars /\ UNCHANGED pubVars

\* A message that is no job is skipped.
SettleSkipsInvalid(w) ==
    /\ worker[w].pc = "busy" /\ worker[w].left = 0
    /\ IF Outcome(jobs[worker[w].msg].seq) = "invalid" THEN UNCHANGED jobs
                                                       ELSE Remove(w, "acknowledged")
    /\ Settled(w)
    /\ UNCHANGED faultVars /\ UNCHANGED pubVars

\* After the delay: TERM, NAK or ACK, or one of them that does not reach the server.
Settle(w) ==
    LET outcome == Outcome(jobs[worker[w].msg].seq)
        giveBack == outcome = "nak-once" /\ worker[w].attempt = 1
    IN
    /\ worker[w].pc = "busy" /\ worker[w].left = 0
    /\ \/ /\ CASE outcome \in {"invalid", "term"} -> Remove(w, "terminated")
               [] giveBack -> Postpone(w)
               [] OTHER -> Remove(w, "acknowledged")
          /\ UNCHANGED faults
       \/ UNCHANGED jobs /\ Fault
    /\ Settled(w)
    /\ UNCHANGED stalled /\ UNCHANGED pubVars

Work(w) == WorkerStart(w) \/ Fetch(w) \/ Settle(w)

Next ==
    \/ Tick
    \/ PublisherRestart \/ PublisherTick \/ PublishJob \/ PublishEvent
    \/ PutInvalid
    \/ \E w \in Worker : Work(w) \/ WorkerEnds(w)

Spec == Init /\ [][Next]_vars

\* Time passes, containers are restarted, and workers fetch and settle; nothing makes the
\* publisher go on.
FairSpec ==
    /\ Spec
    /\ WF_vars(Tick)
    /\ \A w \in Worker : WF_vars(Work(w))

--------------------------------------------------------------------------------
(* Properties. *)

\* Type correctness; a busy worker holds a delivery the server has made, and an event on
\* EVENTS is about a job that was stored, of the same run.
TypeOK ==
    /\ pub \in {"idle", "job", "event"} /\ run \in 1..MaxRuns /\ seq \in 0..MaxSeq
    /\ left \in 0..BurstSize
    /\ jobs \in Seq([kind : Kind, run : 1..MaxRuns, seq : 0..MaxSeq,
                     delivered : 0..MaxDeliver, due : 0..AckWait,
                     state : {"stored", "acknowledged", "terminated", "discarded"}])
    /\ Len(jobs) <= MaxJobs
    /\ events \in Seq({<<jobs[n].run, jobs[n].seq>> : n \in DOMAIN jobs})
    /\ worker \in [Worker -> [pc : {"down", "idle", "busy"}, msg : Nat, attempt : Nat,
                              left : Nat, delay : Nat]]
    /\ faults \in 0..MaxFaults /\ stalled \in BOOLEAN
    /\ \A w \in Worker : worker[w].pc = "busy" =>
         /\ worker[w].msg \in DOMAIN jobs
         /\ worker[w].attempt \in 1..jobs[worker[w].msg].delivered

\* "PROCESS_DELAY must be >= 0 and < 10s": as long as workers are scheduled in time, no job is
\* worked on by two at once, whoever is stopped and whatever is lost.
OneWorkerAtATime ==
    ~stalled => \A w, v \in Worker :
        worker[w].pc = "busy" /\ worker[v].pc = "busy" /\ w # v => worker[w].msg # worker[v].msg

\* The attempts that have to fail before message n is not delivered any more.
Spare(n) == MaxDeliver - (IF Outcome(jobs[n].seq) = "nak-once" THEN 1 ELSE 0)

\* The server will not deliver n again, nobody works on it, and it is not done.
Stuck(n) ==
    /\ n \in Stored /\ jobs[n].delivered = MaxDeliver /\ jobs[n].due = 0
    /\ ~\E w \in Worker : worker[w].pc = "busy" /\ worker[w].msg = n

\* A job is left on the stream undone only if as many attempts failed as MaxDeliver allows
\* for; giving a job back is one of them, and it happens once.
StuckAfterFaults == \A n \in DOMAIN jobs : Stuck(n) => faults >= Spare(n)

\* Every stored message is settled, or discarded, if fewer attempts fail.
EveryJobSettled ==
    \A n \in 1..MaxJobs :
        n \in Stored ~> n \notin Stored \/ faults >= Spare(n)
================================================================================
