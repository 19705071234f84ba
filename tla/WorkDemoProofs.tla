----------------------------- MODULE WorkDemoProofs -----------------------------
(***************************************************************************)
(* Proofs about WorkDemo for any workers, kinds, times, limits and numbers *)
(* of faults: as long as workers are scheduled in time, no two of them     *)
(* work on the same job, and a job is never given up by the server but for *)
(* as many failed attempts as MaxDeliver allows for.                       *)
(***************************************************************************)
EXTENDS WorkDemo, SequenceTheorems, FiniteSetTheorems, TLAPS

Job == [kind : Kind, run : 1..MaxRuns, seq : 0..MaxSeq, delivered : 0..MaxDeliver,
        due : 0..AckWait, state : {"stored", "acknowledged", "terminated", "discarded"}]
WorkerState == [pc : {"down", "idle", "busy"}, msg : Nat, attempt : Nat, left : Nat, delay : Nat]

Busy(w) == worker[w].pc = "busy"

\* TypeOK in three parts.
PubType ==
    /\ pub \in {"idle", "job", "event"} /\ run \in 1..MaxRuns /\ seq \in 0..MaxSeq
    /\ left \in 0..BurstSize
    /\ faults \in 0..MaxFaults /\ stalled \in BOOLEAN

Ids(js) == {<<js[n].run, js[n].seq>> : n \in DOMAIN js}

JobsType == jobs \in Seq(Job) /\ Len(jobs) <= MaxJobs /\ events \in Seq(Ids(jobs))

WorkType ==
    /\ worker \in [Worker -> WorkerState]
    /\ \A w \in Worker : Busy(w) => /\ worker[w].msg \in DOMAIN jobs
                                    /\ worker[w].attempt \in 1..jobs[worker[w].msg].delivered

\* The publisher has something left to publish; an event is for a job that was stored.
PubInv ==
    /\ pub # "idle" => left > 0
    /\ pub = "event" => <<run, seq>> \in Ids(jobs)

\* Workers are configured to need less than AckWait.
DelayInv == \A w \in Worker : worker[w].delay < AckWait

\* The server waits longer for a busy worker's answer than the worker needs for it, and it
\* waits for one worker.
BusyInv ==
    ~stalled =>
        /\ \A w \in Worker : Busy(w) /\ jobs[worker[w].msg].state = "stored" =>
                                worker[w].left < jobs[worker[w].msg].due
        /\ \A w, v \in Worker : Busy(w) /\ Busy(v) /\ w # v => worker[w].msg # worker[v].msg

IInv == PubType /\ JobsType /\ WorkType /\ PubInv /\ DelayInv /\ BusyInv

\* What a step may do to the jobs: they stay, and one that is gone does not come back.
SameJobs(j1, j2) ==
    /\ Len(j1) <= Len(j2)
    /\ \A n \in 1..Len(j1) : /\ j2[n].run = j1[n].run /\ j2[n].seq = j1[n].seq
                             /\ j1[n].delivered <= j2[n].delivered
                             /\ j2[n].state = "stored" => j1[n].state = "stored"

\* A job's fields.
LEMMA JobFields ==
    ASSUME NEW j \in Job
    PROVE  /\ j.kind \in Kind /\ j.run \in 1..MaxRuns /\ j.seq \in 0..MaxSeq
           /\ j.delivered \in 0..MaxDeliver
           /\ j.due \in 0..AckWait /\ j.delivered \in Nat /\ j.due \in Nat
BY WorkDemoAssumption DEF Job

\* Another time for its next delivery.
LEMMA JobDue ==
    ASSUME NEW j \in Job, NEW d \in 0..AckWait
    PROVE  LET g == [j EXCEPT !.due = d] IN
           g \in Job /\ g.due = d /\ g.run = j.run /\ g.seq = j.seq
           /\ g.delivered = j.delivered /\ g.state = j.state
BY DEF Job

\* A job leaves the stream.
LEMMA JobGone ==
    ASSUME NEW j \in Job, NEW how \in {"acknowledged", "terminated", "discarded"}
    PROVE  LET g == [j EXCEPT !.state = how, !.due = 0] IN
           g \in Job /\ g.due = 0 /\ g.run = j.run /\ g.seq = j.seq
           /\ g.delivered = j.delivered /\ g.state = how
<1>1. 0 \in 0..AckWait
  BY WorkDemoAssumption
<1> QED BY <1>1 DEF Job

\* A job is delivered.
LEMMA JobDelivered ==
    ASSUME NEW j \in Job, j.delivered < MaxDeliver
    PROVE  LET g == [j EXCEPT !.delivered = @ + 1, !.due = AckWait] IN
           g \in Job /\ g.due = AckWait /\ g.run = j.run /\ g.seq = j.seq
           /\ g.delivered = j.delivered + 1 /\ g.state = j.state
<1>1. j.delivered + 1 \in 0..MaxDeliver /\ AckWait \in 0..AckWait
  BY WorkDemoAssumption DEF Job
<1> QED BY <1>1 DEF Job

\* Three parts make TypeOK.
LEMMA TypeParts == PubType /\ JobsType /\ WorkType => TypeOK
BY DEF PubType, JobsType, WorkType, TypeOK, Job, WorkerState, Ids, Busy

LEMMA JobsAre ==
    ASSUME JobsType
    PROVE  /\ DOMAIN jobs = 1..Len(jobs) /\ Len(jobs) \in Nat
           /\ \A n \in 1..Len(jobs) : jobs[n] \in Job
BY LenProperties DEF JobsType

\* Where the jobs stay, so do the events and what busy workers hold.
LEMMA Staying ==
    ASSUME JobsType, WorkType, jobs' \in Seq(Job), Len(jobs') <= MaxJobs, SameJobs(jobs, jobs')
    PROVE  /\ Ids(jobs) \subseteq Ids(jobs')
           /\ events' = events => JobsType'
           /\ worker' = worker => WorkType'
<1>1. /\ DOMAIN jobs = 1..Len(jobs) /\ DOMAIN jobs' = 1..Len(jobs')
      /\ Len(jobs) \in Nat /\ Len(jobs') \in Nat /\ 1..Len(jobs) \subseteq 1..Len(jobs')
  BY LenProperties DEF JobsType, SameJobs
<1>2. Ids(jobs) \subseteq Ids(jobs')
  <2> SUFFICES ASSUME NEW n \in 1..Len(jobs)
               PROVE  <<jobs[n].run, jobs[n].seq>> \in Ids(jobs')
    BY <1>1 DEF Ids
  <2>1. n \in DOMAIN jobs' /\ jobs'[n].run = jobs[n].run /\ jobs'[n].seq = jobs[n].seq
    BY <1>1 DEF SameJobs
  <2>2. <<jobs'[n].run, jobs'[n].seq>> \in Ids(jobs')
    BY <2>1 DEF Ids
  <2> QED BY <2>1, <2>2
<1>3. events' = events => JobsType'
  BY <1>2, SeqMonotonic DEF JobsType
<1>4. ASSUME worker' = worker PROVE WorkType'
  <2> SUFFICES ASSUME NEW w \in Worker, Busy(w)
               PROVE  /\ worker[w].msg \in DOMAIN jobs'
                      /\ worker[w].attempt \in 1..jobs'[worker[w].msg].delivered
    BY <1>4 DEF WorkType, Busy
  <2>1. worker[w].msg \in 1..Len(jobs) /\ worker[w].attempt \in 1..jobs[worker[w].msg].delivered
    BY <1>1 DEF WorkType
  <2>2. jobs[worker[w].msg].delivered <= jobs'[worker[w].msg].delivered
    BY <2>1 DEF SameJobs
  <2>3. jobs'[worker[w].msg].delivered \in Nat /\ jobs[worker[w].msg].delivered \in Nat
    <3>1. jobs'[worker[w].msg] \in Job /\ jobs[worker[w].msg] \in Job
      BY <1>1, <2>1, ElementOfSeq DEF JobsType
    <3> QED BY <3>1, JobFields
  <2> QED BY <1>1, <2>1, <2>2, <2>3
<1> QED BY <1>2, <1>3, <1>4

\* One more job, of a known kind.
LEMMA Storing ==
    ASSUME JobsType, run \in 1..MaxRuns, NEW kind \in Kind, NEW s \in 0..MaxSeq, Store(kind, s)
    PROVE  /\ jobs' \in Seq(Job) /\ Len(jobs') <= MaxJobs /\ SameJobs(jobs, jobs')
           /\ <<run, s>> \in Ids(jobs')
           /\ \A n \in 1..Len(jobs) : jobs'[n].state = "stored" => jobs'[n].due = jobs[n].due
           /\ \A n \in 1..Len(jobs) : jobs'[n].delivered = jobs[n].delivered
           /\ Len(jobs') = Len(jobs) + 1 /\ jobs'[Len(jobs) + 1].delivered = 0
<1> DEFINE oldest == CHOOSE n \in Stored : \A m \in Stored : n <= m
           full == Cardinality(Stored) = MaxMsgs
           kept == IF full THEN [jobs EXCEPT ![oldest].state = "discarded", ![oldest].due = 0]
                           ELSE jobs
           new == [kind |-> kind, run |-> run, seq |-> s, state |-> "stored",
                   delivered |-> 0, due |-> 0]
<1>1. Len(jobs) < MaxJobs /\ jobs' = Append(kept, new)
  BY DEF Store
<1>2. DOMAIN jobs = 1..Len(jobs) /\ Len(jobs) \in Nat /\ \A n \in 1..Len(jobs) : jobs[n] \in Job
  BY JobsAre
<1> HIDE DEF oldest, full
<1>3. \A n \in 1..Len(jobs) :
        \/ kept[n] = jobs[n]
        \/ kept[n] = [jobs[n] EXCEPT !.state = "discarded", !.due = 0]
  BY <1>2
<1>4. DOMAIN kept = 1..Len(jobs)
  BY <1>2
<1>5. \A n \in 1..Len(jobs) :
        /\ kept[n] \in Job /\ kept[n].run = jobs[n].run /\ kept[n].seq = jobs[n].seq
        /\ kept[n].delivered = jobs[n].delivered
        /\ kept[n].state = "stored" => jobs[n].state = "stored" /\ kept[n].due = jobs[n].due
  <2> SUFFICES ASSUME NEW n \in 1..Len(jobs)
               PROVE  /\ kept[n] \in Job /\ kept[n].run = jobs[n].run /\ kept[n].seq = jobs[n].seq
                      /\ kept[n].delivered = jobs[n].delivered
                      /\ kept[n].state = "stored" => jobs[n].state = "stored" /\ kept[n].due = jobs[n].due
    OBVIOUS
  <2>1. LET g == [jobs[n] EXCEPT !.state = "discarded", !.due = 0] IN
        g \in Job /\ g.run = jobs[n].run /\ g.seq = jobs[n].seq
        /\ g.delivered = jobs[n].delivered /\ g.state = "discarded"
    BY <1>2, JobGone
  <2> QED BY <1>2, <1>3, <2>1
<1>6. kept \in [1..Len(jobs) -> Job]
  <2>1. kept = [n \in DOMAIN kept |-> kept[n]]
    <3>1. jobs = [n \in DOMAIN jobs |-> jobs[n]]
      BY <1>2 DEF JobsType
    <3> QED BY <3>1
  <2> HIDE DEF kept
  <2> QED BY <1>4, <1>5, <2>1
<1> HIDE DEF kept
<1>7. kept \in Seq(Job) /\ Len(kept) = Len(jobs)
  BY <1>2, <1>6
<1>8. new \in Job
  BY WorkDemoAssumption DEF Job
<1>9. new.run = run /\ new.seq = s /\ new.delivered = 0
  OBVIOUS
<1> HIDE DEF new
<1>10. /\ jobs' \in Seq(Job) /\ Len(jobs') = Len(jobs) + 1
       /\ \A n \in 1..Len(jobs) : jobs'[n] = kept[n]
       /\ jobs'[Len(jobs) + 1] = new
  BY <1>1, <1>7, <1>8, AppendProperties
<1>11. <<run, s>> \in Ids(jobs')
  <2>1. Len(jobs) + 1 \in DOMAIN jobs'
    BY <1>2, <1>10
  <2> QED BY <1>9, <1>10, <2>1 DEF Ids
<1>12. Len(jobs') <= MaxJobs
  BY <1>1, <1>2, <1>10, WorkDemoAssumption
<1>13. SameJobs(jobs, jobs')
  <2>1. \A n \in 1..Len(jobs) : jobs[n].delivered <= jobs'[n].delivered
    <3> SUFFICES ASSUME NEW n \in 1..Len(jobs) PROVE jobs[n].delivered <= jobs'[n].delivered
      OBVIOUS
    <3>1. jobs[n].delivered \in Nat
      BY <1>2, JobFields
    <3> QED BY <1>5, <1>10, <3>1
  <2> QED BY <1>2, <1>5, <1>10, <2>1 DEF SameJobs
<1> QED BY <1>5, <1>9, <1>10, <1>11, <1>12, <1>13

\* Storing a message disturbs no worker.
LEMMA StoringIsQuiet ==
    ASSUME IInv, NEW kind \in Kind, NEW s \in 0..MaxSeq, Store(kind, s), UNCHANGED <<worker, stalled>>
    PROVE  /\ WorkType' /\ DelayInv' /\ BusyInv'
           /\ events' = events => JobsType'
           /\ <<run, s>> \in Ids(jobs') /\ Ids(jobs) \subseteq Ids(jobs')
<1>1. /\ jobs' \in Seq(Job) /\ Len(jobs') <= MaxJobs /\ SameJobs(jobs, jobs')
      /\ <<run, s>> \in Ids(jobs')
      /\ \A n \in 1..Len(jobs) : jobs'[n].state = "stored" => jobs'[n].due = jobs[n].due
  BY Storing DEF IInv, PubType
<1>2. DelayInv'
  BY DEF IInv, DelayInv
<1>3. BusyInv'
  <2>1. \A w \in Worker : Busy(w) => worker[w].msg \in 1..Len(jobs)
    BY JobsAre DEF IInv, WorkType
  <2>2. \A w \in Worker : Busy(w) /\ jobs'[worker[w].msg].state = "stored" =>
          jobs[worker[w].msg].state = "stored" /\ jobs'[worker[w].msg].due = jobs[worker[w].msg].due
    BY <1>1, <2>1 DEF SameJobs
  <2> QED BY <2>2 DEF IInv, BusyInv, Busy
<1> QED BY <1>1, <1>2, <1>3, Staying DEF IInv

\* NewJob gives a known kind.
LEMMA KindsAreKnown == \A s \in Nat \ {0} : KindFor(s) \in Kind
<1> TAKE s \in Nat \ {0}
<1>1. Len(Kinds) \in Nat \ {0} /\ DOMAIN Kinds = 1..Len(Kinds)
  BY WorkDemoAssumption
<1>2. PICK n \in Nat \ {0} : n = Len(Kinds)
  BY <1>1
<1>3. ((s - 1) % n) + 1 \in 1..n
  BY <1>2
<1> QED BY <1>1, <1>2, <1>3 DEF KindFor, Kind

\* What the publisher and other clients do leaves the workers alone.
LEMMA PublisherSteps ==
    ASSUME IInv,
           PublisherRestart \/ PublisherTick \/ PublishJob \/ PublishEvent \/ PutInvalid
    PROVE  IInv'
<1>1. /\ pub \in {"idle", "job", "event"} /\ run \in 1..MaxRuns /\ seq \in 0..MaxSeq
      /\ left \in 0..BurstSize
      /\ faults \in 0..MaxFaults /\ stalled \in BOOLEAN
      /\ BurstSize \in Nat \ {0} /\ MaxSeq \in Nat /\ MaxRuns \in Nat
  BY WorkDemoAssumption DEF IInv, PubType
<1>2. ASSUME UNCHANGED <<jobs, events, worker, faults, stalled>>
      PROVE  JobsType' /\ WorkType' /\ DelayInv' /\ BusyInv'
  BY <1>2 DEF IInv, JobsType, Ids, WorkType, DelayInv, BusyInv, Busy
<1>3. CASE PublisherRestart
  <2>1. PubType' /\ PubInv'
    BY <1>1, <1>3 DEF PublisherRestart, PubType, PubInv, faultVars
  <2> QED BY <1>2, <1>3, <2>1 DEF PublisherRestart, faultVars, IInv
<1>4. CASE PublisherTick
  <2>1. PubType' /\ PubInv'
    BY <1>1, <1>4 DEF PublisherTick, PubType, PubInv, faultVars
  <2> QED BY <1>2, <1>4, <2>1 DEF PublisherTick, faultVars, IInv
<1>5. CASE PublishJob
  <2>1. /\ pub = "job" /\ seq' = seq + 1 /\ seq' \in 0..MaxSeq /\ seq' \in Nat \ {0}
        /\ UNCHANGED <<run, events, worker, faults, stalled>> /\ left > 0
    BY <1>1, <1>5 DEF PublishJob, Room, faultVars, IInv, PubInv
  <2>2. KindFor(seq') \in Kind
    BY <2>1, KindsAreKnown
  <2>3. NextJob => PubType' /\ PubInv'
    BY <1>1, <2>1 DEF NextJob, PubType, PubInv
  <2>4. Store(KindFor(seq'), seq') \/ UNCHANGED jobs
    BY <1>5 DEF PublishJob
  <2>5. JobsType' /\ WorkType' /\ DelayInv' /\ BusyInv'
    BY <1>2, <2>1, <2>2, <2>4, StoringIsQuiet
  <2>6. PubType' /\ PubInv'
    <3>1. CASE NextJob
      BY <2>3, <3>1
    <3>2. CASE Store(KindFor(seq'), seq') /\ pub' = "event" /\ UNCHANGED left
      <4>1. <<run, seq'>> \in Ids(jobs')
        BY <2>1, <2>2, <3>2, StoringIsQuiet
      <4> QED BY <1>1, <2>1, <3>2, <4>1 DEF PubType, PubInv, Ids
    <3> QED BY <1>5, <3>1, <3>2 DEF PublishJob
  <2> QED BY <2>5, <2>6 DEF IInv
<1>6. CASE PublishEvent
  <2>1. /\ pub = "event" /\ NextJob /\ events' \in {events, Append(events, <<run, seq>>)}
        /\ UNCHANGED <<run, seq, jobs, worker, faults, stalled>> /\ left > 0
        /\ <<run, seq>> \in Ids(jobs)
    BY <1>6 DEF PublishEvent, faultVars, IInv, PubInv
  <2>2. PubType' /\ PubInv'
    BY <1>1, <2>1 DEF NextJob, PubType, PubInv
  <2>3. JobsType'
    <3>1. events \in Seq(Ids(jobs))
      BY DEF IInv, JobsType
    <3>2. events' \in Seq(Ids(jobs))
      BY <2>1, <3>1, AppendProperties
    <3> QED BY <2>1, <3>2 DEF IInv, JobsType, Ids
  <2> QED BY <2>1, <2>2, <2>3 DEF IInv, WorkType, DelayInv, BusyInv, Busy
<1>7. CASE PutInvalid
  <2>1. PICK kind \in Kind : Store(kind, 0)
    BY <1>7 DEF PutInvalid
  <2>2. UNCHANGED <<worker, pub, run, seq, left, events, faults, stalled>> /\ 0 \in 0..MaxSeq
    BY <1>1, <1>7 DEF PutInvalid, pubVars, faultVars
  <2>3. /\ JobsType' /\ WorkType' /\ DelayInv' /\ BusyInv' /\ Ids(jobs) \subseteq Ids(jobs')
    BY <2>1, <2>2, StoringIsQuiet
  <2>4. PubType' /\ PubInv'
    BY <1>1, <2>2, <2>3 DEF IInv, PubType, PubInv, Ids
  <2> QED BY <2>3, <2>4 DEF IInv
<1> QED BY <1>3, <1>4, <1>5, <1>6, <1>7

\* The invariant holds when the containers start.
LEMMA InitIInv == Init => IInv
<1> SUFFICES ASSUME Init PROVE IInv
  OBVIOUS
<1>1. Down \in WorkerState /\ Down.pc = "down" /\ Down.delay = 0
  BY DEF Down, Idle, WorkerState
<1>2. worker \in [Worker -> WorkerState] /\ \A w \in Worker : worker[w].pc = "down" /\ worker[w].delay = 0
  BY <1>1 DEF Init
<1>3. WorkType /\ DelayInv /\ BusyInv
  BY <1>2, WorkDemoAssumption DEF WorkType, DelayInv, BusyInv, Busy
<1>4. PubType /\ PubInv
  <2>1. pub = "idle" /\ run = 1 /\ seq = 0 /\ left = 0 /\ faults = 0 /\ stalled = FALSE
    BY DEF Init
  <2>2. 1 \in 1..MaxRuns /\ 0 \in 0..MaxSeq /\ 0 \in 0..BurstSize /\ 0 \in 0..MaxFaults
    BY WorkDemoAssumption
  <2> QED BY <2>1, <2>2 DEF PubType, PubInv
<1>5. JobsType
  BY EmptySeq, WorkDemoAssumption DEF Init, JobsType
<1> QED BY <1>3, <1>4, <1>5 DEF IInv

\* Another fault.
LEMMA Faulting ==
    ASSUME PubType, Fault \/ UNCHANGED faults
    PROVE  faults' \in 0..MaxFaults
BY WorkDemoAssumption DEF PubType, Fault

\* A worker's fields.
LEMMA WorkerFields ==
    ASSUME WorkType, NEW w \in Worker
    PROVE  /\ worker[w] \in WorkerState /\ worker[w].msg \in Nat /\ worker[w].attempt \in Nat
           /\ worker[w].left \in Nat /\ worker[w].delay \in Nat
BY DEF WorkType, WorkerState

\* Time brings a worker as much nearer to its answer as the server to the next delivery.
LEMMA TickStep ==
    ASSUME IInv, Tick
    PROVE  IInv'
<1>1. /\ jobs' = [n \in DOMAIN jobs |-> [jobs[n] EXCEPT !.due = Minus1(@)]]
      /\ worker' = [w \in Worker |-> [worker[w] EXCEPT !.left = Minus1(@)]]
      /\ UNCHANGED <<pub, run, seq, left, events>>
  BY DEF Tick, pubVars
<1>2. /\ faults' \in 0..MaxFaults /\ stalled' \in BOOLEAN
      /\ ~stalled' => ~stalled /\ ~Overdue
  BY Faulting DEF Tick, faultVars, IInv, PubType
<1>3. DOMAIN jobs = 1..Len(jobs) /\ Len(jobs) \in Nat /\ \A n \in 1..Len(jobs) : jobs[n] \in Job
  BY JobsAre DEF IInv
<1>4. \A t \in 0..AckWait : Minus1(t) \in 0..AckWait /\ (t # 0 => Minus1(t) = t - 1)
  BY WorkDemoAssumption DEF Minus1
<1>5. ASSUME NEW n \in 1..Len(jobs)
      PROVE  /\ jobs'[n] \in Job /\ jobs'[n].due = Minus1(jobs[n].due)
             /\ jobs'[n].run = jobs[n].run /\ jobs'[n].seq = jobs[n].seq
             /\ jobs'[n].delivered = jobs[n].delivered /\ jobs'[n].state = jobs[n].state
  <2>1. jobs[n] \in Job /\ jobs[n].due \in 0..AckWait
    BY <1>3, JobFields
  <2>2. jobs'[n] = [jobs[n] EXCEPT !.due = Minus1(jobs[n].due)]
    BY <1>1, <1>3
  <2>3. Minus1(jobs[n].due) \in 0..AckWait
    BY <1>4, <2>1
  <2> QED BY <2>1, <2>2, <2>3, JobDue
<1>6. jobs' \in Seq(Job) /\ Len(jobs') = Len(jobs) /\ SameJobs(jobs, jobs')
  <2>1. jobs' \in [1..Len(jobs) -> Job]
    BY <1>1, <1>3, <1>5
  <2>2. \A n \in 1..Len(jobs) : jobs[n].delivered \in Nat
    BY <1>3, JobFields
  <2> QED BY <1>3, <1>5, <2>1, <2>2 DEF SameJobs
<1>7. ASSUME NEW w \in Worker
      PROVE  /\ worker'[w] \in WorkerState /\ worker'[w].left = Minus1(worker[w].left)
             /\ worker'[w].pc = worker[w].pc /\ worker'[w].msg = worker[w].msg
             /\ worker'[w].attempt = worker[w].attempt /\ worker'[w].delay = worker[w].delay
  <2>1. worker[w] \in WorkerState /\ Minus1(worker[w].left) \in Nat
    BY WorkerFields DEF IInv, Minus1
  <2> QED BY <1>1, <2>1 DEF WorkerState
<1>8. PubType' /\ JobsType' /\ PubInv' /\ DelayInv'
  <2>1. JobsType' /\ Ids(jobs) \subseteq Ids(jobs')
    BY <1>1, <1>6, Staying DEF IInv, JobsType
  <2>2. PubType' /\ PubInv'
    BY <1>1, <1>2, <2>1 DEF IInv, PubType, PubInv, Ids
  <2> QED BY <1>7, <2>1, <2>2 DEF IInv, DelayInv
<1>9. \A w \in Worker : Busy(w) => worker[w].msg \in 1..Len(jobs)
  BY <1>3 DEF IInv, WorkType
<1>10. WorkType'
  <2>1. worker' \in [Worker -> WorkerState]
    BY <1>1, <1>7
  <2>2. DOMAIN jobs' = 1..Len(jobs)
    BY <1>1, <1>3
  <2>3. ASSUME NEW w \in Worker, Busy(w)
        PROVE  worker[w].msg \in DOMAIN jobs' /\ worker[w].attempt \in 1..jobs'[worker[w].msg].delivered
    <3>1. worker[w].attempt \in 1..jobs[worker[w].msg].delivered
      BY <2>3 DEF IInv, WorkType
    <3> QED BY <1>5, <1>9, <2>2, <2>3, <3>1
  <2> QED BY <1>7, <2>1, <2>3 DEF WorkType, Busy
<1>11. BusyInv'
  <2> SUFFICES ASSUME ~stalled'
               PROVE  /\ \A w \in Worker : Busy(w) /\ jobs'[worker[w].msg].state = "stored" =>
                           worker'[w].left < jobs'[worker[w].msg].due
                      /\ \A w, v \in Worker : Busy(w) /\ Busy(v) /\ w # v => worker[w].msg # worker[v].msg
    BY <1>7 DEF BusyInv, Busy
  <2>1. ~stalled /\ ~Overdue
    BY <1>2
  <2>2. ASSUME NEW w \in Worker, Busy(w), jobs'[worker[w].msg].state = "stored"
        PROVE  worker'[w].left < jobs'[worker[w].msg].due
    <3>1. worker[w].msg \in 1..Len(jobs)
      BY <1>9, <2>2
    <3>2. worker[w].left < jobs[worker[w].msg].due /\ jobs[worker[w].msg].due \in Nat
      <4>1. jobs[worker[w].msg].state = "stored"
        BY <1>5, <2>2, <3>1
      <4>2. jobs[worker[w].msg].due \in Nat
        BY <1>3, <3>1, JobFields
      <4> QED BY <2>1, <2>2, <4>1, <4>2 DEF IInv, BusyInv
    <3>3. worker[w].left \in Nat /\ worker[w].left # 0
      BY <2>1, <2>2, WorkerFields DEF IInv, Overdue, Busy
    <3>4. worker'[w].left = worker[w].left - 1 /\ jobs'[worker[w].msg].due = jobs[worker[w].msg].due - 1
      <4>1. worker'[w].left = Minus1(worker[w].left)
            /\ jobs'[worker[w].msg].due = Minus1(jobs[worker[w].msg].due)
        BY <1>5, <1>7, <3>1
      <4> QED BY <3>2, <3>3, <4>1 DEF Minus1
    <3> QED BY <3>2, <3>3, <3>4
  <2>3. \A w, v \in Worker : Busy(w) /\ Busy(v) /\ w # v => worker[w].msg # worker[v].msg
    BY <2>1 DEF IInv, BusyInv
  <2> QED BY <2>2, <2>3
<1> QED BY <1>8, <1>10, <1>11 DEF IInv

\* One job is changed, and it stays.
LEMMA OneChange ==
    ASSUME JobsType, NEW n \in 1..Len(jobs), NEW j \in Job, jobs' = [jobs EXCEPT ![n] = j],
           j.run = jobs[n].run, j.seq = jobs[n].seq, jobs[n].delivered <= j.delivered,
           j.state = "stored" => jobs[n].state = "stored"
    PROVE  /\ jobs' \in Seq(Job) /\ Len(jobs') = Len(jobs) /\ SameJobs(jobs, jobs')
           /\ jobs'[n] = j /\ \A m \in 1..Len(jobs) \ {n} : jobs'[m] = jobs[m]
<1>1. DOMAIN jobs = 1..Len(jobs) /\ Len(jobs) \in Nat /\ \A m \in 1..Len(jobs) : jobs[m] \in Job
  BY JobsAre
<1>2. /\ jobs' \in Seq(Job) /\ Len(jobs') = Len(jobs)
      /\ \A m \in 1..Len(jobs) : jobs'[m] = IF m = n THEN j ELSE jobs[m]
  <2>1. jobs \in Seq(Job)
    BY DEF JobsType
  <2> QED BY <2>1, ExceptSeq
<1>3. \A m \in 1..Len(jobs) : jobs[m].delivered \in Nat
  BY <1>1, JobFields
<1>4. SameJobs(jobs, jobs')
  BY <1>1, <1>2, <1>3 DEF SameJobs
<1> QED BY <1>2, <1>4

\* A worker that starts or ends holds nothing.
LEMMA StartStep ==
    ASSUME IInv, NEW w \in Worker, WorkerStart(w) \/ WorkerEnds(w)
    PROVE  IInv'
<1>1. UNCHANGED <<jobs, pub, run, seq, left, events, stalled>> /\ faults' \in 0..MaxFaults
  BY Faulting DEF WorkerStart, WorkerEnds, pubVars, faultVars, IInv, PubType
<1>2. PICK x : /\ worker' = [worker EXCEPT ![w] = x] /\ x \in WorkerState
               /\ x.pc # "busy" /\ x.delay < AckWait
  <2>1. CASE WorkerStart(w)
    <3>1. PICK d \in Delays : d < AckWait /\ worker' = [worker EXCEPT ![w] = [Idle EXCEPT !.delay = d]]
      BY <2>1 DEF WorkerStart
    <3>2. d \in Nat
      BY WorkDemoAssumption
    <3>3. LET x == [Idle EXCEPT !.delay = d] IN
          x \in WorkerState /\ x.pc # "busy" /\ x.delay < AckWait
      BY <3>1, <3>2 DEF Idle, WorkerState
    <3> QED BY <3>1, <3>3
  <2>2. CASE WorkerEnds(w)
    <3>1. worker' = [worker EXCEPT ![w] = Down]
      BY <2>2 DEF WorkerEnds
    <3>2. Down \in WorkerState /\ Down.pc # "busy" /\ Down.delay < AckWait
      BY WorkDemoAssumption DEF Down, Idle, WorkerState
    <3> QED BY <3>1, <3>2
  <2> QED BY <2>1, <2>2
<1>3. /\ worker' \in [Worker -> WorkerState] /\ worker'[w] = x
      /\ \A v \in Worker \ {w} : worker'[v] = worker[v]
  BY <1>2 DEF IInv, WorkType
<1>4. \A v \in Worker : worker'[v].pc = "busy" => Busy(v) /\ worker'[v] = worker[v]
  BY <1>2, <1>3 DEF Busy
<1>5. WorkType'
  BY <1>1, <1>3, <1>4 DEF IInv, WorkType, Busy
<1>6. DelayInv'
  BY <1>2, <1>3 DEF IInv, DelayInv
<1>7. BusyInv'
  BY <1>1, <1>4 DEF IInv, BusyInv, Busy
<1>8. PubType' /\ PubInv' /\ JobsType'
  BY <1>1 DEF IInv, PubType, PubInv, JobsType, Ids
<1> QED BY <1>5, <1>6, <1>7, <1>8 DEF IInv

\* A job is given to a worker when the server waits for no other one.
LEMMA FetchStep ==
    ASSUME IInv, NEW w \in Worker, Fetch(w)
    PROVE  IInv'
<1>1. UNCHANGED <<pub, run, seq, left, events, stalled>> /\ faults' \in 0..MaxFaults /\ worker[w].pc = "idle"
  BY Faulting DEF Fetch, pubVars, IInv, PubType
<1>2. PICK n \in DOMAIN jobs :
        /\ Deliverable(n, w)
        /\ jobs' = [jobs EXCEPT ![n].delivered = @ + 1, ![n].due = AckWait]
        /\ \/ worker' = [worker EXCEPT ![w].pc = "busy", ![w].msg = n, ![w].left = worker[w].delay,
                                      ![w].attempt = jobs[n].delivered + 1]
           \/ UNCHANGED worker
  BY DEF Fetch
<1> DEFINE j == [jobs[n] EXCEPT !.delivered = @ + 1, !.due = AckWait]
           x == [worker[w] EXCEPT !.pc = "busy", !.msg = n, !.left = worker[w].delay,
                                  !.attempt = jobs[n].delivered + 1]
<1>3. /\ n \in 1..Len(jobs) /\ jobs[n] \in Job /\ jobs[n].delivered \in Nat
      /\ jobs[n].state = "stored" /\ jobs[n].due = 0 /\ jobs[n].delivered < MaxDeliver
  BY <1>2, JobsAre, JobFields DEF IInv, Deliverable, Stored
<1>4. /\ j \in Job /\ j.due = AckWait /\ j.run = jobs[n].run /\ j.seq = jobs[n].seq
      /\ j.delivered = jobs[n].delivered + 1
      /\ j.state = jobs[n].state
  BY <1>3, JobDelivered
<1>5. jobs' = [jobs EXCEPT ![n] = j]
  BY <1>2
<1> HIDE DEF j
<1>6. /\ jobs' \in Seq(Job) /\ Len(jobs') = Len(jobs) /\ SameJobs(jobs, jobs')
      /\ jobs'[n] = j /\ \A m \in 1..Len(jobs) \ {n} : jobs'[m] = jobs[m]
  <2>1. JobsType /\ jobs[n].delivered <= j.delivered
    BY <1>3, <1>4 DEF IInv
  <2>2. j \in Job /\ j.run = jobs[n].run /\ j.seq = jobs[n].seq
        /\ (j.state = "stored" => jobs[n].state = "stored")
    BY <1>4
  <2> QED BY ONLY <1>3, <1>5, <2>1, <2>2, OneChange
<1>7. /\ Ids(jobs) \subseteq Ids(jobs') /\ JobsType' /\ (worker' = worker => WorkType')
      /\ DOMAIN jobs' = 1..Len(jobs)
  <2>1. Len(jobs') <= MaxJobs
    BY <1>6 DEF IInv, JobsType
  <2> QED BY <1>1, <1>6, <2>1, Staying, LenProperties DEF IInv
<1>8. PubType' /\ PubInv'
  BY <1>1, <1>7 DEF IInv, PubType, PubInv, Ids
<1>9. \A v \in Worker : Busy(v) => worker[v].msg \in 1..Len(jobs)
  BY JobsAre DEF IInv, WorkType
<1>10. ASSUME ~stalled, NEW v \in Worker, Busy(v) PROVE worker[v].msg # n
  <2>1. worker[v].left \in Nat
    BY WorkerFields DEF IInv
  <2>2. worker[v].msg = n => worker[v].left < 0
    BY <1>3, <1>10 DEF IInv, BusyInv
  <2> QED BY <2>1, <2>2
<1>11. CASE UNCHANGED worker
  <2>1. DelayInv' /\ WorkType'
    BY <1>7, <1>11 DEF IInv, DelayInv
  <2>2. BusyInv'
    BY <1>1, <1>6, <1>9, <1>10, <1>11 DEF IInv, BusyInv, Busy
  <2> QED BY <1>7, <1>8, <2>1, <2>2 DEF IInv
<1>12. CASE worker' = [worker EXCEPT ![w] = x]
  <2>1. /\ x \in WorkerState /\ x.msg = n /\ x.left = worker[w].delay /\ x.delay = worker[w].delay
        /\ x.attempt = jobs[n].delivered + 1 /\ x.pc = "busy"
    <3>1. worker[w] \in WorkerState /\ worker[w].delay \in Nat /\ jobs[n].delivered + 1 \in Nat /\ n \in Nat
      BY <1>3, WorkerFields DEF IInv
    <3> QED BY <3>1 DEF WorkerState
  <2> HIDE DEF x
  <2>2. /\ worker' \in [Worker -> WorkerState] /\ worker'[w] = x
        /\ \A v \in Worker \ {w} : worker'[v] = worker[v]
    BY <1>12, <2>1 DEF IInv, WorkType
  <2>3. DelayInv'
    BY <2>1, <2>2 DEF IInv, DelayInv
  <2>4. ASSUME NEW v \in Worker, worker'[v].pc = "busy"
        PROVE  worker'[v].msg \in DOMAIN jobs' /\ worker'[v].attempt \in 1..jobs'[worker'[v].msg].delivered
    <3>1. CASE v = w
      <4>1. worker'[v].msg = n /\ worker'[v].attempt = jobs[n].delivered + 1
            /\ jobs'[n].delivered = jobs[n].delivered + 1
        BY <1>4, <1>6, <2>1, <2>2, <3>1
      <4> QED BY <1>3, <1>7, <4>1
    <3>2. CASE v # w
      <4>1. worker'[v] = worker[v] /\ Busy(v)
        BY <2>2, <2>4, <3>2 DEF Busy
      <4>2. worker[v].msg \in 1..Len(jobs) /\ worker[v].attempt \in 1..jobs[worker[v].msg].delivered
        BY <1>9, <4>1 DEF IInv, WorkType
      <4>3. jobs[worker[v].msg].delivered <= jobs'[worker[v].msg].delivered
        BY <1>6, <4>2 DEF SameJobs
      <4>4. jobs'[worker[v].msg].delivered \in Nat /\ jobs[worker[v].msg].delivered \in Nat
        <5>1. jobs[worker[v].msg] \in Job
          BY <4>2, JobsAre DEF IInv
        <5>2. jobs'[worker[v].msg] \in Job
          BY <1>6, <4>2, ElementOfSeq
        <5> QED BY <5>1, <5>2, JobFields
      <4> QED BY <1>7, <4>1, <4>2, <4>3, <4>4
    <3> QED BY <3>1, <3>2
  <2>5. WorkType'
    BY <2>2, <2>4 DEF WorkType, Busy
  <2>6. BusyInv'
    <3> SUFFICES ASSUME ~stalled
                 PROVE  /\ \A v \in Worker : worker'[v].pc = "busy" /\ jobs'[worker'[v].msg].state = "stored" =>
                             worker'[v].left < jobs'[worker'[v].msg].due
                        /\ \A u, v \in Worker : worker'[u].pc = "busy" /\ worker'[v].pc = "busy" /\ u # v =>
                             worker'[u].msg # worker'[v].msg
      BY <1>1 DEF BusyInv, Busy
    <3>1. worker'[w].msg = n /\ worker'[w].left < jobs'[n].due
      BY <1>4, <1>6, <2>1, <2>2 DEF IInv, DelayInv
    <3>2. \A v \in Worker \ {w} : worker'[v].pc = "busy" =>
            /\ Busy(v) /\ worker'[v] = worker[v]
            /\ worker[v].msg # n /\ jobs'[worker[v].msg] = jobs[worker[v].msg]
      BY <1>6, <1>9, <1>10, <2>2 DEF Busy
    <3> QED BY <3>1, <3>2 DEF IInv, BusyInv
  <2> QED BY <1>7, <1>8, <2>3, <2>5, <2>6 DEF IInv
<1>13. UNCHANGED worker \/ worker' = [worker EXCEPT ![w] = x]
  BY <1>2
<1> QED BY <1>11, <1>12, <1>13

\* A settled job is gone, or given back, or left as it is when the answer is lost.
LEMMA Settling ==
    ASSUME IInv, NEW w \in Worker, Settle(w)
    PROVE  \E j \in Job :
             /\ jobs' = [jobs EXCEPT ![worker[w].msg] = j]
             /\ j.run = jobs[worker[w].msg].run /\ j.seq = jobs[worker[w].msg].seq
             /\ j.delivered = jobs[worker[w].msg].delivered
             /\ j.state = "stored" => jobs[worker[w].msg].state = "stored"
<1> DEFINE n == worker[w].msg
<1>1. n \in 1..Len(jobs) /\ jobs[n] \in Job /\ jobs \in Seq(Job) /\ jobs[n].due \in 0..AckWait
  <2>1. Busy(w)
    BY DEF Settle, Busy
  <2>2. n \in 1..Len(jobs) /\ jobs[n] \in Job /\ jobs \in Seq(Job)
    BY <2>1, JobsAre DEF IInv, WorkType, JobsType
  <2> QED BY <2>2, JobFields
<1>2. \/ \E how \in {"acknowledged", "terminated"} : Remove(w, how)
      \/ Postpone(w) \/ UNCHANGED jobs
  BY DEF Settle
<1>3. CASE \E how \in {"acknowledged", "terminated"} : Remove(w, how)
  <2>1. PICK how \in {"acknowledged", "terminated"} : Remove(w, how)
    BY <1>3
  <2>2. CASE jobs[n].state = "stored"
    <3> DEFINE j == [jobs[n] EXCEPT !.state = how, !.due = 0]
    <3>1. jobs' = [jobs EXCEPT ![n] = j]
      BY <2>1, <2>2 DEF Remove
    <3>2. j \in Job /\ j.run = jobs[n].run /\ j.seq = jobs[n].seq /\ j.delivered = jobs[n].delivered
      <4>1. how \in {"acknowledged", "terminated", "discarded"}
        OBVIOUS
      <4>2. jobs[n] \in Job
        BY <1>1
      <4>3. 0 \in 0..AckWait
        BY WorkDemoAssumption
      <4> DEFINE was == jobs[n]
      <4>4. was \in Job
        BY <4>2
      <4> HIDE DEF was
      <4>5. LET g == [was EXCEPT !.state = how, !.due = 0] IN
            g \in Job /\ g.run = was.run /\ g.seq = was.seq /\ g.delivered = was.delivered
        BY ONLY <4>1, <4>3, <4>4 DEF Job
      <4> QED BY <4>5 DEF was
    <3> QED BY <2>2, <3>1, <3>2
  <2>3. CASE jobs[n].state # "stored"
    <3> DEFINE j == [jobs[n] EXCEPT !.due = 0]
    <3>1. jobs' = [jobs EXCEPT ![n] = j]
      <4>1. jobs' = [jobs EXCEPT ![n] = [jobs[n] EXCEPT !.state = jobs[n].state, !.due = 0]]
        BY <2>1, <2>3 DEF Remove
      <4>2. [jobs[n] EXCEPT !.state = jobs[n].state, !.due = 0] = j
        BY <1>1 DEF Job
      <4> QED BY <4>1, <4>2
    <3>2. /\ j \in Job /\ j.run = jobs[n].run /\ j.seq = jobs[n].seq /\ j.delivered = jobs[n].delivered
          /\ j.state = jobs[n].state
      <4>1. 0 \in 0..AckWait
        BY WorkDemoAssumption
      <4> QED BY <1>1, <4>1, JobDue
    <3> QED BY <3>1, <3>2
  <2> QED BY <2>2, <2>3
<1>4. CASE Postpone(w)
  <2> DEFINE d == IF jobs[n].state = "stored" THEN NakDelay ELSE jobs[n].due
             j == [jobs[n] EXCEPT !.due = d]
  <2>1. d \in 0..AckWait
    BY <1>1, WorkDemoAssumption
  <2>2. jobs' = [jobs EXCEPT ![n] = j]
    BY <1>4 DEF Postpone
  <2> HIDE DEF d
  <2>3. /\ j \in Job /\ j.run = jobs[n].run /\ j.seq = jobs[n].seq /\ j.delivered = jobs[n].delivered
        /\ j.state = jobs[n].state
    BY <1>1, <2>1, JobDue
  <2> QED BY <2>2, <2>3
<1>5. CASE UNCHANGED jobs
  <2>1. jobs' = [jobs EXCEPT ![n] = jobs[n]]
    BY <1>1, <1>5
  <2> QED BY <1>1, <2>1
<1> QED BY <1>2, <1>3, <1>4, <1>5

\* A worker settles the job that it alone holds.
LEMMA SettleStep ==
    ASSUME IInv, NEW w \in Worker, Settle(w)
    PROVE  IInv'
<1> DEFINE n == worker[w].msg
           x == [Idle EXCEPT !.delay = worker[w].delay]
<1>1. /\ UNCHANGED <<pub, run, seq, left, events, stalled>> /\ faults' \in 0..MaxFaults
      /\ Busy(w) /\ worker' = [worker EXCEPT ![w] = x]
  BY Faulting DEF Settle, Settled, pubVars, IInv, PubType, Busy
<1>2. /\ DOMAIN jobs = 1..Len(jobs) /\ n \in 1..Len(jobs) /\ jobs[n] \in Job
      /\ \A v \in Worker : Busy(v) => worker[v].msg \in 1..Len(jobs)
  BY <1>1, JobsAre DEF IInv, WorkType
<1>3. x \in WorkerState /\ x.pc # "busy" /\ x.delay = worker[w].delay
  BY WorkerFields DEF IInv, Idle, WorkerState
<1> HIDE DEF x
<1>4. /\ worker' \in [Worker -> WorkerState] /\ worker'[w] = x
      /\ \A v \in Worker \ {w} : worker'[v] = worker[v]
  BY <1>1, <1>3 DEF IInv, WorkType
<1>5. PICK j \in Job :
        /\ jobs' = [jobs EXCEPT ![n] = j] /\ j.run = jobs[n].run /\ j.seq = jobs[n].seq
        /\ j.delivered = jobs[n].delivered
        /\ j.state = "stored" => jobs[n].state = "stored"
  BY Settling
<1>6. /\ jobs' \in Seq(Job) /\ Len(jobs') = Len(jobs) /\ SameJobs(jobs, jobs')
      /\ \A m \in 1..Len(jobs) \ {n} : jobs'[m] = jobs[m]
      /\ \A m \in 1..Len(jobs) : jobs'[m].delivered = jobs[m].delivered
  <2>1. jobs[n].delivered <= j.delivered
    BY <1>2, <1>5, JobFields
  <2>2. /\ jobs' \in Seq(Job) /\ Len(jobs') = Len(jobs) /\ SameJobs(jobs, jobs')
        /\ jobs'[n] = j /\ \A m \in 1..Len(jobs) \ {n} : jobs'[m] = jobs[m]
    <3>1. JobsType
      BY DEF IInv
    <3> QED BY ONLY <1>2, <1>5, <2>1, <3>1, OneChange
  <2> QED BY <1>5, <2>2
<1>7. Ids(jobs) \subseteq Ids(jobs') /\ JobsType' /\ DOMAIN jobs' = 1..Len(jobs)
  <2>1. Len(jobs') <= MaxJobs
    BY <1>6 DEF IInv, JobsType
  <2> QED BY <1>1, <1>6, <2>1, Staying, LenProperties DEF IInv
<1>8. PubType' /\ PubInv'
  BY <1>1, <1>7 DEF IInv, PubType, PubInv, Ids
<1>9. \A v \in Worker : worker'[v].pc = "busy" => v # w /\ Busy(v) /\ worker'[v] = worker[v]
  BY <1>3, <1>4 DEF Busy
<1>10. WorkType'
  <2>1. \A v \in Worker : Busy(v) => /\ worker[v].msg \in DOMAIN jobs'
                                    /\ worker[v].attempt \in 1..jobs'[worker[v].msg].delivered
    BY <1>2, <1>6, <1>7 DEF IInv, WorkType
  <2> QED BY <1>4, <1>9, <2>1 DEF WorkType, Busy
<1>11. DelayInv'
  BY <1>3, <1>4 DEF IInv, DelayInv
<1>12. BusyInv'
  <2> SUFFICES ASSUME ~stalled
               PROVE  /\ \A v \in Worker : worker'[v].pc = "busy" /\ jobs'[worker'[v].msg].state = "stored" =>
                           worker'[v].left < jobs'[worker'[v].msg].due
                      /\ \A u, v \in Worker : worker'[u].pc = "busy" /\ worker'[v].pc = "busy" /\ u # v =>
                           worker'[u].msg # worker'[v].msg
    BY <1>1 DEF BusyInv, Busy
  <2>1. \A v \in Worker : v # w /\ Busy(v) => worker[v].msg # n
    BY <1>1 DEF IInv, BusyInv
  <2>2. \A v \in Worker : worker'[v].pc = "busy" =>
          /\ Busy(v) /\ worker'[v] = worker[v] /\ jobs'[worker[v].msg] = jobs[worker[v].msg]
    BY <1>2, <1>6, <1>9, <2>1
  <2> QED BY <2>2 DEF IInv, BusyInv
<1> QED BY <1>7, <1>8, <1>10, <1>11, <1>12 DEF IInv

\* The inductive invariant holds in every reachable state.
THEOREM WorkDemoInductive == Spec => []IInv
<1>1. IInv /\ [Next]_vars => IInv'
  <2> SUFFICES ASSUME IInv, [Next]_vars PROVE IInv'
    OBVIOUS
  <2>1. CASE Next
    BY <2>1, TickStep, PublisherSteps, StartStep, FetchStep, SettleStep DEF Next, Work
  <2>2. CASE UNCHANGED vars
    BY <2>2 DEF vars, IInv, PubType, JobsType, Ids, WorkType, PubInv, DelayInv, BusyInv, Busy
  <2> QED BY <2>1, <2>2
<1> QED BY <1>1, InitIInv, PTL DEF Spec

\* The publisher, the jobs, their events and the workers keep their types, and each busy
\* worker holds a delivery that the server has made.
THEOREM WorkDemoTypeCorrect == Spec => []TypeOK
<1>1. IInv => TypeOK
  BY TypeParts DEF IInv
<1> QED BY <1>1, WorkDemoInductive, PTL

\* Because PROCESS_DELAY is below AckWait, no job is worked on by two workers at once as long
\* as workers are scheduled in time, however many there are and whatever is lost.
THEOREM NoJobWorkedOnTwice == Spec => []OneWorkerAtATime
<1>1. IInv => OneWorkerAtATime
  BY DEF IInv, BusyInv, Busy, OneWorkerAtATime
<1> QED BY <1>1, WorkDemoInductive, PTL

--------------------------------------------------------------------------------
(* Deliveries: a job is given up only after as many failed attempts. *)

\* The workers that hold a delivery of message n.
Holders(wk, n) == {w \in Worker : wk[w].pc = "busy" /\ wk[w].msg = n}

\* The delivery of n that its first worker has given back, or may have given back.
GivenBack(wk, s, n) ==
    IF Outcome(s) = "nak-once" /\ ~\E w \in Holders(wk, n) : wk[w].attempt = 1 THEN 1 ELSE 0

\* No two workers hold the same delivery.
AttemptsInv ==
    \A w, v \in Worker :
        worker[w].pc = "busy" /\ worker[v].pc = "busy" /\ w # v /\ worker[w].msg = worker[v].msg =>
            worker[w].attempt # worker[v].attempt

\* Each delivery of a message that is still stored is held by a worker, has failed, or is the
\* one that was given back.
Accounted(n) ==
    jobs[n].state = "stored" =>
        jobs[n].delivered <= faults + Cardinality(Holders(worker, n))
                                    + GivenBack(worker, jobs[n].seq, n)

ChargeInv == \A n \in 1..Len(jobs) : Accounted(n)

LEMMA HoldersFinite ==
    ASSUME NEW wk, NEW n
    PROVE  IsFiniteSet(Holders(wk, n)) /\ Cardinality(Holders(wk, n)) \in Nat
BY WorkDemoAssumption, FS_Subset, FS_CardinalityType DEF Holders

LEMMA Numeric ==
    ASSUME IInv
    PROVE  /\ faults \in Nat /\ Len(jobs) \in Nat /\ DOMAIN jobs = 1..Len(jobs)
           /\ \A n \in 1..Len(jobs) : jobs[n] \in Job /\ jobs[n].delivered \in Nat
<1>1. faults \in Nat
  BY WorkDemoAssumption DEF IInv, PubType
<1> QED BY <1>1, JobsAre, JobFields DEF IInv

\* A step in which no worker takes or leaves a job, and every job keeps its deliveries.
LEMMA Undisturbed ==
    ASSUME IInv, IInv', AttemptsInv, ChargeInv, faults <= faults',
           \A w \in Worker : worker'[w].pc = "busy" <=> worker[w].pc = "busy",
           \A w \in Worker : worker[w].pc = "busy" =>
               worker'[w].msg = worker[w].msg /\ worker'[w].attempt = worker[w].attempt,
           \A n \in 1..Len(jobs') :
               \/ /\ n \in 1..Len(jobs) /\ jobs'[n].seq = jobs[n].seq
                  /\ jobs'[n].delivered = jobs[n].delivered
                  /\ jobs'[n].state = "stored" => jobs[n].state = "stored"
               \/ jobs'[n].delivered = 0
    PROVE  AttemptsInv' /\ ChargeInv'
<1>1. AttemptsInv'
  BY DEF AttemptsInv
<1>2. \A n : Holders(worker', n) = Holders(worker, n)
  BY DEF Holders
<1>3. \A s, n : GivenBack(worker', s, n) = GivenBack(worker, s, n) /\ GivenBack(worker, s, n) \in {0, 1}
  BY <1>2 DEF GivenBack, Holders
<1>4. faults \in Nat /\ faults' \in Nat
  BY Numeric, WorkDemoAssumption DEF IInv, PubType
<1>5. ASSUME NEW n \in 1..Len(jobs') PROVE Accounted(n)'
  <2> SUFFICES ASSUME jobs'[n].state = "stored"
               PROVE  jobs'[n].delivered <= faults' + Cardinality(Holders(worker, n))
                                                    + GivenBack(worker, jobs'[n].seq, n)
    BY <1>2, <1>3 DEF Accounted
  <2>1. Cardinality(Holders(worker, n)) \in Nat
    BY HoldersFinite
  <2>2. GivenBack(worker, jobs'[n].seq, n) \in {0, 1}
    BY <1>3
  <2>3. CASE /\ n \in 1..Len(jobs) /\ jobs'[n].seq = jobs[n].seq
             /\ jobs'[n].delivered = jobs[n].delivered /\ jobs[n].state = "stored"
    <3>1. jobs[n].delivered <= faults + Cardinality(Holders(worker, n))
                                      + GivenBack(worker, jobs[n].seq, n)
          /\ jobs[n].delivered \in Nat
      BY <2>3, Numeric DEF ChargeInv, Accounted
    <3> QED BY <1>4, <2>1, <2>2, <2>3, <3>1
  <2>4. CASE jobs'[n].delivered = 0
    BY <1>4, <2>1, <2>2, <2>4
  <2> QED BY <2>3, <2>4
<1> QED BY <1>1, <1>5 DEF ChargeInv

LEMMA QuietSteps ==
    ASSUME IInv, IInv', AttemptsInv, ChargeInv,
           PublisherRestart \/ PublisherTick \/ PublishJob \/ PublishEvent \/ PutInvalid \/ Tick
    PROVE  AttemptsInv' /\ ChargeInv'
<1>0. /\ Len(jobs) \in Nat /\ DOMAIN jobs = 1..Len(jobs)
      /\ \A n \in 1..Len(jobs) : jobs[n] \in Job
      /\ faults \in Nat
  BY Numeric
<1>1. CASE UNCHANGED <<jobs, worker, faults>>
  BY <1>0, <1>1, Undisturbed
<1>2. ASSUME NEW kind \in Kind, NEW s \in 0..MaxSeq, Store(kind, s), UNCHANGED <<worker, faults>>
      PROVE  AttemptsInv' /\ ChargeInv'
  <2>1. \A n \in 1..Len(jobs') :
          \/ /\ n \in 1..Len(jobs) /\ jobs'[n].seq = jobs[n].seq
             /\ jobs'[n].delivered = jobs[n].delivered
             /\ jobs'[n].state = "stored" => jobs[n].state = "stored"
          \/ jobs'[n].delivered = 0
    <3>1. JobsType /\ run \in 1..MaxRuns
      BY DEF IInv, PubType
    <3>2. /\ Len(jobs') = Len(jobs) + 1 /\ jobs'[Len(jobs) + 1].delivered = 0
          /\ SameJobs(jobs, jobs')
          /\ \A n \in 1..Len(jobs) : jobs'[n].delivered = jobs[n].delivered
      BY <1>2, <3>1, Storing
    <3> QED BY <1>0, <3>2 DEF SameJobs
  <2> QED BY <1>0, <1>2, <2>1, Undisturbed
<1>3. CASE Tick
  <2>1. /\ jobs' = [n \in DOMAIN jobs |-> [jobs[n] EXCEPT !.due = Minus1(@)]]
        /\ worker' = [w \in Worker |-> [worker[w] EXCEPT !.left = Minus1(@)]]
        /\ faults' \in {faults, faults + 1}
    BY <1>3 DEF Tick, Fault, faultVars
  <2>2. \A n \in 1..Len(jobs) : /\ jobs'[n].seq = jobs[n].seq
                                /\ jobs'[n].delivered = jobs[n].delivered
                                /\ jobs'[n].state = jobs[n].state
    <3> SUFFICES ASSUME NEW n \in 1..Len(jobs)
                 PROVE  /\ jobs'[n].seq = jobs[n].seq /\ jobs'[n].delivered = jobs[n].delivered
                        /\ jobs'[n].state = jobs[n].state
      OBVIOUS
    <3>1. jobs'[n] = [jobs[n] EXCEPT !.due = Minus1(jobs[n].due)] /\ jobs[n] \in Job
      BY <1>0, <2>1
    <3> QED BY <3>1 DEF Job
  <2>3. Len(jobs') = Len(jobs)
    <3>1. DOMAIN jobs' = 1..Len(jobs) /\ DOMAIN jobs' = 1..Len(jobs') /\ Len(jobs') \in Nat
      <4>1. DOMAIN jobs' = 1..Len(jobs)
        BY <1>0, <2>1
      <4>2. jobs' \in Seq(Job)
        BY DEF IInv, JobsType
      <4> QED BY <4>1, <4>2, LenProperties
    <3> QED BY <1>0, <3>1
  <2>4. \A w \in Worker : /\ worker'[w].pc = worker[w].pc /\ worker'[w].msg = worker[w].msg
                          /\ worker'[w].attempt = worker[w].attempt
    <3> SUFFICES ASSUME NEW w \in Worker
                 PROVE  /\ worker'[w].pc = worker[w].pc /\ worker'[w].msg = worker[w].msg
                        /\ worker'[w].attempt = worker[w].attempt
      OBVIOUS
    <3>1. worker[w] \in WorkerState
      BY WorkerFields DEF IInv
    <3> QED BY <2>1, <3>1 DEF WorkerState
  <2>5. faults <= faults'
    BY <1>0, <2>1
  <2> QED BY <2>2, <2>3, <2>4, <2>5, Undisturbed
<1>4. CASE PublishJob
  <2>1. seq' = seq + 1 /\ seq \in Nat /\ seq' \in 0..MaxSeq /\ seq' \in Nat \ {0}
        /\ UNCHANGED <<worker, faults>>
    BY <1>4, WorkDemoAssumption DEF PublishJob, Room, IInv, PubType, faultVars
  <2>2. Store(KindFor(seq'), seq') \/ UNCHANGED jobs
    BY <1>4 DEF PublishJob
  <2>3. KindFor(seq') \in Kind
    BY <2>1, KindsAreKnown
  <2> QED BY <1>1, <1>2, <2>1, <2>2, <2>3
<1>5. CASE PutInvalid
  <2>1. PICK kind \in Kind : Store(kind, 0)
    BY <1>5 DEF PutInvalid
  <2>2. 0 \in 0..MaxSeq /\ UNCHANGED <<worker, faults>>
    BY <1>5, WorkDemoAssumption DEF PutInvalid, faultVars
  <2> QED BY <1>2, <2>1, <2>2
<1>6. CASE PublisherRestart \/ PublisherTick \/ PublishEvent
  <2>1. UNCHANGED <<jobs, worker, faults>>
    BY <1>6 DEF PublisherRestart, PublisherTick, PublishEvent, faultVars
  <2> QED BY <1>1, <2>1
<1> QED BY <1>3, <1>4, <1>5, <1>6

\* A worker lets go of its job: that was a failed attempt, or the job is gone, or it is the
\* first attempt at a job that is given back once.
LEMMA Leaving ==
    ASSUME IInv, IInv', AttemptsInv, ChargeInv, NEW w \in Worker, Busy(w),
           NEW x, x.pc # "busy", worker' = [worker EXCEPT ![w] = x],
           Len(jobs') = Len(jobs),
           \A n \in 1..Len(jobs) :
               /\ jobs'[n].seq = jobs[n].seq /\ jobs'[n].delivered = jobs[n].delivered
               /\ jobs'[n].state = "stored" => jobs[n].state = "stored",
           \/ faults' = faults + 1
           \/ /\ faults' = faults
              /\ \/ jobs'[worker[w].msg].state # "stored"
                 \/ Outcome(jobs[worker[w].msg].seq) = "nak-once" /\ worker[w].attempt = 1
    PROVE  AttemptsInv' /\ ChargeInv'
<1>1. \A v \in Worker : worker'[v] = IF v = w THEN x ELSE worker[v]
  BY DEF IInv, WorkType
<1>2. AttemptsInv'
  BY <1>1 DEF AttemptsInv
<1>3. ASSUME NEW n \in 1..Len(jobs) PROVE Accounted(n)'
  <2> DEFINE H == Holders(worker, n)
             s == jobs[n].seq
  <2> SUFFICES ASSUME jobs'[n].state = "stored"
               PROVE  jobs[n].delivered <= faults' + Cardinality(Holders(worker', n))
                                                   + GivenBack(worker', s, n)
    BY DEF Accounted
  <2>1. /\ jobs[n].delivered <= faults + Cardinality(H) + GivenBack(worker, s, n)
        /\ jobs[n].delivered \in Nat /\ faults \in Nat
    BY Numeric DEF ChargeInv, Accounted
  <2>2. Cardinality(H) \in Nat /\ IsFiniteSet(H)
    BY HoldersFinite
  <2>3. CASE n # worker[w].msg
    <3>1. Holders(worker', n) = H
      BY <1>1, <2>3 DEF Holders
    <3>2. GivenBack(worker', s, n) = GivenBack(worker, s, n) /\ GivenBack(worker, s, n) \in {0, 1}
      BY <1>1, <2>3, <3>1 DEF GivenBack, Holders
    <3> HIDE DEF H, s
    <3> QED BY <2>1, <2>2, <3>1, <3>2
  <2>4. CASE n = worker[w].msg
    <3>1. Holders(worker', n) = H \ {w} /\ w \in H
      BY <1>1, <2>4 DEF Holders, Busy
    <3>2. Cardinality(Holders(worker', n)) = Cardinality(H) - 1
      <4> HIDE DEF H
      <4> QED BY <2>2, <3>1, FS_RemoveElement
    <3>3. GivenBack(worker, s, n) \in {0, 1} /\ GivenBack(worker', s, n) \in {0, 1}
      BY DEF GivenBack
    <3>4. GivenBack(worker, s, n) <= GivenBack(worker', s, n)
      <4>1. \A v \in Holders(worker', n) :
              v \in Holders(worker, n) /\ worker'[v].attempt = worker[v].attempt
        BY <1>1, <3>1 DEF Holders
      <4>2. CASE GivenBack(worker, s, n) = 1
        <5>1. Outcome(s) = "nak-once" /\ ~\E v \in Holders(worker, n) : worker[v].attempt = 1
          BY <4>2 DEF GivenBack
        <5>2. ~\E v \in Holders(worker', n) : worker'[v].attempt = 1
          BY <4>1, <5>1
        <5>3. GivenBack(worker', s, n) = 1
          BY <5>1, <5>2 DEF GivenBack
        <5> QED BY <4>2, <5>3
      <4> QED BY <3>3, <4>2
    <3>5. CASE faults' = faults + 1
      <4> HIDE DEF H, s
      <4> QED BY <2>1, <2>2, <3>2, <3>3, <3>4, <3>5
    <3>6. CASE Outcome(s) = "nak-once" /\ worker[w].attempt = 1 /\ faults' = faults
      <4>1. GivenBack(worker, s, n) = 0
        BY <3>1, <3>6 DEF GivenBack
      <4>2. ~\E v \in Holders(worker', n) : worker'[v].attempt = 1
        BY <1>1, <2>4, <3>6 DEF Holders, AttemptsInv, Busy
      <4>3. GivenBack(worker', s, n) = 1
        BY <3>6, <4>2 DEF GivenBack
      <4> HIDE DEF H, s
      <4> QED BY <2>1, <2>2, <3>2, <3>6, <4>1, <4>3
    <3> QED BY <2>4, <3>5, <3>6
  <2> QED BY <2>3, <2>4
<1> QED BY <1>2, <1>3 DEF ChargeInv

LEMMA SettleAccounted ==
    ASSUME IInv, IInv', AttemptsInv, ChargeInv, NEW w \in Worker, Settle(w)
    PROVE  AttemptsInv' /\ ChargeInv'
<1> DEFINE n == worker[w].msg
<1>1. Busy(w) /\ n \in 1..Len(jobs)
  BY Numeric DEF Settle, Busy, IInv, WorkType
<1>2. PICK j \in Job : /\ jobs' = [jobs EXCEPT ![n] = j]
                       /\ j.run = jobs[n].run /\ j.seq = jobs[n].seq /\ j.delivered = jobs[n].delivered
                       /\ j.state = "stored" => jobs[n].state = "stored"
  BY Settling
<1>3. Len(jobs') = Len(jobs) /\ jobs'[n] = j /\ \A m \in 1..Len(jobs) \ {n} : jobs'[m] = jobs[m]
  <2>1. jobs[n].delivered <= j.delivered
    BY <1>1, <1>2, Numeric
  <2>2. JobsType
    BY DEF IInv
  <2> HIDE DEF n
  <2> QED BY <1>1, <1>2, <2>1, <2>2, OneChange
<1>4. \A m \in 1..Len(jobs) :
        /\ jobs'[m].seq = jobs[m].seq /\ jobs'[m].delivered = jobs[m].delivered
        /\ jobs'[m].state = "stored" => jobs[m].state = "stored"
  BY <1>2, <1>3
<1>5. \E x : x.pc # "busy" /\ worker' = [worker EXCEPT ![w] = x]
  <2>1. [Idle EXCEPT !.delay = worker[w].delay].pc = "idle"
    BY DEF Idle
  <2> QED BY <2>1 DEF Settle, Settled
<1>6. \/ faults' = faults + 1
      \/ /\ faults' = faults
         /\ \/ \E how \in {"terminated", "acknowledged"} : Remove(w, how)
            \/ Outcome(jobs[n].seq) = "nak-once" /\ worker[w].attempt = 1
  BY DEF Settle, Fault
<1>7. ASSUME NEW how \in {"terminated", "acknowledged"}, Remove(w, how)
      PROVE  jobs'[n].state # "stored"
  <2>1. jobs'[n].state = IF jobs[n].state = "stored" THEN how ELSE jobs[n].state
    <3>1. jobs' = [jobs EXCEPT ![n] =
                     [jobs[n] EXCEPT !.state = IF jobs[n].state = "stored" THEN how ELSE jobs[n].state,
                                     !.due = 0]]
      BY <1>7 DEF Remove
    <3>2. jobs[n] \in Job /\ n \in DOMAIN jobs
      BY <1>1, Numeric
    <3> QED BY <3>1, <3>2 DEF Job
  <2> QED BY <2>1
<1> QED BY <1>1, <1>3, <1>4, <1>5, <1>6, <1>7, Leaving

LEMMA EndAccounted ==
    ASSUME IInv, IInv', AttemptsInv, ChargeInv, NEW w \in Worker, WorkerStart(w) \/ WorkerEnds(w)
    PROVE  AttemptsInv' /\ ChargeInv'
<1>1. CASE WorkerStart(w)
  <2>1. /\ worker[w].pc = "down" /\ UNCHANGED <<jobs, faults>>
        /\ \E x : x.pc = "idle" /\ worker' = [worker EXCEPT ![w] = x]
    BY <1>1 DEF WorkerStart, faultVars, Idle
  <2>2. \A v \in Worker : \/ v # w /\ worker'[v] = worker[v]
                          \/ worker'[v].pc = "idle" /\ worker[v].pc = "down"
    BY <2>1 DEF IInv, WorkType
  <2> QED BY <2>1, <2>2, Numeric, Undisturbed
<1>2. CASE WorkerEnds(w)
  <2>1. /\ Busy(w) /\ faults' = faults + 1 /\ UNCHANGED jobs
        /\ Down.pc # "busy" /\ worker' = [worker EXCEPT ![w] = Down]
    BY <1>2 DEF WorkerEnds, Busy, Fault, Down, Idle
  <2> QED BY <2>1, Leaving
<1> QED BY <1>1, <1>2

LEMMA FetchAccounted ==
    ASSUME IInv, IInv', AttemptsInv, ChargeInv, NEW w \in Worker, Fetch(w)
    PROVE  AttemptsInv' /\ ChargeInv'
<1>1. PICK n \in DOMAIN jobs :
        /\ Deliverable(n, w)
        /\ jobs' = [jobs EXCEPT ![n].delivered = @ + 1, ![n].due = AckWait]
        /\ \/ /\ worker' = [worker EXCEPT ![w].pc = "busy", ![w].msg = n,
                                           ![w].left = worker[w].delay,
                                           ![w].attempt = jobs[n].delivered + 1]
              /\ UNCHANGED faults
           \/ UNCHANGED worker /\ Fault
  BY DEF Fetch
<1>2. n \in 1..Len(jobs) /\ jobs[n] \in Job /\ jobs[n].delivered \in Nat /\ faults \in Nat
  BY <1>1, Numeric
<1> DEFINE j == [jobs[n] EXCEPT !.delivered = @ + 1, !.due = AckWait]
<1>3. /\ j \in Job /\ j.run = jobs[n].run /\ j.seq = jobs[n].seq
      /\ j.delivered = jobs[n].delivered + 1
      /\ j.state = jobs[n].state
  BY <1>1, <1>2, JobDelivered DEF Deliverable
<1>4. jobs' = [jobs EXCEPT ![n] = j]
  BY <1>1
<1> HIDE DEF j
<1>5. Len(jobs') = Len(jobs) /\ jobs'[n] = j /\ \A m \in 1..Len(jobs) \ {n} : jobs'[m] = jobs[m]
  <2>1. jobs[n].delivered <= j.delivered /\ JobsType
    BY <1>2, <1>3 DEF IInv
  <2> QED BY <1>2, <1>3, <1>4, <2>1, OneChange
<1>6. CASE UNCHANGED worker /\ Fault
  <2>1. faults' = faults + 1
    BY <1>6 DEF Fault
  <2>2. \A s : \A m : GivenBack(worker, s, m) \in {0, 1}
    BY DEF GivenBack
  <2>3. ASSUME NEW m \in 1..Len(jobs) PROVE Accounted(m)'
    <3>1. Cardinality(Holders(worker, m)) \in Nat /\ jobs[m].delivered \in Nat
      BY HoldersFinite, Numeric
    <3>2. /\ jobs'[m].run = jobs[m].run /\ jobs'[m].seq = jobs[m].seq /\ jobs'[m].state = jobs[m].state
          /\ jobs'[m].delivered \in {jobs[m].delivered, jobs[m].delivered + 1}
      BY <1>3, <1>5
    <3>3. jobs[m].state = "stored" =>
            jobs[m].delivered <= faults + Cardinality(Holders(worker, m))
                                        + GivenBack(worker, jobs[m].seq, m)
      BY DEF ChargeInv, Accounted
    <3>4. GivenBack(worker, jobs[m].seq, m) \in {0, 1}
      BY <2>2
    <3>5. jobs[m].state = "stored" =>
            jobs'[m].delivered <= faults' + Cardinality(Holders(worker, m))
                                          + GivenBack(worker, jobs[m].seq, m)
      BY ONLY <1>2, <2>1, <3>1, <3>2, <3>3, <3>4
    <3> QED BY <1>6, <3>2, <3>5 DEF Accounted
  <2> QED BY <1>5, <1>6, <2>3 DEF ChargeInv, AttemptsInv
<1>7. CASE /\ worker' = [worker EXCEPT ![w].pc = "busy", ![w].msg = n,
                                       ![w].left = worker[w].delay,
                                       ![w].attempt = jobs[n].delivered + 1]
           /\ UNCHANGED faults
  <2>1. /\ worker'[w].pc = "busy" /\ worker'[w].msg = n
        /\ worker'[w].attempt = jobs[n].delivered + 1
        /\ \A v \in Worker \ {w} : worker'[v] = worker[v]
        /\ worker[w].pc = "idle"
    <3>1. worker[w] \in WorkerState /\ worker \in [Worker -> WorkerState]
      BY WorkerFields DEF IInv, WorkType
    <3>2. worker' = [worker EXCEPT ![w] = [worker[w] EXCEPT !.pc = "busy", !.msg = n,
                                               !.left = worker[w].delay,
                                               !.attempt = jobs[n].delivered + 1]]
      BY <1>7
    <3>3. worker'[w] = [worker[w] EXCEPT !.pc = "busy", !.msg = n, !.left = worker[w].delay,
                                         !.attempt = jobs[n].delivered + 1]
      BY <3>1, <3>2
    <3>4. worker'[w].pc = "busy" /\ worker'[w].msg = n
          /\ worker'[w].attempt = jobs[n].delivered + 1
      BY <3>1, <3>3 DEF WorkerState
    <3> QED BY <3>1, <3>2, <3>4 DEF Fetch
  <2>2. \A v \in Worker \ {w} : worker[v].pc = "busy" /\ worker[v].msg = n =>
          worker[v].attempt \in Nat /\ worker[v].attempt <= jobs[n].delivered
    <3> SUFFICES ASSUME NEW v \in Worker \ {w}, worker[v].pc = "busy", worker[v].msg = n
                 PROVE  worker[v].attempt \in Nat /\ worker[v].attempt <= jobs[n].delivered
      OBVIOUS
    <3>1. worker[v].attempt \in 1..jobs[n].delivered
      BY DEF IInv, WorkType, Busy
    <3> QED BY <1>2, <3>1
  <2>3. AttemptsInv'
    <3> SUFFICES ASSUME NEW u \in Worker, NEW v \in Worker, u # v,
                        worker'[u].pc = "busy", worker'[v].pc = "busy",
                        worker'[u].msg = worker'[v].msg
                 PROVE  worker'[u].attempt # worker'[v].attempt
      BY DEF AttemptsInv
    <3>1. CASE u = w
      <4>1. worker'[v] = worker[v] /\ worker[v].pc = "busy" /\ worker[v].msg = n
        BY <2>1, <3>1
      <4> QED BY <1>2, <2>1, <2>2, <3>1, <4>1
    <3>2. CASE v = w
      <4>1. worker'[u] = worker[u] /\ worker[u].pc = "busy" /\ worker[u].msg = n
        BY <2>1, <3>2
      <4> QED BY <1>2, <2>1, <2>2, <3>2, <4>1
    <3>3. CASE u # w /\ v # w
      BY <2>1, <3>3 DEF AttemptsInv
    <3> QED BY <3>1, <3>2, <3>3
  <2>4. ASSUME NEW m \in 1..Len(jobs), m # n PROVE Accounted(m)'
    <3>1. Holders(worker', m) = Holders(worker, m)
      BY <2>1, <2>4 DEF Holders
    <3>2. GivenBack(worker', jobs[m].seq, m) = GivenBack(worker, jobs[m].seq, m)
      BY <2>1, <2>4, <3>1 DEF GivenBack, Holders
    <3>3. jobs'[m] = jobs[m]
      BY <1>5, <2>4
    <3> QED BY <1>7, <3>1, <3>2, <3>3 DEF ChargeInv, Accounted
  <2>5. Accounted(n)'
    <3> DEFINE H == Holders(worker, n)
               s == jobs[n].seq
    <3> SUFFICES jobs[n].state = "stored" =>
                   jobs[n].delivered + 1 <= faults + Cardinality(Holders(worker', n))
                                                   + GivenBack(worker', s, n)
      BY <1>3, <1>5, <1>7 DEF Accounted
    <3>1. Holders(worker', n) = H \cup {w} /\ w \notin H
      BY <2>1 DEF Holders
    <3>2. Cardinality(H) \in Nat /\ IsFiniteSet(H)
      BY HoldersFinite
    <3>3. Cardinality(Holders(worker', n)) = Cardinality(H) + 1
      <4> HIDE DEF H
      <4> QED BY <3>1, <3>2, FS_AddElement
    <3>4. GivenBack(worker, s, n) \in {0, 1} /\ GivenBack(worker', s, n) \in {0, 1}
      BY DEF GivenBack
    <3>5. CASE jobs[n].delivered = 0
      <4> HIDE DEF H, s
      <4> QED BY <1>2, <3>2, <3>3, <3>4, <3>5
    <3>6. CASE jobs[n].delivered # 0
      <4>1. \A v \in Holders(worker', n) : worker'[v].attempt = 1 =>
              v \in Holders(worker, n) /\ worker[v].attempt = 1
        BY <1>2, <2>1, <3>6 DEF Holders
      <4>2. \A v \in Holders(worker, n) : v \in Holders(worker', n)
                                         /\ worker'[v].attempt = worker[v].attempt
        BY <2>1 DEF Holders
      <4>3. GivenBack(worker', s, n) = GivenBack(worker, s, n)
        <5>1. (\E v \in Holders(worker', n) : worker'[v].attempt = 1)
                <=> (\E v \in Holders(worker, n) : worker[v].attempt = 1)
          BY <4>1, <4>2
        <5> QED BY <5>1 DEF GivenBack
      <4>4. jobs[n].state = "stored" =>
              jobs[n].delivered <= faults + Cardinality(H) + GivenBack(worker, s, n)
        BY <1>2 DEF ChargeInv, Accounted
      <4> HIDE DEF H, s
      <4> QED BY <1>2, <3>2, <3>3, <3>4, <4>3, <4>4
    <3> QED BY <3>5, <3>6
  <2> QED BY <1>5, <2>3, <2>4, <2>5 DEF ChargeInv
<1> QED BY <1>1, <1>6, <1>7

--------------------------------------------------------------------------------
(* Theorems. *)

\* Every delivery of a stored job is accounted for, in every reachable state.
THEOREM EveryDeliveryAccounted == Spec => [](AttemptsInv /\ ChargeInv)
<1>1. Init => AttemptsInv /\ ChargeInv
  <2> SUFFICES ASSUME Init PROVE AttemptsInv /\ ChargeInv
    OBVIOUS
  <2>1. Len(jobs) = 0 /\ \A w \in Worker : worker[w].pc = "down"
    BY DEF Init, Down, Idle
  <2> QED BY <2>1 DEF AttemptsInv, ChargeInv
<1>2. IInv /\ IInv' /\ AttemptsInv /\ ChargeInv /\ [Next]_vars => AttemptsInv' /\ ChargeInv'
  <2> SUFFICES ASSUME IInv, IInv', AttemptsInv, ChargeInv, [Next]_vars
               PROVE  AttemptsInv' /\ ChargeInv'
    OBVIOUS
  <2>1. CASE UNCHANGED vars
    BY <2>1 DEF vars, AttemptsInv, ChargeInv, Accounted
  <2>2. CASE Next
    BY <2>2, QuietSteps, EndAccounted, FetchAccounted, SettleAccounted DEF Next, Work
  <2> QED BY <2>1, <2>2
<1> QED BY <1>1, <1>2, WorkDemoInductive, PTL DEF Spec

\* The server gives up a job that is not done only after as many failed attempts as MaxDeliver
\* allows for, one less if the job is given back once, however deliveries, lost answers, stopped
\* and late workers interleave.
THEOREM GivenUpAfterFaults == Spec => []StuckAfterFaults
<1>1. IInv /\ ChargeInv => StuckAfterFaults
  <2> SUFFICES ASSUME IInv, ChargeInv, NEW n \in DOMAIN jobs, Stuck(n)
               PROVE  faults >= Spare(n)
    BY DEF StuckAfterFaults
  <2>1. n \in 1..Len(jobs) /\ faults \in Nat
    BY Numeric
  <2>2. jobs[n].state = "stored" /\ jobs[n].delivered = MaxDeliver
    BY DEF Stuck, Stored
  <2>3. Holders(worker, n) = {}
    BY DEF Stuck, Holders
  <2>4. Cardinality(Holders(worker, n)) = 0
    BY <2>3, FS_EmptySet
  <2>5. MaxDeliver <= faults + 0 + GivenBack(worker, jobs[n].seq, n)
    BY <2>1, <2>2, <2>4 DEF ChargeInv, Accounted
  <2>6. GivenBack(worker, jobs[n].seq, n) = IF Outcome(jobs[n].seq) = "nak-once" THEN 1 ELSE 0
    BY <2>3 DEF GivenBack
  <2> QED BY <2>1, <2>5, <2>6, WorkDemoAssumption DEF Spare
<1> QED BY <1>1, EveryDeliveryAccounted, WorkDemoInductive, PTL
================================================================================
