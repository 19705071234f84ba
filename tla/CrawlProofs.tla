------------------------------ MODULE CrawlProofs ------------------------------
(***************************************************************************)
(* Proofs about Crawl for any crawls, garbage, times and faults: the API   *)
(* serves complete infrastructure only, a job never comes before its       *)
(* status, an accepted request is never lost, and as long as redeliveries  *)
(* come within the window no crawl is scheduled twice.                     *)
(***************************************************************************)
EXTENDS Crawl, SequenceTheorems, TLAPS

\* The infrastructure is created in order, and the API has found the bucket.
InfraInv ==
    /\ \A i, j \in 1..7 : j <= i /\ Infrastructure[i] \in infra => Infrastructure[j] \in infra
    /\ api = "up" => "CRAWL_STATUS" \in infra

\* What the orchestrator has done for the request it is handling.
ProgressInv ==
    /\ pc \in {"status", "job", "ack", "nak"} => current \in Crawl
    /\ pc \in {"job", "ack"} => current \in status
    /\ pc = "ack" => jobs[current] > 0
    /\ pc = "term" => current \in Garbage

\* A job's crawl has a status, and the server remembers only ids of jobs it has stored.
JobsInv ==
    \A c \in Crawl : /\ jobs[c] > 0 => c \in status
                     /\ remembered[c] > 0 => jobs[c] > 0

\* A request that reached the stream is there, or is done.
RequestInv ==
    \A c \in Crawl : http[c] \in {"stored", "202"} =>
        c \in stored \/ (c \in status /\ jobs[c] > 0)

IInv == TypeOK /\ InfraInv /\ ProgressInv /\ JobsInv /\ RequestInv

\* The seven parts and their order.
LEMMA Parts ==
    /\ DOMAIN Infrastructure = 1..7
    /\ Infrastructure[7] = "CRAWL_STATUS"
    /\ Everything = {Infrastructure[i] : i \in 1..7}
BY DEF Infrastructure, Everything

\* The bucket is created last, so where it is everything is.
LEMMA BucketIsLast ==
    ASSUME TypeOK, InfraInv, "CRAWL_STATUS" \in infra
    PROVE  infra = Everything
<1>1. \A j \in 1..7 : Infrastructure[j] \in infra
  BY Parts DEF InfraInv
<1>2. Everything \subseteq infra
  BY <1>1, Parts
<1>3. infra \subseteq Everything
  BY DEF TypeOK
<1> QED BY <1>2, <1>3

\* A tick keeps every timer within its bounds, and starts none.
LEMMA Ticking ==
    ASSUME NEW S, NEW t \in [S -> Nat]
    PROVE  /\ Minus1(t) \in [S -> Nat]
           /\ \A x \in S : Minus1(t)[x] <= t[x]
BY DEF Minus1

\* Storing a job leaves one, whether or not its id was remembered.
LEMMA Storing ==
    ASSUME TypeOK, JobsInv, NEW c \in Crawl, StoreJob(c)
    PROVE  /\ jobs' \in [Crawl -> 0..2] /\ remembered' \in [Crawl -> 0..Window]
           /\ jobs'[c] > 0
           /\ \A d \in Crawl : /\ d # c => jobs'[d] = jobs[d] /\ remembered'[d] = remembered[d]
                               /\ jobs[d] > 0 => jobs'[d] > 0
<1>1. /\ jobs \in [Crawl -> 0..2] /\ remembered \in [Crawl -> 0..Window]
      /\ Window \in Nat
  BY CrawlAssumption DEF TypeOK
<1>2. CASE remembered[c] > 0
  BY <1>1, <1>2 DEF StoreJob, JobsInv
<1>3. CASE ~(remembered[c] > 0)
  <2>1. \/ jobs' = [jobs EXCEPT ![c] = 1]
        \/ jobs' = [jobs EXCEPT ![c] = 2]
    <3>1. jobs' = [jobs EXCEPT ![c] = IF jobs[c] = 0 THEN 1 ELSE 2]
      BY <1>3 DEF StoreJob
    <3>2. CASE jobs[c] = 0
      BY <3>1, <3>2
    <3>3. CASE jobs[c] # 0
      BY <3>1, <3>3
    <3> QED BY <3>2, <3>3
  <2>2. remembered' = [remembered EXCEPT ![c] = Window] /\ Window \in 0..Window
    BY <1>1, <1>3 DEF StoreJob
  <2>3. /\ jobs' \in [Crawl -> 0..2] /\ jobs'[c] > 0
        /\ \A d \in Crawl : d # c => jobs'[d] = jobs[d]
    BY <1>1, <2>1
  <2>4. /\ remembered' \in [Crawl -> 0..Window]
        /\ \A d \in Crawl : d # c => remembered'[d] = remembered[d]
    BY <1>1, <2>2
  <2> QED BY <2>3, <2>4
<1> QED BY <1>2, <1>3

\* The initial state satisfies the inductive invariant.
LEMMA InitIInv == Init => IInv
<1> SUFFICES ASSUME Init PROVE IInv
  OBVIOUS
<1>1. TypeOK
  <2>1. /\ due \in [Request -> Nat] /\ jobs \in [Crawl -> 0..2]
        /\ remembered \in [Crawl -> 0..Window] /\ faults \in 0..MaxFaults
        /\ punctual \in BOOLEAN
    BY CrawlAssumption DEF Init
  <2>2. inbox \in Seq(Request) /\ Len(inbox) <= Prefetch
    BY CrawlAssumption, EmptySeq DEF Init
  <2> QED BY <2>1, <2>2 DEF Init, TypeOK
<1>2. InfraInv /\ ProgressInv
  BY DEF Init, InfraInv, ProgressInv
<1>3. JobsInv /\ RequestInv
  BY DEF Init, JobsInv, RequestInv, Request
<1> QED BY <1>1, <1>2, <1>3 DEF IInv

\* A fault is counted.
LEMMA Faulting ==
    ASSUME TypeOK, NEW k, Fault(k)
    PROVE  faults' \in 0..MaxFaults /\ punctual' \in BOOLEAN
<1>1. faults \in 0..MaxFaults /\ MaxFaults \in Nat
  BY CrawlAssumption DEF TypeOK
<1>2. faults < MaxFaults /\ faults' = faults + 1
  BY DEF Fault
<1>3. punctual' \in BOOLEAN
  BY DEF Fault
<1> QED BY <1>1, <1>2, <1>3

\* Time and the steps of the API and of other clients keep the invariant.
LEMMA ClientSteps ==
    ASSUME IInv,
           \/ Tick \/ ApiStart \/ ApiCrash
           \/ \E c \in Crawl : PostCrawl(c) \/ Answer(c)
           \/ \E g \in Garbage : PutGarbage(g)
    PROVE  IInv'
<1> USE DEF IInv
<1>1. CASE Tick
  <2>1. /\ due' \in [Request -> Nat] /\ remembered' \in [Crawl -> 0..Window]
        /\ \A c \in Crawl : remembered'[c] > 0 => remembered[c] > 0
    <3>1. due \in [Request -> Nat] /\ remembered \in [Crawl -> Nat]
      <4>1. due \in [Request -> Nat] /\ remembered \in [Crawl -> 0..Window]
        BY DEF TypeOK
      <4>2. 0..Window \subseteq Nat
        OBVIOUS
      <4> QED BY <4>1, <4>2
    <3>2. due' = Minus1(due) /\ remembered' = Minus1(remembered)
      BY <1>1 DEF Tick
    <3>3. due' \in [Request -> Nat]
      BY <3>1, <3>2, Ticking, Zenon
    <3>4. /\ remembered' \in [Crawl -> Nat]
          /\ \A c \in Crawl : remembered'[c] <= remembered[c]
      BY <3>1, <3>2, Ticking, Zenon
    <3>5. \A c \in Crawl : remembered[c] \in 0..Window /\ Window \in Nat
      BY CrawlAssumption DEF TypeOK
    <3> QED BY <3>3, <3>4, <3>5
  <2>2. /\ UNCHANGED <<api, http, infra, stored, status, jobs, pc, current, inbox, faults>>
        /\ punctual' \in BOOLEAN
    BY <1>1 DEF Tick, clientVars, coordinatorVars
  <2>3. TypeOK'
    BY <2>1, <2>2 DEF TypeOK
  <2> QED BY <2>1, <2>2, <2>3 DEF InfraInv, ProgressInv, JobsInv, RequestInv
<1>2. CASE ApiStart
  <2>1. /\ UNCHANGED <<http, infra, stored, due, status, jobs, remembered, pc, current,
                       inbox, faults, punctual>>
        /\ api' = "up" /\ "CRAWL_STATUS" \in infra
    BY <1>2 DEF ApiStart, streamVars, crawlVars, coordinatorVars
  <2> QED BY <2>1 DEF TypeOK, InfraInv, ProgressInv, JobsInv, RequestInv
<1>3. CASE ApiCrash
  <2>1. /\ UNCHANGED <<infra, stored, due, status, jobs, remembered, pc, current, inbox>>
        /\ api' = "down" /\ faults' \in 0..MaxFaults /\ punctual' \in BOOLEAN
        /\ http' = [r \in Request |-> IF http[r] = "stored" THEN "dropped" ELSE http[r]]
    BY <1>3, Faulting DEF ApiCrash, streamVars, crawlVars, coordinatorVars
  <2>2. TypeOK'
    BY <2>1 DEF TypeOK
  <2>3. RequestInv'
    BY <2>1 DEF RequestInv, TypeOK, Request
  <2> QED BY <2>1, <2>2, <2>3 DEF InfraInv, ProgressInv, JobsInv
<1>4. ASSUME NEW c \in Crawl, PostCrawl(c) PROVE IInv'
  <2>1. /\ UNCHANGED <<api, infra, due, status, jobs, remembered, pc, current, inbox>>
        /\ stored' \in SUBSET Request /\ stored \subseteq stored'
        /\ faults' \in 0..MaxFaults /\ punctual' \in BOOLEAN
        /\ \/ http' = [http EXCEPT ![c] = "stored"] /\ c \in stored'
           \/ http' = [http EXCEPT ![c] = "502"]
    BY <1>4, Faulting DEF PostCrawl, faultVars, crawlVars, coordinatorVars, TypeOK, Request
  <2>2. TypeOK'
    BY <2>1 DEF TypeOK
  <2>3. RequestInv'
    BY <2>1 DEF RequestInv, TypeOK, Request
  <2> QED BY <2>1, <2>2, <2>3 DEF InfraInv, ProgressInv, JobsInv
<1>5. ASSUME NEW c \in Crawl, Answer(c) PROVE IInv'
  <2>1. /\ UNCHANGED <<api, infra, stored, due, status, jobs, remembered, pc, current, inbox>>
        /\ faults' \in 0..MaxFaults /\ punctual' \in BOOLEAN /\ http[c] = "stored"
        /\ \/ http' = [http EXCEPT ![c] = "202"]
           \/ http' = [http EXCEPT ![c] = "502"]
    BY <1>5, Faulting DEF Answer, faultVars, streamVars, crawlVars, coordinatorVars, TypeOK
  <2>2. TypeOK'
    BY <2>1 DEF TypeOK
  <2>3. RequestInv'
    BY <2>1 DEF RequestInv, TypeOK, Request
  <2> QED BY <2>1, <2>2, <2>3 DEF InfraInv, ProgressInv, JobsInv
<1>6. ASSUME NEW g \in Garbage, PutGarbage(g) PROVE IInv'
  <2>1. /\ UNCHANGED <<api, infra, due, status, jobs, remembered, pc, current, inbox, faults,
                       punctual>>
        /\ stored' = stored \cup {g} /\ g \in Request
        /\ http' = [http EXCEPT ![g] = "not HTTP"]
    BY <1>6 DEF PutGarbage, crawlVars, coordinatorVars, Request
  <2>2. TypeOK'
    BY <2>1 DEF TypeOK
  <2>3. RequestInv'
    BY <2>1 DEF RequestInv, TypeOK, Request
  <2> QED BY <2>1, <2>2, <2>3 DEF InfraInv, ProgressInv, JobsInv
<1> QED BY <1>1, <1>2, <1>3, <1>4, <1>5, <1>6

\* Starting, creating the infrastructure, crashing and receiving keep the invariant.
LEMMA ProcessSteps ==
    ASSUME IInv,
           \/ Start \/ Ensure \/ Crash \/ Take
           \/ \E r \in Request : Deliver(r)
    PROVE  IInv'
<1> USE DEF IInv
<1>1. CASE Start
  <2>1. /\ UNCHANGED <<api, http, infra, stored, due, status, jobs, remembered, current,
                       inbox, faults, punctual>>
        /\ pc = "down" /\ pc' = "starting"
    BY <1>1 DEF Start, clientVars, streamVars, crawlVars
  <2> QED BY <2>1 DEF TypeOK, InfraInv, ProgressInv, JobsInv, RequestInv
<1>2. CASE Ensure
  <2>1. /\ UNCHANGED <<api, http, stored, due, status, jobs, remembered, current, inbox,
                       faults, punctual>>
        /\ pc = "starting" /\ pc' \in {"starting", "idle"}
    BY <1>2 DEF Ensure, clientVars, streamVars, crawlVars
  <2>2. infra' \subseteq Everything /\ InfraInv'
    <3>1. CASE UNCHANGED infra
      BY <2>1, <3>1 DEF TypeOK, InfraInv
    <3>2. CASE ~UNCHANGED infra
      <4>1. PICK i \in 1..7 :
              /\ \A j \in 1..(i - 1) : Infrastructure[j] \in infra
              /\ infra' = infra \cup {Infrastructure[i]}
        BY <1>2, <3>2, Parts DEF Ensure
      <4>2. infra' \subseteq Everything
        BY <4>1, Parts DEF TypeOK
      <4>3. \A k, j \in 1..7 : j <= k /\ Infrastructure[k] \in infra' => Infrastructure[j] \in infra'
        <5> SUFFICES ASSUME NEW k \in 1..7, NEW j \in 1..7, j <= k,
                            Infrastructure[k] \in infra', Infrastructure[k] \notin infra
                     PROVE  Infrastructure[j] \in infra'
          BY <4>1 DEF InfraInv
        <5>1. k = i
          BY <4>1 DEF Infrastructure
        <5> QED BY <4>1, <5>1
      <4> QED BY <2>1, <4>1, <4>2, <4>3 DEF InfraInv
    <3> QED BY <3>1, <3>2
  <2>3. TypeOK'
    BY <2>1, <2>2 DEF TypeOK
  <2> QED BY <2>1, <2>2, <2>3 DEF ProgressInv, JobsInv, RequestInv
<1>3. CASE Crash
  <2>1. /\ UNCHANGED <<api, http, infra, stored, due, status, jobs, remembered>>
        /\ pc' = "down" /\ current' = None /\ inbox' = <<>> /\ faults' \in 0..MaxFaults /\ punctual' \in BOOLEAN
    BY <1>3, Faulting DEF Crash, clientVars, streamVars, crawlVars
  <2>2. inbox' \in Seq(Request) /\ Len(inbox') <= Prefetch
    BY <2>1, CrawlAssumption, EmptySeq
  <2>3. TypeOK'
    BY <2>1, <2>2 DEF TypeOK
  <2> QED BY <2>1, <2>3 DEF InfraInv, ProgressInv, JobsInv, RequestInv
<1>4. CASE Take
  <2>1. /\ UNCHANGED <<api, http, infra, stored, due, status, jobs, remembered, faults,
                       punctual>>
        /\ pc = "idle" /\ inbox # <<>>
        /\ current' = Head(inbox) /\ inbox' = Tail(inbox)
        /\ pc' = IF current' \in Garbage THEN "term" ELSE "status"
    BY <1>4 DEF Take, clientVars, streamVars, crawlVars
  <2>2. /\ current' \in Request /\ inbox' \in Seq(Request) /\ Len(inbox') <= Prefetch
    <3>1. inbox \in Seq(Request) /\ Len(inbox) <= Prefetch /\ Prefetch \in Nat
      BY CrawlAssumption DEF TypeOK
    <3>2. /\ Head(inbox) \in Request /\ Tail(inbox) \in Seq(Request)
          /\ Len(Tail(inbox)) = Len(inbox) - 1 /\ Len(inbox) \in Nat
      BY <2>1, <3>1, HeadTailProperties, LenProperties
    <3> QED BY <2>1, <3>1, <3>2
  <2>3. current' # None /\ pc' \in {"term", "status"}
    BY <2>1, <2>2, CrawlAssumption DEF Request
  <2>4. TypeOK'
    <3>1. (current' = None) = (pc' \in {"down", "starting", "idle"})
      BY <2>3
    <3>2. pc' \in {"down", "starting", "idle", "status", "job", "ack", "term", "nak"}
      BY <2>3
    <3> QED BY <2>1, <2>2, <3>1, <3>2, Zenon DEF TypeOK
  <2> QED BY <2>1, <2>2, <2>4 DEF InfraInv, ProgressInv, JobsInv, RequestInv, Request
<1>5. ASSUME NEW r \in Request, Deliver(r) PROVE IInv'
  <2>1. /\ UNCHANGED <<api, http, infra, stored, status, jobs, remembered, pc, current, faults,
                       punctual>>
        /\ inbox' = Append(inbox, r) /\ Len(inbox) < Prefetch
        /\ due' = [due EXCEPT ![r] = AckWait]
    BY <1>5 DEF Deliver, clientVars, crawlVars
  <2>2. inbox' \in Seq(Request) /\ Len(inbox') <= Prefetch
    <3>1. inbox \in Seq(Request) /\ Len(inbox) \in Nat /\ Prefetch \in Nat
      BY CrawlAssumption, LenProperties DEF TypeOK
    <3>2. Append(inbox, r) \in Seq(Request) /\ Len(Append(inbox, r)) = Len(inbox) + 1
      BY <3>1
    <3> QED BY <2>1, <3>1, <3>2
  <2>3. due' \in [Request -> Nat]
    BY <2>1, CrawlAssumption DEF TypeOK
  <2>4. TypeOK'
    BY <2>1, <2>2, <2>3 DEF TypeOK
  <2> QED BY <2>1, <2>4 DEF InfraInv, ProgressInv, JobsInv, RequestInv
<1> QED BY <1>1, <1>2, <1>3, <1>4, <1>5

\* Handling a request keeps the invariant: its status, its job, and how it is settled.
LEMMA HandlerSteps ==
    ASSUME IInv, SetCrawlStatus \/ ScheduleURL \/ Settle \/ Nak
    PROVE  IInv'
<1> USE DEF IInv
<1>1. CASE SetCrawlStatus
  <2>1. /\ UNCHANGED <<api, http, infra, stored, due, jobs, remembered, current, inbox>>
        /\ pc = "status" /\ current \in Crawl
        /\ faults' \in 0..MaxFaults /\ punctual' \in BOOLEAN
        /\ status' \subseteq status \cup {current} /\ status \subseteq status'
        /\ pc' \in {"job", "nak"} /\ (pc' = "job" => current \in status')
    BY <1>1, Faulting DEF SetCrawlStatus, faultVars, clientVars, streamVars, ProgressInv, TypeOK
  <2>2. TypeOK'
    <3>1. current # None /\ status' \subseteq Crawl
      BY <2>1, CrawlAssumption DEF TypeOK
    <3>2. /\ (current' = None) = (pc' \in {"down", "starting", "idle"})
          /\ pc' \in {"down", "starting", "idle", "status", "job", "ack", "term", "nak"}
      BY <2>1, <3>1
    <3> QED BY <2>1, <3>1, <3>2, Zenon DEF TypeOK
  <2> QED BY <2>1, <2>2 DEF InfraInv, ProgressInv, JobsInv, RequestInv
<1>2. CASE ScheduleURL
  <2>1. /\ UNCHANGED <<api, http, infra, stored, due, status, current, inbox>>
        /\ pc = "job" /\ current \in Crawl /\ current \in status
        /\ faults' \in 0..MaxFaults /\ punctual' \in BOOLEAN /\ pc' \in {"ack", "nak"}
        /\ StoreJob(current) \/ (UNCHANGED <<jobs, remembered>> /\ pc' = "nak")
    BY <1>2, Faulting DEF ScheduleURL, faultVars, clientVars, streamVars, ProgressInv, TypeOK
  <2>2. /\ jobs' \in [Crawl -> 0..2] /\ remembered' \in [Crawl -> 0..Window]
        /\ pc' = "ack" => jobs'[current] > 0
        /\ \A d \in Crawl : /\ d # current => /\ jobs'[d] = jobs[d]
                                              /\ remembered'[d] = remembered[d]
                            /\ jobs[d] > 0 => jobs'[d] > 0
        /\ remembered'[current] > 0 => jobs'[current] > 0
    BY <2>1, Storing DEF TypeOK, JobsInv
  <2>3. TypeOK'
    <3>1. current # None
      BY <2>1, CrawlAssumption
    <3>2. /\ (current' = None) = (pc' \in {"down", "starting", "idle"})
          /\ pc' \in {"down", "starting", "idle", "status", "job", "ack", "term", "nak"}
      BY <2>1, <3>1
    <3> QED BY <2>1, <2>2, <3>2, Zenon DEF TypeOK
  <2>4. JobsInv' /\ RequestInv'
    BY <2>1, <2>2 DEF JobsInv, RequestInv
  <2> QED BY <2>1, <2>2, <2>3, <2>4 DEF InfraInv, ProgressInv
<1>3. CASE Settle
  <2>1. /\ UNCHANGED <<api, http, infra, status, jobs, remembered, inbox>>
        /\ pc \in {"ack", "term"} /\ pc' = "idle" /\ current' = None
        /\ faults' \in 0..MaxFaults /\ punctual' \in BOOLEAN
        /\ Remove(current) \/ UNCHANGED <<stored, due>>
    BY <1>3, Faulting DEF Settle, faultVars, clientVars, streamVars, crawlVars, TypeOK
  <2>2. /\ stored' \subseteq Request /\ due' \in [Request -> Nat]
        /\ stored \ {current} \subseteq stored'
    <3>1. stored \subseteq Request /\ due \in [Request -> Nat]
      BY DEF TypeOK
    <3>2. [due EXCEPT ![current] = 0] \in [Request -> Nat]
      BY <3>1
    <3> QED BY <2>1, <3>1, <3>2 DEF Remove
  <2>3. TypeOK'
    BY <2>1, <2>2, CrawlAssumption DEF TypeOK
  <2>4. RequestInv'
    <3>1. current \in Crawl => current \in status /\ jobs[current] > 0
      BY <2>1, CrawlAssumption DEF ProgressInv
    <3> QED BY <2>1, <2>2, <3>1 DEF RequestInv
  <2> QED BY <2>1, <2>3, <2>4 DEF InfraInv, ProgressInv, JobsInv
<1>4. CASE Nak
  <2>1. /\ UNCHANGED <<api, http, infra, stored, status, jobs, remembered, inbox>>
        /\ pc' = "idle" /\ current' = None /\ faults' \in 0..MaxFaults /\ punctual' \in BOOLEAN
        /\ due' = due \/ due' = [due EXCEPT ![current] = NakDelay]
    BY <1>4, Faulting DEF Nak, faultVars, clientVars, crawlVars, TypeOK
  <2>2. due' \in [Request -> Nat]
    <3>1. due \in [Request -> Nat] /\ NakDelay \in Nat
      BY CrawlAssumption DEF TypeOK
    <3>2. [due EXCEPT ![current] = NakDelay] \in [Request -> Nat]
      BY <3>1
    <3> QED BY <2>1, <3>1, <3>2
  <2>3. TypeOK'
    BY <2>1, <2>2, CrawlAssumption DEF TypeOK
  <2> QED BY <2>1, <2>3 DEF InfraInv, ProgressInv, JobsInv, RequestInv
<1> QED BY <1>1, <1>2, <1>3, <1>4

\* Every step keeps the invariant.
LEMMA CrawlStep == IInv /\ [Next]_vars => IInv'
<1> SUFFICES ASSUME IInv, [Next]_vars PROVE IInv'
  OBVIOUS
<1>1. CASE Next
  BY <1>1, ClientSteps, ProcessSteps, HandlerSteps DEF Next, Coordinate
<1>2. CASE UNCHANGED vars
  BY <1>2 DEF vars, IInv, TypeOK, InfraInv, ProgressInv, JobsInv, RequestInv
<1> QED BY <1>1, <1>2

\* The inductive invariant holds in every reachable state.
THEOREM CrawlInductive == Spec => []IInv
BY InitIInv, CrawlStep, PTL DEF Spec

\* The processes, the streams, the bucket and the timers keep their types.
THEOREM CrawlTypeCorrect == Spec => []TypeOK
<1>1. IInv => TypeOK
  BY DEF IInv
<1> QED BY <1>1, CrawlInductive, PTL

\* Looking for the request stream and the bucket is enough, in the order in which the
\* orchestrator creates things: the API serves only when everything exists.
THEOREM ApiServesCompleteInfrastructure == Spec => []ServesCompleteInfrastructure
<1>1. IInv => ServesCompleteInfrastructure
  BY BucketIsLast DEF IInv, InfraInv, ServesCompleteInfrastructure
<1> QED BY <1>1, CrawlInductive, PTL

\* Whatever crashes, fails or is delivered again, a crawl's job comes after its status.
THEOREM StatusComesFirst == Spec => []StatusBeforeJob
<1>1. IInv => StatusBeforeJob
  BY DEF IInv, JobsInv, StatusBeforeJob, CrawlStatus
<1> QED BY <1>1, CrawlInductive, PTL

\* A request answered 202 is on the stream until its crawl has a status and a job, for any
\* number of faults and any timeouts.
THEOREM NoAcceptedRequestLost == Spec => []AcceptedNotLost
<1>1. IInv => AcceptedNotLost
  BY DEF IInv, RequestInv, AcceptedNotLost, CrawlStatus
<1> QED BY <1>1, CrawlInductive, PTL

--------------------------------------------------------------------------------
(* Scheduling once. *)

\* The orchestrator has a delivery of r.
InHand(r) == r = current \/ \E i \in DOMAIN inbox : inbox[i] = r

\* The time that the faults so far can have cost, when nothing else delays the orchestrator.
Spent == faults * AckWait

\* A crawl with a job, or with a request on the stream, was posted.
PostedInv == \A c \in Crawl : jobs[c] > 0 \/ c \in stored => http[c] # "none"

\* The orchestrator has one delivery of a request at most, and no time has passed since.
HandInv ==
    /\ pc # "nak"
    /\ \A r \in Request : InHand(r) => r \in stored /\ due[r] = AckWait
    /\ \A i, j \in DOMAIN inbox : inbox[i] = inbox[j] => i = j
    /\ \A i \in DOMAIN inbox : inbox[i] # current

\* When the request of a scheduled crawl can be delivered next, all of the window is left but
\* what the faults have cost.
RememberedInv ==
    \A c \in Crawl : jobs[c] > 0 /\ c \in stored =>
        Spent + remembered[c] >= Window + IF InHand(c) THEN 0 ELSE due[c]

\* A second job has cost the window.
JobsOnce == \A c \in Crawl : jobs[c] > 1 => Spent >= Window

\* What holds as long as the orchestrator is punctual.
OnceInv == PostedInv /\ HandInv /\ RememberedInv /\ JobsOnce

\* The numbers.
LEMMA Numbers ==
    ASSUME TypeOK
    PROVE  /\ Spent \in Nat /\ Window \in Nat \ {0} /\ AckWait \in Nat \ {0}
           /\ \A r \in Request : due[r] \in Nat
           /\ \A c \in Crawl : jobs[c] \in Nat /\ remembered[c] \in Nat
           /\ Crawl \subseteq Request /\ None \notin Request
<1>1. /\ AckWait \in Nat \ {0} /\ Window \in Nat \ {0} /\ MaxFaults \in Nat
      /\ Crawl \subseteq Request /\ None \notin Request
  BY CrawlAssumption DEF Request
<1>2. /\ faults \in 0..MaxFaults /\ due \in [Request -> Nat]
      /\ jobs \in [Crawl -> 0..2] /\ remembered \in [Crawl -> 0..Window]
  BY DEF TypeOK
<1>3. faults \in Nat
  BY <1>1, <1>2
<1>4. Spent \in Nat
  BY <1>1, <1>3 DEF Spent
<1>5. \A c \in Crawl : jobs[c] \in Nat /\ remembered[c] \in Nat
  <2> SUFFICES ASSUME NEW c \in Crawl PROVE jobs[c] \in Nat /\ remembered[c] \in Nat
    OBVIOUS
  <2>1. jobs[c] \in 0..2 /\ remembered[c] \in 0..Window
    BY <1>2
  <2> QED BY <1>1, <2>1
<1>6. \A r \in Request : due[r] \in Nat
  BY <1>2
<1> QED BY <1>1, <1>4, <1>5, <1>6

\* A fault costs the time to the next delivery.
LEMMA Spending ==
    ASSUME TypeOK, NEW k, Fault(k)
    PROVE  Spent' = Spent + AckWait /\ (punctual' => punctual /\ k \in {"ack lost", "crash"})
<1>1. faults \in Nat /\ AckWait \in Nat /\ faults' = faults + 1
  <2>1. faults \in 0..MaxFaults /\ MaxFaults \in Nat /\ AckWait \in Nat
    BY CrawlAssumption DEF TypeOK
  <2>2. faults' = faults + 1
    BY DEF Fault
  <2> QED BY <2>1, <2>2
<1>2. (faults + 1) * AckWait = faults * AckWait + AckWait
  BY <1>1
<1> QED BY <1>1, <1>2 DEF Spent, Fault

\* What the window holds stays enough for a crawl that goes out of hand at the cost of a fault,
\* or comes to hand.
LEMMA StillRemembered ==
    ASSUME TypeOK, TypeOK', OnceInv, UNCHANGED <<jobs, remembered>>,
           Spent' = Spent \/ Spent' = Spent + AckWait,
           \A c \in Crawl : jobs[c] > 0 /\ c \in stored' =>
               /\ c \in stored /\ due'[c] = due[c]
               /\ InHand(c) => InHand(c)' \/ Spent' = Spent + AckWait
    PROVE  RememberedInv' /\ JobsOnce'
<1>1. Spent' >= Spent /\ Spent' \in Nat /\ Spent \in Nat /\ Window \in Nat
  BY Numbers
<1>2. ASSUME NEW c \in Crawl, jobs[c] > 0, c \in stored'
      PROVE  Spent' + remembered[c] >= Window + IF InHand(c)' THEN 0 ELSE due[c]
  <2>1. due[c] \in Nat /\ remembered[c] \in Nat /\ AckWait \in Nat /\ c \in Request
    BY Numbers
  <2>2. c \in stored /\ (InHand(c) => InHand(c)' \/ Spent' = Spent + AckWait)
    BY <1>2
  <2>3. Spent + remembered[c] >= Window + IF InHand(c) THEN 0 ELSE due[c]
    BY <1>2, <2>2 DEF OnceInv, RememberedInv
  <2>4. InHand(c) => due[c] = AckWait
    BY <2>1 DEF OnceInv, HandInv
  <2> QED BY <1>1, <2>1, <2>2, <2>3, <2>4
<1>3. RememberedInv'
  BY <1>2 DEF RememberedInv
<1>4. JobsOnce'
  BY <1>1 DEF OnceInv, JobsOnce
<1> QED BY <1>3, <1>4

\* Time passes only while nothing is in hand, and not beyond a delivery that is due.
LEMMA TickOnce ==
    ASSUME IInv, OnceInv, Tick, punctual'
    PROVE  OnceInv'
<1>1. /\ due' = Minus1(due) /\ remembered' = Minus1(remembered) /\ Waiting
      /\ UNCHANGED <<stored, http, jobs, faults, pc, current, inbox>>
  BY DEF Tick, clientVars, coordinatorVars
<1>2. inbox = <<>> /\ pc = "idle" /\ current = None /\ \A r \in stored : due[r] > 0
  BY <1>1 DEF Waiting, IInv, TypeOK
<1>3. \A r \in Request : ~InHand(r) /\ ~InHand(r)'
  BY <1>1, <1>2, Numbers DEF InHand, IInv
<1>4. PostedInv' /\ HandInv' /\ JobsOnce'
  BY <1>1, <1>2, <1>3 DEF OnceInv, PostedInv, HandInv, JobsOnce, Spent
<1>5. RememberedInv'
  <2> SUFFICES ASSUME NEW c \in Crawl, jobs[c] > 0, c \in stored
               PROVE  Spent + remembered'[c] >= Window + due'[c]
    <3>1. \A c \in Crawl : ~InHand(c)'
      BY <1>3, Numbers DEF IInv
    <3>2. Spent' = Spent
      BY <1>1 DEF Spent
    <3> QED BY <1>1, <3>1, <3>2 DEF RememberedInv
  <2>1. /\ Spent \in Nat /\ Window \in Nat /\ due[c] \in Nat /\ remembered[c] \in Nat
        /\ c \in Request
    BY Numbers DEF IInv
  <2>2. Spent + remembered[c] >= Window + due[c]
    BY <1>3, <2>1 DEF OnceInv, RememberedInv
  <2>3. /\ due'[c] = due[c] - 1 /\ due[c] > 0
        /\ remembered'[c] = IF remembered[c] = 0 THEN 0 ELSE remembered[c] - 1
    <3>1. DOMAIN due = Request /\ DOMAIN remembered = Crawl
      BY DEF IInv, TypeOK
    <3>2. /\ due'[c] = IF due[c] = 0 THEN 0 ELSE due[c] - 1
          /\ remembered'[c] = IF remembered[c] = 0 THEN 0 ELSE remembered[c] - 1
      BY <1>1, <2>1, <3>1 DEF Minus1
    <3> QED BY <1>2, <2>1, <3>2
  <2> QED BY <2>1, <2>2, <2>3
<1> QED BY <1>4, <1>5 DEF OnceInv

\* What the API and other clients do leaves the orchestrator's books alone.
LEMMA ClientsOnce ==
    ASSUME IInv, IInv', OnceInv,
           \/ ApiStart \/ ApiCrash
           \/ \E c \in Crawl : PostCrawl(c) \/ Answer(c)
           \/ \E g \in Garbage : PutGarbage(g)
    PROVE  OnceInv'
<1>1. /\ UNCHANGED <<due, jobs, remembered, pc, current, inbox>>
      /\ stored \subseteq stored'
      /\ Spent' = Spent \/ Spent' = Spent + AckWait
  <2>1. /\ UNCHANGED <<due, jobs, remembered, pc, current, inbox>> /\ stored \subseteq stored'
        /\ UNCHANGED faults \/ \E k \in FaultKind : Fault(k)
    BY DEF ApiStart, ApiCrash, PostCrawl, Answer, PutGarbage, streamVars, crawlVars,
           coordinatorVars, faultVars, FaultKind
  <2> QED BY <2>1, Spending DEF IInv, Spent
<1>2. \A c \in Crawl : c \in stored' => c \in stored \/ (http[c] = "none" /\ http'[c] # "none")
  <2>1. CASE ApiStart \/ ApiCrash \/ \E c \in Crawl : Answer(c)
    BY <2>1 DEF ApiStart, ApiCrash, Answer, streamVars
  <2>2. ASSUME NEW d \in Crawl, PostCrawl(d)
        PROVE  \A c \in Crawl : c \in stored' => \/ c \in stored
                                                 \/ http[c] = "none" /\ http'[c] # "none"
    <3>1. d \in Request /\ http \in [Request -> {"none", "stored", "202", "502", "dropped", "not HTTP"}]
      BY Numbers DEF IInv, TypeOK
    <3> QED BY <2>2, <3>1 DEF PostCrawl
  <2>3. ASSUME NEW g \in Garbage, PutGarbage(g)
        PROVE  \A c \in Crawl : c \in stored' => c \in stored
    BY <2>3, CrawlAssumption DEF PutGarbage
  <2> QED BY <2>1, <2>2, <2>3
<1>3. \A c \in Crawl : http[c] # "none" => http'[c] # "none"
  BY DEF ApiStart, ApiCrash, PostCrawl, Answer, PutGarbage, IInv, TypeOK, Request
<1>4. PostedInv'
  BY <1>1, <1>2, <1>3 DEF OnceInv, PostedInv
<1>5. HandInv'
  BY <1>1 DEF OnceInv, HandInv, InHand
<1>6. \A c \in Crawl : jobs[c] > 0 /\ c \in stored' => c \in stored
  BY <1>2 DEF OnceInv, PostedInv
<1>7. \A c : InHand(c) => InHand(c)'
  BY <1>1 DEF InHand
<1>8. RememberedInv' /\ JobsOnce'
  BY <1>1, <1>6, <1>7, StillRemembered DEF IInv
<1> QED BY <1>4, <1>5, <1>8 DEF OnceInv

\* A start changes nothing; a crash costs a fault, and lets go of what was in hand.
LEMMA ProcessOnce ==
    ASSUME IInv, IInv', OnceInv, Start \/ Ensure \/ Crash
    PROVE  OnceInv'
<1>1. UNCHANGED <<http, stored, due, jobs, remembered>> /\ pc' # "nak"
  BY DEF Start, Ensure, Crash, clientVars, streamVars, crawlVars, OnceInv, HandInv
<1>2. PostedInv'
  BY <1>1 DEF OnceInv, PostedInv
<1>3. CASE Start \/ Ensure
  <2>1. UNCHANGED <<current, inbox, faults>>
    BY <1>3 DEF Start, Ensure
  <2>2. Spent' = Spent /\ \A c : InHand(c)' <=> InHand(c)
    BY <2>1 DEF Spent, InHand
  <2>3. HandInv'
    BY <1>1, <2>1, <2>2 DEF OnceInv, HandInv
  <2>4. RememberedInv' /\ JobsOnce'
    BY <1>1, <2>2, StillRemembered DEF IInv
  <2> QED BY <1>2, <2>3, <2>4 DEF OnceInv
<1>4. CASE Crash
  <2>1. current' = None /\ inbox' = <<>> /\ Spent' = Spent + AckWait
    BY <1>4, Spending DEF Crash, IInv
  <2>2. \A r \in Request : ~InHand(r)'
    BY <2>1, Numbers DEF InHand, IInv
  <2>3. HandInv'
    BY <1>1, <2>1, <2>2 DEF HandInv
  <2>4. RememberedInv' /\ JobsOnce'
    BY <1>1, <2>1, StillRemembered DEF IInv
  <2> QED BY <1>2, <2>3, <2>4 DEF OnceInv
<1> QED BY <1>3, <1>4

\* A delivery is due, so it is of a request that is not in hand.
LEMMA DeliverOnce ==
    ASSUME IInv, OnceInv, NEW r \in Request, Deliver(r)
    PROVE  OnceInv'
<1>1. /\ r \in stored /\ due[r] = 0 /\ inbox' = Append(inbox, r)
      /\ due' = [due EXCEPT ![r] = AckWait]
      /\ UNCHANGED <<http, stored, jobs, remembered, pc, current, faults>>
  BY DEF Deliver, clientVars, crawlVars
<1>2. /\ inbox \in Seq(Request) /\ DOMAIN inbox = 1..Len(inbox) /\ Len(inbox) \in Nat
      /\ DOMAIN inbox' = 1..(Len(inbox) + 1)
      /\ \A i \in 1..Len(inbox) : inbox'[i] = inbox[i]
      /\ inbox'[Len(inbox) + 1] = r
  <2>1. inbox \in Seq(Request)
    BY DEF IInv, TypeOK
  <2>2. /\ Append(inbox, r) \in Seq(Request) /\ Len(Append(inbox, r)) = Len(inbox) + 1
        /\ \A i \in 1..Len(inbox) : Append(inbox, r)[i] = inbox[i]
        /\ Append(inbox, r)[Len(inbox) + 1] = r
    BY <2>1, AppendProperties
  <2>3. /\ DOMAIN inbox = 1..Len(inbox) /\ Len(inbox) \in Nat
        /\ DOMAIN Append(inbox, r) = 1..Len(Append(inbox, r))
    BY <2>1, <2>2, LenProperties
  <2> QED BY <1>1, <2>1, <2>2, <2>3
<1>3. \A i \in DOMAIN inbox' :
        \/ i \in DOMAIN inbox /\ inbox'[i] = inbox[i]
        \/ i = Len(inbox) + 1 /\ inbox'[i] = r
  BY <1>2
<1>4. (\A i \in DOMAIN inbox : i \in DOMAIN inbox') /\ Len(inbox) + 1 \in DOMAIN inbox'
  BY <1>2
<1>5. \A q \in Request : InHand(q)' <=> InHand(q) \/ q = r
  BY <1>1, <1>2, <1>3, <1>4 DEF InHand
<1>6. due'[r] = AckWait /\ \A q \in Request : q # r => due'[q] = due[q]
  BY <1>1 DEF IInv, TypeOK
<1>7. ~InHand(r)
  BY <1>1, Numbers DEF OnceInv, HandInv, IInv
<1>8. HandInv'
  <2>1. \A q \in Request : InHand(q)' => q \in stored' /\ due'[q] = AckWait
    BY <1>1, <1>5, <1>6 DEF OnceInv, HandInv
  <2>2. \A i \in DOMAIN inbox : inbox[i] # r
    BY <1>7 DEF InHand
  <2>3. \A i, j \in DOMAIN inbox' : inbox'[i] = inbox'[j] => i = j
    BY <1>3, <2>2 DEF OnceInv, HandInv
  <2>4. \A i \in DOMAIN inbox' : inbox'[i] # current'
    BY <1>1, <1>3, <1>7 DEF OnceInv, HandInv, InHand
  <2> QED BY <1>1, <2>1, <2>3, <2>4 DEF OnceInv, HandInv
<1>9. RememberedInv'
  <2> SUFFICES ASSUME NEW c \in Crawl, jobs[c] > 0, c \in stored
               PROVE  Spent + remembered[c] >= Window + IF InHand(c)' THEN 0 ELSE due'[c]
    BY <1>1 DEF RememberedInv, Spent
  <2>1. Spent + remembered[c] >= Window + IF InHand(c) THEN 0 ELSE due[c]
    BY DEF OnceInv, RememberedInv
  <2>2. c \in Request /\ Window \in Nat
    BY Numbers DEF IInv
  <2> QED BY <1>1, <1>5, <1>6, <1>7, <2>1, <2>2
<1>10. PostedInv' /\ JobsOnce'
  BY <1>1 DEF OnceInv, PostedInv, JobsOnce, Spent
<1> QED BY <1>8, <1>9, <1>10 DEF OnceInv

\* The callback's request is still in hand, and no longer in the buffer.
LEMMA TakeOnce ==
    ASSUME IInv, IInv', OnceInv, Take
    PROVE  OnceInv'
<1>1. /\ inbox # <<>> /\ pc = "idle" /\ pc' # "nak"
      /\ current' = Head(inbox) /\ inbox' = Tail(inbox)
      /\ UNCHANGED <<http, stored, due, jobs, remembered, faults>>
  BY DEF Take, clientVars, streamVars, crawlVars
<1>2. current = None
  BY <1>1 DEF IInv, TypeOK
<1>3. /\ Len(inbox) \in Nat \ {0} /\ DOMAIN inbox = 1..Len(inbox)
      /\ current' = inbox[1]
      /\ DOMAIN inbox' = 1..(Len(inbox) - 1)
      /\ \A i \in 1..(Len(inbox) - 1) : inbox'[i] = inbox[i + 1]
  <2>1. inbox \in Seq(Request) /\ inbox' \in Seq(Request)
    BY DEF IInv, TypeOK
  <2> QED BY <1>1, <2>1, HeadTailProperties, LenProperties, EmptySeq
<1>4. \A i \in DOMAIN inbox' : i + 1 \in DOMAIN inbox /\ i + 1 # 1 /\ inbox'[i] = inbox[i + 1]
  BY <1>3
<1>5. 1 \in DOMAIN inbox
  BY <1>3
<1>6. ASSUME NEW q \in Request PROVE InHand(q)' <=> InHand(q)
  <2>1. q # None
    BY Numbers DEF IInv
  <2>2. InHand(q)' => InHand(q)
    BY <1>3, <1>4, <1>5 DEF InHand
  <2>3. ASSUME InHand(q) PROVE InHand(q)'
    <3>1. PICK i \in DOMAIN inbox : inbox[i] = q
      BY <1>2, <2>1, <2>3 DEF InHand
    <3>2. CASE i = 1
      BY <1>3, <3>1, <3>2 DEF InHand
    <3>3. CASE i # 1
      <4>1. i - 1 \in 1..(Len(inbox) - 1) /\ (i - 1) + 1 = i
        BY <1>3, <3>3
      <4> QED BY <1>3, <3>1, <4>1 DEF InHand
    <3> QED BY <3>2, <3>3
  <2> QED BY <2>2, <2>3
<1>7. HandInv'
  <2>1. \A i, j \in DOMAIN inbox : inbox[i] = inbox[j] => i = j
    BY DEF OnceInv, HandInv
  <2>2. ASSUME NEW i \in DOMAIN inbox', NEW j \in DOMAIN inbox', inbox'[i] = inbox'[j]
        PROVE  i = j
    <3>1. i + 1 = j + 1
      BY <1>4, <2>1, <2>2
    <3> QED BY <1>3, <3>1
  <2>3. \A i \in DOMAIN inbox' : inbox'[i] # current'
    BY <1>3, <1>4, <1>5, <2>1
  <2> QED BY <1>1, <1>6, <2>2, <2>3 DEF OnceInv, HandInv
<1>8. RememberedInv' /\ JobsOnce'
  <2>1. Spent' = Spent
    BY <1>1 DEF Spent
  <2>2. \A c \in Crawl : InHand(c) => InHand(c)'
    BY <1>6, Numbers DEF IInv
  <2> QED BY <1>1, <2>1, <2>2, StillRemembered DEF IInv
<1> QED BY <1>1, <1>7, <1>8 DEF OnceInv, PostedInv

\* A punctual orchestrator's calls do not fail, so a status that is set leads to the job.
LEMMA StatusOnce ==
    ASSUME IInv, IInv', OnceInv, SetCrawlStatus, punctual'
    PROVE  OnceInv'
<1>1. /\ UNCHANGED <<http, stored, due, jobs, remembered, current, inbox>>
      /\ pc' = "job" /\ UNCHANGED faults
  <2>1. ~Fault("reply lost") /\ ~Fault("call fails")
    BY DEF Fault
  <2> QED BY <2>1 DEF SetCrawlStatus, clientVars, streamVars, faultVars
<1>2. Spent' = Spent /\ \A c : InHand(c)' <=> InHand(c)
  BY <1>1 DEF Spent, InHand
<1>3. PostedInv' /\ HandInv'
  BY <1>1, <1>2 DEF OnceInv, PostedInv, HandInv
<1>4. RememberedInv' /\ JobsOnce'
  BY <1>1, <1>2, StillRemembered DEF IInv
<1> QED BY <1>3, <1>4 DEF OnceInv

\* A job that is stored again was forgotten, and then the faults have cost the window.
LEMMA ScheduleOnce ==
    ASSUME IInv, IInv', OnceInv, ScheduleURL, punctual'
    PROVE  OnceInv'
<1>1. /\ UNCHANGED <<http, stored, due, current, inbox, faults>> /\ pc = "job" /\ pc' = "ack"
      /\ StoreJob(current)
  <2>1. ~Fault("reply lost") /\ ~Fault("call fails")
    BY DEF Fault
  <2> QED BY <2>1 DEF ScheduleURL, clientVars, streamVars, faultVars
<1>2. current \in Crawl /\ current \in Request
  BY <1>1, Numbers DEF IInv, ProgressInv
<1>3. \A c \in Crawl : c # current => jobs'[c] = jobs[c] /\ remembered'[c] = remembered[c]
  BY <1>1, <1>2, Storing DEF IInv
<1>4. Spent' = Spent /\ \A c : InHand(c)' <=> InHand(c)
  BY <1>1 DEF Spent, InHand
<1>5. InHand(current) /\ current \in stored
  BY <1>2 DEF InHand, OnceInv, HandInv
<1>6. PostedInv' /\ HandInv'
  BY <1>1, <1>3, <1>4, <1>5 DEF OnceInv, PostedInv, HandInv
<1>7. /\ Spent \in Nat /\ Window \in Nat \ {0}
      /\ \A c \in Crawl : jobs[c] \in Nat /\ remembered[c] \in Nat
  BY Numbers DEF IInv
<1>8. jobs[current] > 0 => Spent + remembered[current] >= Window
  BY <1>2, <1>5, <1>7 DEF OnceInv, RememberedInv
<1>9. /\ Spent + remembered'[current] >= Window
      /\ jobs'[current] > 1 => Spent >= Window
  <2>1. CASE remembered[current] > 0
    <3>1. UNCHANGED <<jobs, remembered>> /\ jobs[current] > 0
      BY <1>1, <1>2, <2>1 DEF StoreJob, IInv, JobsInv
    <3> QED BY <1>2, <1>8, <3>1 DEF OnceInv, JobsOnce
  <2>2. CASE ~(remembered[current] > 0)
    <3>1. remembered[current] = 0
      BY <1>2, <1>7, <2>2
    <3>2. /\ remembered' = [remembered EXCEPT ![current] = Window]
          /\ jobs' = [jobs EXCEPT ![current] = IF jobs[current] = 0 THEN 1 ELSE 2]
      BY <1>1, <2>2 DEF StoreJob
    <3>3. /\ remembered'[current] = Window
          /\ jobs'[current] = IF jobs[current] = 0 THEN 1 ELSE 2
      BY <1>2, <3>2 DEF IInv, TypeOK
    <3> QED BY <1>2, <1>7, <1>8, <3>1, <3>3
  <2> QED BY <2>1, <2>2
<1>10. RememberedInv'
  BY <1>1, <1>3, <1>4, <1>5, <1>7, <1>9 DEF OnceInv, RememberedInv
<1>11. JobsOnce'
  BY <1>3, <1>4, <1>9 DEF OnceInv, JobsOnce
<1> QED BY <1>6, <1>10, <1>11 DEF OnceInv

\* A request that is settled is gone, or waits for the delivery after its ack was lost.
LEMMA SettleOnce ==
    ASSUME IInv, IInv', OnceInv, Settle
    PROVE  OnceInv'
<1>1. /\ UNCHANGED <<http, jobs, remembered, inbox>> /\ pc' = "idle" /\ current' = None
      /\ \/ Remove(current) /\ UNCHANGED faults
         \/ UNCHANGED <<stored, due>> /\ Spent' = Spent + AckWait
  BY Spending DEF Settle, clientVars, streamVars, crawlVars, faultVars, IInv
<1>2. \A q \in Request : InHand(q)' <=> InHand(q) /\ q # current
  BY <1>1, Numbers DEF InHand, OnceInv, HandInv, IInv
<1>3. /\ stored' \subseteq stored
      /\ \A q \in Request : q # current => due'[q] = due[q] /\ (q \in stored => q \in stored')
      /\ current \in stored' => Spent' = Spent + AckWait /\ UNCHANGED due
  BY <1>1 DEF Remove, IInv, TypeOK
<1>4. PostedInv'
  BY <1>1, <1>3 DEF OnceInv, PostedInv
<1>5. HandInv'
  <2>1. \A i \in DOMAIN inbox' : inbox'[i] # current'
    <3>1. \A i \in DOMAIN inbox : inbox[i] \in Request
      <4>1. inbox \in Seq(Request)
        BY DEF IInv, TypeOK
      <4> QED BY <4>1, LenProperties, ElementOfSeq
    <3> QED BY <1>1, <3>1, Numbers DEF IInv
  <2> QED BY <1>1, <1>2, <1>3, <2>1 DEF OnceInv, HandInv
<1>6. Spent' = Spent \/ Spent' = Spent + AckWait
  BY <1>1 DEF Spent
<1>7. RememberedInv' /\ JobsOnce'
  <2>1. \A c \in Crawl : c \in stored' =>
          /\ c \in stored /\ due'[c] = due[c]
          /\ InHand(c) => InHand(c)' \/ Spent' = Spent + AckWait
    BY <1>2, <1>3, Numbers DEF IInv
  <2> QED BY <1>1, <1>6, <2>1, StillRemembered DEF IInv
<1> QED BY <1>4, <1>5, <1>7 DEF OnceInv

\* No fault makes an orchestrator punctual again.
LEMMA PunctualBefore ==
    ASSUME IInv, [Next]_vars, punctual'
    PROVE  punctual
BY DEF Next, Coordinate, Tick, ApiStart, ApiCrash, PostCrawl, Answer, PutGarbage, Start, Ensure,
       Crash, Deliver, Take, SetCrawlStatus, ScheduleURL, Settle, Nak, Fault, faultVars, vars

\* The crawls are scheduled once, for any timeouts and any number of crashes and lost acks that
\* together take less than the window.
THEOREM CrawlsScheduledOnce == Spec => []ScheduledOnce
<1> DEFINE Inv == IInv /\ (punctual => OnceInv)
<1>1. Init => Inv
  <2> SUFFICES ASSUME Init PROVE OnceInv
    BY InitIInv
  <2>1. \A r \in Request : ~InHand(r)
    BY CrawlAssumption DEF Init, InHand, Request
  <2> QED BY <2>1 DEF Init, OnceInv, PostedInv, HandInv, RememberedInv, JobsOnce
<1>2. Inv /\ [Next]_vars => Inv'
  <2> SUFFICES ASSUME IInv, [Next]_vars, punctual', punctual => OnceInv PROVE IInv' /\ OnceInv'
    BY CrawlStep
  <2>1. IInv' /\ OnceInv
    BY CrawlStep, PunctualBefore
  <2>2. CASE UNCHANGED vars
    BY <2>1, <2>2 DEF vars, OnceInv, PostedInv, HandInv, RememberedInv, JobsOnce, InHand, Spent
  <2>3. CASE Nak
    BY <2>1, <2>3 DEF Nak, OnceInv, HandInv
  <2> QED BY <2>1, <2>2, <2>3, TickOnce, ClientsOnce, ProcessOnce, DeliverOnce, TakeOnce,
             StatusOnce, ScheduleOnce, SettleOnce DEF Next, Coordinate
<1>3. Inv => ScheduledOnce
  <2> SUFFICES ASSUME IInv, OnceInv, Spent < Window, NEW c \in Crawl PROVE jobs[c] <= 1
    BY DEF ScheduledOnce, Spent
  <2> QED BY Numbers DEF IInv, OnceInv, JobsOnce
<1> QED BY <1>1, <1>2, <1>3, PTL DEF Spec

================================================================================
