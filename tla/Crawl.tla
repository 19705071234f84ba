--------------------------------- MODULE Crawl ---------------------------------
(***************************************************************************)
(* The path of a crawl request through distributedcrawler: the API stores  *)
(* it on the CRAWL_REQUEST stream (internal/api/api.go), the orchestrator  *)
(* takes it from there, creates the crawl's status and puts its first URL  *)
(* job on the CRAWL_JOB stream (internal/coordinator/coordinate.go), both  *)
(* on the streams and the bucket of internal/messaging/messenger.go.       *)
(*                                                                         *)
(* NATS is the server's: a work queue that keeps a request until it is     *)
(* acknowledged, delivers it again AckWait after a delivery or the delay   *)
(* of a nak after it, and drops a job whose message id it has stored less  *)
(* than Window ago.  Either process may crash between any two calls, a     *)
(* call may fail, and its reply or an ack may be lost; MaxFaults bounds    *)
(* how often.  Times are counted in ticks.                                 *)
(***************************************************************************)
EXTENDS Naturals, Sequences, FiniteSets

CONSTANTS
    Crawl,      \* crawl ids: one for each POST, from uuid.NewV7
    Garbage,    \* messages another client puts on the subject that do not parse
    None,
    AckWait,    \* the consumer's acknowledgement timeout (30 s, the default)
    NakDelay,   \* NakWithDelay(2 * time.Minute)
    Window,     \* how long message ids are remembered (2 minutes, the default)
    Prefetch,   \* messages waiting in Consume's buffer at most (500)
    Faults,     \* which of FaultKind may happen
    MaxFaults   \* how many faults there are at most

FaultKind == {"call fails", "reply lost", "ack lost", "crash"}

ASSUME CrawlAssumption ==
    /\ None \notin Crawl \cup Garbage /\ Crawl \cap Garbage = {}
    /\ AckWait \in Nat \ {0} /\ NakDelay \in Nat \ {0} /\ Window \in Nat \ {0}
    /\ Prefetch \in Nat \ {0}
    /\ Faults \subseteq FaultKind /\ MaxFaults \in Nat

Request == Crawl \cup Garbage

VARIABLES
    api,        \* the API process: "down" or "up"
    http,       \* per request: what became of its POST
    infra,      \* the streams, consumers and the bucket that exist
    stored,     \* the requests on CRAWL_REQUEST
    due,        \* per request: ticks until it may be delivered
    status,     \* CRAWL_STATUS: the crawls that have one (it is always "pending")
    jobs,       \* per crawl: jobs ever stored on CRAWL_JOB; 2 stands for more than one
    remembered, \* per crawl: ticks until the server forgets its job's message id
    pc,         \* the orchestrator: down, starting, idle, or its next call
    current,    \* the request it is handling
    inbox,      \* deliveries waiting in the orchestrator
    faults,     \* how many faults there were
    punctual    \* history: whether all of them were crashes and lost acks, and no time
                \* passed while the orchestrator was down or had work to do

vars == <<api, http, infra, stored, due, status, jobs, remembered, pc, current, inbox,
          faults, punctual>>

clientVars == <<api, http>>
streamVars == <<stored, due>>
crawlVars == <<status, jobs, remembered>>
coordinatorVars == <<pc, current, inbox>>
faultVars == <<faults, punctual>>

--------------------------------------------------------------------------------
(* Faults and time. *)

Fault(kind) ==
    /\ kind \in Faults /\ faults < MaxFaults
    /\ faults' = faults + 1
    /\ punctual' = (punctual /\ kind \in {"ack lost", "crash"})

Minus1(timer) == [x \in DOMAIN timer |-> IF timer[x] = 0 THEN 0 ELSE timer[x] - 1]

\* The orchestrator is up and has nothing to do.
Waiting == pc = "idle" /\ inbox = <<>> /\ \A r \in stored : due[r] > 0

Tick ==
    /\ (\E r \in Request : due[r] > 0) \/ (\E c \in Crawl : remembered[c] > 0)
    /\ due' = Minus1(due) /\ remembered' = Minus1(remembered)
    /\ punctual' = (punctual /\ Waiting)
    /\ UNCHANGED <<stored, status, jobs, infra, faults>>
    /\ UNCHANGED <<clientVars, coordinatorVars>>

--------------------------------------------------------------------------------
(* The streams, the consumers and the bucket. *)

\* The bucket first and the streams after it.
InfrastructureBucketFirst ==
    << "CRAWL_STATUS", "CRAWL_REQUEST", "CRAWL_REQUEST_CONSUMER", "CRAWL_JOB",
       "CRAWL_JOB_CONSUMER", "CRAWL_RESULT", "CRAWL_RESULT_CONSUMER" >>

\* What EnsureInfrastructure creates, in its order.
Infrastructure ==
    << "CRAWL_REQUEST", "CRAWL_REQUEST_CONSUMER", "CRAWL_JOB", "CRAWL_JOB_CONSUMER",
       "CRAWL_RESULT", "CRAWL_RESULT_CONSUMER", "CRAWL_STATUS" >>

Everything == {Infrastructure[i] : i \in DOMAIN Infrastructure}

Init ==
    /\ api = "down"
    /\ http = [r \in Request |-> "none"]
    /\ infra = {} /\ stored = {} /\ status = {}
    /\ due = [r \in Request |-> 0]
    /\ jobs = [c \in Crawl |-> 0]
    /\ remembered = [c \in Crawl |-> 0]
    /\ pc = "down" /\ current = None /\ inbox = <<>>
    /\ faults = 0 /\ punctual = TRUE

--------------------------------------------------------------------------------
(* The API process. *)

\* main: serve only if the request stream and the status bucket exist.
ApiStart ==
    /\ api = "down" /\ {"CRAWL_REQUEST", "CRAWL_STATUS"} \subseteq infra
    /\ api' = "up"
    /\ UNCHANGED <<http, infra, faults, punctual>>
    /\ UNCHANGED <<streamVars, crawlVars, coordinatorVars>>

ApiCrash ==
    /\ api = "up" /\ Fault("crash")
    /\ api' = "down"
    /\ http' = [r \in Request |-> IF http[r] = "stored" THEN "dropped" ELSE http[r]]
    /\ UNCHANGED infra
    /\ UNCHANGED <<streamVars, crawlVars, coordinatorVars>>

\* Crawl up to Publish: the request is on the stream, or the call failed.
PostCrawl(c) ==
    /\ api = "up" /\ http[c] = "none"
    /\ \/ /\ stored' = stored \cup {c}
          /\ http' = [http EXCEPT ![c] = "stored"]
          /\ UNCHANGED faultVars
       \/ /\ Fault("call fails")
          /\ http' = [http EXCEPT ![c] = "502"]
          /\ UNCHANGED stored
    /\ UNCHANGED <<api, infra, due>>
    /\ UNCHANGED <<crawlVars, coordinatorVars>>

\* The API answers 202 and "pending", or 502 if it has no ack from the server, or one
\* that calls its own retry a duplicate.
Answer(c) ==
    /\ http[c] = "stored"
    /\ \/ http' = [http EXCEPT ![c] = "202"] /\ UNCHANGED faultVars
       \/ http' = [http EXCEPT ![c] = "502"] /\ Fault("reply lost")
    /\ UNCHANGED <<api, infra>>
    /\ UNCHANGED <<streamVars, crawlVars, coordinatorVars>>

\* What GET /crawl/{crawlId} answers, unless its read fails (500).
CrawlStatus(c) == IF c \in status THEN "pending" ELSE "crawl not found"

\* Another client of the server.
PutGarbage(g) ==
    /\ "CRAWL_REQUEST" \in infra /\ http[g] = "none"
    /\ http' = [http EXCEPT ![g] = "not HTTP"]
    /\ stored' = stored \cup {g}
    /\ UNCHANGED <<api, due, infra, faults, punctual>>
    /\ UNCHANGED <<crawlVars, coordinatorVars>>

--------------------------------------------------------------------------------
(* The orchestrator process. *)

Start ==
    /\ pc = "down"
    /\ pc' = "starting"
    /\ UNCHANGED <<current, inbox, infra, faults, punctual>>
    /\ UNCHANGED <<clientVars, streamVars, crawlVars>>

\* EnsureInfrastructure creates the first thing that is missing; when nothing is, Run
\* starts consuming.  Whatever exists already is left as it is.
Ensure ==
    /\ pc = "starting"
    /\ IF infra = Everything
         THEN pc' = "idle" /\ UNCHANGED infra
         ELSE /\ \E i \in DOMAIN Infrastructure :
                   /\ Infrastructure[i] \notin infra
                   /\ \A j \in 1..(i - 1) : Infrastructure[j] \in infra
                   /\ infra' = infra \cup {Infrastructure[i]}
              /\ UNCHANGED pc
    /\ UNCHANGED <<current, inbox, faults, punctual>>
    /\ UNCHANGED <<clientVars, streamVars, crawlVars>>

\* A crash, or one of the calls of a start that fails and ends in log.Fatal.
Crash ==
    /\ pc # "down" /\ Fault("crash")
    /\ pc' = "down" /\ current' = None /\ inbox' = <<>>
    /\ UNCHANGED infra
    /\ UNCHANGED <<clientVars, streamVars, crawlVars>>

\* The server delivers a request, or delivers it again.
Deliver(r) ==
    /\ pc \notin {"down", "starting"}
    /\ r \in stored /\ due[r] = 0 /\ Len(inbox) < Prefetch
    /\ inbox' = Append(inbox, r)
    /\ due' = [due EXCEPT ![r] = AckWait]
    /\ UNCHANGED <<stored, pc, current, infra, faults, punctual>>
    /\ UNCHANGED <<clientVars, crawlVars>>

\* requestConsumeCallback begins; Consume runs one callback at a time.
Take ==
    /\ pc = "idle" /\ inbox # <<>>
    /\ current' = Head(inbox) /\ inbox' = Tail(inbox)
    /\ pc' = IF current' \in Garbage THEN "term" ELSE "status"
    /\ UNCHANGED <<infra, faults, punctual>>
    /\ UNCHANGED <<clientVars, streamVars, crawlVars>>

\* An existing key is an error like any other.
SetCrawlStatusExistsIsError ==
    /\ pc = "status"
    /\ \/ status' = status \cup {current} /\ UNCHANGED faultVars
          /\ pc' = IF current \in status THEN "nak" ELSE "job"
       \/ status' = status \cup {current} /\ pc' = "nak" /\ Fault("reply lost")
    /\ UNCHANGED <<jobs, remembered, current, inbox, infra>>
    /\ UNCHANGED <<clientVars, streamVars>>

\* HandleStart goes on when the status could not be set.
SetCrawlStatusErrorIgnored ==
    /\ pc = "status"
    /\ pc' = "job"
    /\ \/ status' = status \cup {current} /\ UNCHANGED faultVars
       \/ UNCHANGED status /\ Fault("call fails")
    /\ UNCHANGED <<jobs, remembered, current, inbox, infra>>
    /\ UNCHANGED <<clientVars, streamVars>>

\* setCrawlStatus(pending): Create; that the key exists already is no error.
SetCrawlStatus ==
    /\ pc = "status"
    /\ \/ status' = status \cup {current} /\ pc' = "job" /\ UNCHANGED faultVars
       \/ status' = status \cup {current} /\ pc' = "nak" /\ Fault("reply lost")
       \/ UNCHANGED status /\ pc' = "nak" /\ Fault("call fails")
    /\ UNCHANGED <<jobs, remembered, current, inbox, infra>>
    /\ UNCHANGED <<clientVars, streamVars>>

\* The job arrives without a message id.
StoreJobWithoutID(c) ==
    /\ jobs' = [jobs EXCEPT ![c] = IF @ = 0 THEN 1 ELSE 2]
    /\ UNCHANGED remembered

\* The server stores the job of c unless it remembers its message id.
StoreJob(c) ==
    IF remembered[c] > 0 THEN UNCHANGED <<jobs, remembered>>
    ELSE /\ jobs' = [jobs EXCEPT ![c] = IF @ = 0 THEN 1 ELSE 2]
         /\ remembered' = [remembered EXCEPT ![c] = Window]

\* scheduleURL: publish the start URL's job.  (The errors of urlx that it ignores change the
\* URL in the job, which is data here; its message id has the crawl's id in it anyway.)
ScheduleURL ==
    /\ pc = "job"
    /\ \/ StoreJob(current) /\ pc' = "ack" /\ UNCHANGED faultVars
       \/ StoreJob(current) /\ pc' = "nak" /\ Fault("reply lost")
       \/ UNCHANGED <<jobs, remembered>> /\ pc' = "nak" /\ Fault("call fails")
    /\ UNCHANGED <<status, current, inbox, infra>>
    /\ UNCHANGED <<clientVars, streamVars>>

\* The work queue drops a request.
Remove(r) == stored' = stored \ {r} /\ due' = [due EXCEPT ![r] = 0]

\* The callback goes on after Term, to HandleStart with the zero value of its request.
SettleTermFallsThrough ==
    /\ pc \in {"ack", "term"} /\ Remove(current) /\ UNCHANGED faultVars
    /\ \/ pc = "ack" /\ pc' = "idle" /\ current' = None
       \/ pc = "term" /\ pc' = "status" /\ UNCHANGED current
    /\ UNCHANGED <<inbox, infra>>
    /\ UNCHANGED <<clientVars, crawlVars>>

\* Ack or Term removes the request from the work queue, if it reaches the server.
Settle ==
    /\ pc \in {"ack", "term"}
    /\ pc' = "idle" /\ current' = None
    /\ \/ Remove(current) /\ UNCHANGED faultVars
       \/ UNCHANGED streamVars /\ Fault("ack lost")
    /\ UNCHANGED <<inbox, infra>>
    /\ UNCHANGED <<clientVars, crawlVars>>

\* An error is acknowledged like a success.
NakAcks ==
    /\ pc = "nak"
    /\ pc' = "idle" /\ current' = None
    /\ Remove(current)
    /\ UNCHANGED <<inbox, infra, faults, punctual>>
    /\ UNCHANGED <<clientVars, crawlVars>>

\* NakWithDelay postpones the next delivery; lost, it leaves the one AckWait asked for.
Nak ==
    /\ pc = "nak"
    /\ pc' = "idle" /\ current' = None
    /\ \/ /\ due' = IF current \in stored THEN [due EXCEPT ![current] = NakDelay] ELSE due
          /\ UNCHANGED faultVars
       \/ UNCHANGED due /\ Fault("ack lost")
    /\ UNCHANGED <<stored, inbox, infra>>
    /\ UNCHANGED <<clientVars, crawlVars>>

Coordinate == Start \/ Ensure \/ Take \/ SetCrawlStatus \/ ScheduleURL \/ Settle \/ Nak

Next ==
    \/ Tick \/ ApiStart \/ ApiCrash \/ Coordinate \/ Crash
    \/ \E c \in Crawl : PostCrawl(c) \/ Answer(c)
    \/ \E g \in Garbage : PutGarbage(g)
    \/ \E r \in Request : Deliver(r)

Spec == Init /\ [][Next]_vars

\* The orchestrator is restarted and goes on, the server delivers, and time passes.
FairSpec ==
    /\ Spec
    /\ WF_vars(Coordinate) /\ WF_vars(Tick)
    /\ \A r \in Request : WF_vars(Deliver(r))
--------------------------------------------------------------------------------
(* Properties. *)

\* Type correctness; the orchestrator holds a request exactly while it handles one.
TypeOK ==
    /\ api \in {"down", "up"}
    /\ http \in [Request -> {"none", "stored", "202", "502", "dropped", "not HTTP"}]
    /\ infra \subseteq Everything /\ stored \subseteq Request
    /\ due \in [Request -> Nat] /\ status \subseteq Crawl
    /\ jobs \in [Crawl -> 0..2] /\ remembered \in [Crawl -> 0..Window]
    /\ pc \in {"down", "starting", "idle", "status", "job", "ack", "term", "nak"}
    /\ (current = None) = (pc \in {"down", "starting", "idle"})
    /\ current \in Request \cup {None}
    /\ inbox \in Seq(Request) /\ Len(inbox) <= Prefetch
    /\ faults \in 0..MaxFaults /\ punctual \in BOOLEAN

\* The API never serves before the whole infrastructure exists, although it looks for two
\* parts of it only (messenger.go:180): what it accepts has a consumer and a job stream.
ServesCompleteInfrastructure == api = "up" => infra = Everything

\* Whoever finds a crawl's job on the stream finds the crawl's status in the bucket, whatever
\* crashes, redeliveries and lost replies came before.
StatusBeforeJob == \A c \in Crawl : jobs[c] > 0 => CrawlStatus(c) = "pending"

\* No request the API has answered 202 is lost: it is on the stream, to be delivered again
\* if the orchestrator does not settle it, or its crawl has a status and a job.
AcceptedNotLost ==
    \A c \in Crawl : http[c] = "202" =>
        c \in stored \/ (CrawlStatus(c) = "pending" /\ jobs[c] > 0)

\* The message id does its work as long as redeliveries come soon enough: after no fault but
\* crashes and lost acks, few enough for the window, and with an orchestrator that is
\* restarted at once and keeps up, no crawl has been scheduled twice.
ScheduledOnce ==
    punctual /\ faults * AckWait < Window => \A c \in Crawl : jobs[c] <= 1

\* A crawl that was answered "pending" is found pending and is scheduled eventually, even if
\* GET answered "crawl not found" for a while.
AcceptedScheduled ==
    \A c \in Crawl : http[c] = "202" ~> CrawlStatus(c) = "pending" /\ jobs[c] > 0
================================================================================
