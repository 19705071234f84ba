-------------------------------- MODULE Traffic --------------------------------
(***************************************************************************)
(* The traffic demo of api-gateway, cmd/traffic/main.go: it starts the     *)
(* gateway in its own process, sends requests to it from goroutines, at    *)
(* most as many at once as there are slots, keeps books of them under a    *)
(* mutex, and ends in order when it is told to.                            *)
(*                                                                         *)
(* Four kinds of goroutine step here: main's loop, the senders, the        *)
(* server's handlers, and the world outside (Ctrl+C, a listener that       *)
(* fails, backends, connections).  A step is what one of them does under   *)
(* the mutex, or on a channel, the WaitGroup or a connection.  A client    *)
(* gives up after five seconds and its handler may still be at work.       *)
(* Connections are kept alive: they outlive the listener until Shutdown,   *)
(* and a GET whose reused connection breaks before the answer is sent      *)
(* again by net/http, for which the handler runs a second time.  Of what   *)
(* the screen shows, the times, the list of recent requests and the count  *)
(* of skipped ones are left out: nothing is decided by them.               *)
(***************************************************************************)
EXTENDS Gateway, FiniteSets

CONSTANTS
    Configs,     \* configurations that Load may read
    None,        \* no configuration, or nothing
    OrdersEvery, \* each of these requests goes to orders (3), the others to users
    ErrorEvery,  \* each of these asks for a 503 (10)
    Concurrency, \* -concurrency
    MaxId,       \* requests sent, at most
    MaxResent    \* requests that net/http sends again, at most, and each of them once

ASSUME TrafficAssumption ==
    /\ OrdersEvery \in Nat \ {0} /\ ErrorEvery \in Nat \ {0} /\ Concurrency \in Nat \ {0}
    /\ MaxId \in Nat /\ MaxResent \in Nat
    /\ None \notin Configs
    /\ \A c \in Configs : c.routes \in Seq({c.routes[i] : i \in DOMAIN c.routes})

Id == 1..MaxId
Service == {"users", "orders"}
ServiceOf(id) == IF id % OrdersEvery = 0 THEN "orders" ELSE "users"
StatusOf(id) == IF id % ErrorEvery = 0 THEN "503" ELSE "200"

VARIABLES
    main,       \* where run is
    cfg,        \* the configuration that was loaded
    ctxDone,    \* whether ctx is done: Ctrl+C, or the duration is over
    serving,    \* whether the server accepts connections
    id,         \* the last request's
    slots,      \* slots taken
    workers,    \* the WaitGroup's counter
    sender,     \* per request: where its goroutine is
    handler,    \* per request: where its handler is
    response,   \* per request: what the handler answers
    resent,     \* requests that were sent again
    stats,      \* dashboard.stats: active, completed, failed, gatewayCount
    active,     \* dashboard.active
    screen      \* what the last screen showed

vars == <<main, cfg, ctxDone, serving, id, slots, workers, sender, handler, response,
          resent, stats, active, screen>>

mainVars == <<main, cfg, ctxDone, serving, id, screen>>
bookVars == <<stats, active>>
poolVars == <<slots, workers>>
requestVars == <<sender, handler, response, resent>>

\* The process runs until run returns.
Alive == main \notin {"returned", "failed"}

Init ==
    /\ main = "start" /\ cfg = None /\ ctxDone = FALSE /\ serving = FALSE
    /\ id = 0 /\ slots = 0 /\ workers = 0
    /\ sender = [i \in Id |-> "none"] /\ handler = [i \in Id |-> "none"]
    /\ response = [i \in Id |-> "none"] /\ resent = {}
    /\ stats = [s \in Service |-> [active |-> 0, completed |-> 0, failed |-> 0, gatewayCount |-> 0]]
    /\ active = {}
    /\ screen = None

--------------------------------------------------------------------------------
(* run. *)

\* run up to its loop: load, validate, build the gateway, ask the backends for their health.
Start ==
    /\ main = "start"
    /\ \/ \E c \in Configs :
            /\ Validate(c) /\ NewSucceeds(c)
            /\ main' = "loop" /\ cfg' = c /\ serving' = TRUE
       \/ main' = "failed" /\ UNCHANGED <<cfg, serving>>
    /\ UNCHANGED <<ctxDone, id, screen>>
    /\ UNCHANGED bookVars /\ UNCHANGED poolVars /\ UNCHANGED requestVars

\* Ctrl+C, or the duration is over.
Stop ==
    /\ main \in {"loop", "taken"} /\ ~ctxDone /\ ctxDone' = TRUE
    /\ UNCHANGED <<main, cfg, serving, id, screen>>
    /\ UNCHANGED bookVars /\ UNCHANGED poolVars /\ UNCHANGED requestVars

\* server.Serve returns with an error; the connections it has accepted live on.
ServeFails ==
    /\ main \in {"loop", "taken", "wait"} /\ serving /\ serving' = FALSE
    /\ UNCHANGED <<main, cfg, ctxDone, id, screen>>
    /\ UNCHANGED bookVars /\ UNCHANGED poolVars /\ UNCHANGED requestVars

\* A tick: take a slot for the next request.  Without one the request is skipped, which
\* changes nothing but the count that the screen shows.
Tick ==
    /\ main = "loop" /\ slots < Concurrency /\ id < MaxId
    /\ slots' = slots + 1 /\ main' = "taken"
    /\ UNCHANGED <<cfg, ctxDone, serving, id, workers, screen>>
    /\ UNCHANGED bookVars /\ UNCHANGED requestVars

\* The slot is taken: workers.Add(1), and the goroutine starts.
Launch ==
    /\ main = "taken" /\ main' = "loop"
    /\ id' = id + 1 /\ workers' = workers + 1
    /\ sender' = [sender EXCEPT ![id'] = "started"]
    /\ UNCHANGED <<cfg, ctxDone, serving, slots, handler, response, resent, screen>>
    /\ UNCHANGED bookVars

LoopEnds ==
    /\ main = "loop" /\ (ctxDone \/ ~serving)
    /\ main' = "wait"
    /\ UNCHANGED <<cfg, ctxDone, serving, id, screen>>
    /\ UNCHANGED bookVars /\ UNCHANGED poolVars /\ UNCHANGED requestVars

\* The server is shut down without waiting for the senders.
WaitSkipped ==
    /\ main = "wait"
    /\ main' = "shutdown" /\ serving' = FALSE
    /\ UNCHANGED <<cfg, ctxDone, id, screen>>
    /\ UNCHANGED bookVars /\ UNCHANGED poolVars /\ UNCHANGED requestVars

\* workers.Wait returns, and server.Shutdown closes the listener.
Wait ==
    /\ main = "wait" /\ workers = 0
    /\ main' = "shutdown" /\ serving' = FALSE
    /\ UNCHANGED <<cfg, ctxDone, id, screen>>
    /\ UNCHANGED bookVars /\ UNCHANGED poolVars /\ UNCHANGED requestVars

\* Shutdown returns when no connection is in use, or with an error after five seconds.
Shutdown ==
    /\ main = "shutdown"
    /\ main' = IF \A i \in Id : handler[i] \in {"none", "done"} THEN "render" ELSE "failed"
    /\ UNCHANGED <<cfg, ctxDone, serving, id, screen>>
    /\ UNCHANGED bookVars /\ UNCHANGED poolVars /\ UNCHANGED requestVars

\* The last screen, and the end of run.
Render ==
    /\ main = "render"
    /\ main' = "returned"
    /\ screen' = stats
    /\ UNCHANGED <<cfg, ctxDone, serving, id>>
    /\ UNCHANGED bookVars /\ UNCHANGED poolVars /\ UNCHANGED requestVars

--------------------------------------------------------------------------------
(* send and the goroutine around it. *)

Moves(i, from, to) == Alive /\ sender[i] = from /\ sender' = [sender EXCEPT ![i] = to]

\* send enters the request in the books.
Register(i) ==
    /\ Moves(i, "started", "active")
    /\ active' = active \cup {i}
    /\ stats' = [stats EXCEPT ![ServiceOf(i)].active = @ + 1]
    /\ UNCHANGED <<handler, response, resent>>
    /\ UNCHANGED mainVars /\ UNCHANGED poolVars

\* A connection on which another request was answered may be idle and be used again.
KeptAlive(i) == \E j \in Id \ {i} : response[j] # "none"

\* client.Do begins: the request is on a connection, a new one or one that is kept alive.
Do(i) ==
    /\ serving \/ KeptAlive(i)
    /\ Moves(i, "active", "waiting") /\ handler' = [handler EXCEPT ![i] = "arriving"]
    /\ UNCHANGED <<response, resent>>
    /\ UNCHANGED mainVars /\ UNCHANGED bookVars /\ UNCHANGED poolVars

\* What client.Do and the body may come to: the response, or an error when there is no
\* connection or the client gives up.
Outcomes(i) == {"ERR"} \cup (IF sender[i] = "waiting" THEN {response[i]} \ {"none"} ELSE {})

\* A request that failed is not taken off the books.
CountKeepsFailed(i) ==
    /\ \E from \in {"active", "waiting"} : Moves(i, from, "counted")
    /\ \E code \in Outcomes(i) :
         /\ active' = IF code = "200" THEN active \ {i} ELSE active
         /\ stats' = [stats EXCEPT ![ServiceOf(i)].active = IF code = "200" THEN @ - 1 ELSE @,
                                   ![ServiceOf(i)].completed = @ + 1]
    /\ UNCHANGED <<handler, response, resent>>
    /\ UNCHANGED mainVars /\ UNCHANGED poolVars

\* client.Do and the body end, and send counts the request.
Count(i) ==
    /\ \E from \in {"active", "waiting"} : Moves(i, from, "counted")
    /\ active' = active \ {i}
    /\ \E code \in Outcomes(i) :
         stats' = [stats EXCEPT ![ServiceOf(i)].active = @ - 1,
                                ![ServiceOf(i)].completed = @ + 1,
                                ![ServiceOf(i)].failed = IF code = "200" THEN @ ELSE @ + 1]
    /\ UNCHANGED <<handler, response, resent>>
    /\ UNCHANGED mainVars /\ UNCHANGED poolVars

\* The deferred <-slots, the first of the two to run.
Release(i) ==
    /\ Moves(i, "counted", "released")
    /\ slots' = slots - 1 /\ UNCHANGED <<workers, handler, response, resent>>
    /\ UNCHANGED mainVars /\ UNCHANGED bookVars

\* The goroutines of orders end without workers.Done.
DoneForgotten(i) ==
    /\ Moves(i, "released", "done")
    /\ workers' = IF ServiceOf(i) = "users" THEN workers - 1 ELSE workers
    /\ UNCHANGED <<slots, handler, response, resent>>
    /\ UNCHANGED mainVars /\ UNCHANGED bookVars

\* The deferred workers.Done, and the end of the goroutine.
Done(i) ==
    /\ Moves(i, "released", "done")
    /\ workers' = workers - 1 /\ UNCHANGED <<slots, handler, response, resent>>
    /\ UNCHANGED mainVars /\ UNCHANGED bookVars

Sender(i) == Register(i) \/ Do(i) \/ Count(i) \/ Release(i) \/ Done(i)

--------------------------------------------------------------------------------
(* observe and the gateway. *)

\* A connection that is not accepted yet is lost with the listener.
Lost(i) ==
    /\ Alive /\ handler[i] = "arriving" /\ ~serving
    /\ handler' = [handler EXCEPT ![i] = "none"]
    /\ UNCHANGED <<sender, response, resent>>
    /\ UNCHANGED mainVars /\ UNCHANGED bookVars /\ UNCHANGED poolVars

\* observe looks the request up; its client may have given up already.
Observe(i) ==
    /\ Alive /\ handler[i] = "arriving"
    /\ handler' = [handler EXCEPT ![i] = IF i \in active THEN "known" ELSE "unknown"]
    /\ UNCHANGED <<sender, response, resent>>
    /\ UNCHANGED mainVars /\ UNCHANGED bookVars /\ UNCHANGED poolVars

\* The gateway answers.
Serve(i) ==
    /\ Alive /\ handler[i] \in {"known", "unknown"} /\ response[i] = "none"
    /\ \E r \in Responses(cfg, "GET", <<ServiceOf(i)>>, StatusOf(i)) :
         response' = [response EXCEPT ![i] = r]
    /\ UNCHANGED <<sender, handler, resent>>
    /\ UNCHANGED mainVars /\ UNCHANGED bookVars /\ UNCHANGED poolVars

\* The deferred function of observe counts the handler, if the request was known.
Counted(i) ==
    stats' = IF handler[i] = "known"
               THEN [stats EXCEPT ![ServiceOf(i)].gatewayCount = @ + 1] ELSE stats

HandlerEnds(i) ==
    /\ Alive /\ handler[i] \in {"known", "unknown"} /\ response[i] # "none"
    /\ handler' = [handler EXCEPT ![i] = "done"] /\ Counted(i)
    /\ UNCHANGED <<sender, response, resent, active>>
    /\ UNCHANGED mainVars /\ UNCHANGED poolVars

\* The backend's answer breaks off: ReverseProxy panics, the deferred function counts, and
\* the connection is closed before anything of the answer was sent on it.  If it was a reused
\* one and the client still waits, net/http sends the request again.
HandlerAborts(i) ==
    /\ Alive /\ handler[i] \in {"known", "unknown"} /\ response[i] = "none"
    /\ StatusOf(i) \in Responses(cfg, "GET", <<ServiceOf(i)>>, StatusOf(i))
    /\ Counted(i)
    /\ \/ handler' = [handler EXCEPT ![i] = "done"] /\ UNCHANGED resent
       \/ /\ sender[i] = "waiting" /\ KeptAlive(i)
          /\ i \notin resent /\ Cardinality(resent) < MaxResent
          /\ handler' = [handler EXCEPT ![i] = "arriving"] /\ resent' = resent \cup {i}
    /\ UNCHANGED <<sender, response, active>>
    /\ UNCHANGED mainVars /\ UNCHANGED poolVars

Next ==
    \/ Start \/ Stop \/ ServeFails \/ Tick \/ Launch \/ LoopEnds \/ Wait \/ Shutdown
    \/ Render
    \/ \E i \in Id : \/ Sender(i) \/ Lost(i) \/ Observe(i) \/ Serve(i)
                     \/ HandlerEnds(i) \/ HandlerAborts(i)

Spec == Init /\ [][Next]_vars

\* main goes on when it can, and so do the senders, whose clients give up after five
\* seconds.  Nothing is assumed of the handlers and the backends.
FairSpec ==
    /\ Spec
    /\ WF_vars(Launch \/ LoopEnds \/ Wait \/ Shutdown \/ Render)
    /\ WF_vars(\E i \in Id : Sender(i))

--------------------------------------------------------------------------------
(* Properties. *)

\* Type correctness.
TypeOK ==
    /\ main \in {"start", "loop", "taken", "wait", "shutdown", "render", "returned", "failed"}
    /\ cfg \in Configs \cup {None} /\ ctxDone \in BOOLEAN /\ serving \in BOOLEAN
    /\ id \in 0..MaxId /\ slots \in 0..Concurrency /\ workers \in 0..MaxId
    /\ sender \in [Id -> {"none", "started", "active", "waiting", "counted", "released", "done"}]
    /\ handler \in [Id -> {"none", "arriving", "known", "unknown", "done"}]
    /\ response \in [Id -> {"none", "200", "503", "502", "404", "upstream pool not found"}]
    /\ stats \in [Service -> [active : Nat, completed : Nat, failed : Nat, gatewayCount : Nat]]
    /\ active \subseteq Id /\ resent \subseteq Id

In(states) == {i \in Id : sender[i] \in states}

\* The dashboard, the slots and the WaitGroup agree with what the goroutines are doing: in
\* flight is what was registered and not counted, each request is counted once, no slot is
\* kept, main alone may hold one more, the WaitGroup counts who has not ended, and no more
\* handlers are counted than requests were registered, or sent again.
BooksBalance ==
    /\ active = In({"active", "waiting"})
    /\ slots = Cardinality(In({"started", "active", "waiting", "counted"}))
                + (IF main = "taken" THEN 1 ELSE 0)
    /\ workers = Cardinality(In({"started", "active", "waiting", "counted", "released"}))
    /\ \A s \in Service :
         LET ofS == {i \in Id : ServiceOf(i) = s} IN
         /\ stats[s].active = Cardinality(active \cap ofS)
         /\ stats[s].completed = Cardinality(In({"counted", "released", "done"}) \cap ofS)
         /\ stats[s].failed <= stats[s].completed
         /\ stats[s].gatewayCount <=
              stats[s].active + stats[s].completed + Cardinality(resent \cap ofS)

\* The last screen is the whole story: every request that was sent is done, counted and no
\* longer in flight, and no handler is at work that would still be counted.
LastScreenComplete ==
    screen # None =>
        /\ \A s \in Service : screen[s].active = 0
        /\ screen["users"].completed + screen["orders"].completed = id
        /\ \A i \in Id : handler[i] \in {"none", "done"}

\* A gateway that has started has a pool for every route: the 502 "upstream pool not found"
\* of proxy.go:80 is never answered.
PoolAlwaysFound == \A i \in Id : response[i] # "upstream pool not found"

\* README: "Ctrl+C stops the demo gateway and traffic after pending requests finish".
StopsWhenTold == ctxDone ~> main \in {"returned", "failed"}
================================================================================
