----------------------------- MODULE TrafficProofs -----------------------------
(***************************************************************************)
(* Proofs about Traffic for any configurations, numbers of requests and    *)
(* slots: the books balance, the last screen is complete, and a gateway    *)
(* that has started has a pool for every route.                            *)
(***************************************************************************)
EXTENDS Traffic, FiniteSetTheorems, SequenceTheorems, TLAPS

Stage == {"none", "started", "active", "waiting", "counted", "released", "done"}
HeldStages == {"started", "active", "waiting", "counted"}
WorkStages == {"started", "active", "waiting", "counted", "released"}
CountedStages == {"counted", "released", "done"}
Entry == [active : Nat, completed : Nat, failed : Nat, gatewayCount : Nat]

Of(s) == {i \in Id : ServiceOf(i) = s}
Served == {i \in Id : handler[i] = "done"}

\* A request's goroutine, handler and response come one after the other.
FlowInv ==
    /\ \A i \in Id : sender[i] = "none" <=> i > id
    /\ \A i \in Id : handler[i] # "none" => sender[i] \in {"waiting"} \cup CountedStages
    /\ \A i \in Id : response[i] # "none" => handler[i] \in {"known", "unknown", "done"}

\* The loop runs on a configuration that is valid; behind the WaitGroup no sender is at work
\* and the listener is closed, and behind Shutdown no handler is.
MainInv ==
    /\ main = "start" => id = 0
    /\ main \notin {"start", "failed"} => cfg \in Configs /\ Validate(cfg)
    /\ main \in {"shutdown", "render", "returned"} => workers = 0 /\ ~serving
    /\ main \in {"render", "returned"} => \A i \in Id : handler[i] \in {"none", "done"}
    /\ screen # None => main = "returned" /\ screen = stats

\* A slot for each goroutine that has not given it back, and one that main has taken for the
\* next; a place in the WaitGroup for each that has not returned.
PoolInv ==
    /\ slots = Cardinality(In(HeldStages)) + (IF main = "taken" THEN 1 ELSE 0)
    /\ workers = Cardinality(In(WorkStages))
    /\ main = "taken" => id < MaxId

\* The dashboard counts the goroutines at each stage.
BookInv ==
    /\ active = In({"active", "waiting"})
    /\ \A s \in Service :
         /\ stats[s].active = Cardinality(active \cap Of(s))
         /\ stats[s].completed = Cardinality(In(CountedStages) \cap Of(s))
         /\ stats[s].failed <= stats[s].completed
         /\ stats[s].gatewayCount <= Cardinality(Served \cap Of(s)) + Cardinality(resent \cap Of(s))

IInv == TypeOK /\ FlowInv /\ MainInv /\ PoolInv /\ BookInv /\ PoolAlwaysFound

--------------------------------------------------------------------------------
(* Counting requests. *)

LEMMA Bounds == Concurrency \in Nat \ {0} /\ MaxId \in Nat
BY TrafficAssumption

LEMMA Numbers ==
    ASSUME TypeOK
    PROVE  id \in 0..MaxId /\ slots \in 0..Concurrency /\ workers \in 0..MaxId
BY DEF TypeOK

LEMMA IdFinite ==
    /\ IsFiniteSet(Id) /\ Cardinality(Id) = MaxId
    /\ \A X \in SUBSET Id : IsFiniteSet(X) /\ Cardinality(X) \in 0..MaxId
<1>1. IsFiniteSet(Id) /\ Cardinality(Id) = MaxId
  BY FS_Interval, TrafficAssumption DEF Id
<1>2. \A X \in SUBSET Id : IsFiniteSet(X) /\ Cardinality(X) \in Nat /\ Cardinality(X) <= MaxId
  BY <1>1, FS_Subset, FS_CardinalityType
<1> QED BY <1>1, <1>2, TrafficAssumption

\* The requests of X that are in C, ...
LEMMA Countable ==
    ASSUME NEW X \in SUBSET Id, NEW C
    PROVE  IsFiniteSet(X \cap C) /\ Cardinality(X \cap C) \in Nat
<1>1. X \cap C \in SUBSET Id
  OBVIOUS
<1> QED BY ONLY <1>1, IdFinite

\* ... with one request more, ...
LEMMA OneMore ==
    ASSUME NEW X \in SUBSET Id, NEW C, NEW i \in Id, i \notin X
    PROVE  Cardinality((X \cup {i}) \cap C) = Cardinality(X \cap C) + (IF i \in C THEN 1 ELSE 0)
<1>1. IsFiniteSet(X \cap C) /\ Cardinality(X \cap C) \in Nat
  BY Countable
<1>2. CASE i \in C
  <2>1. (X \cup {i}) \cap C = (X \cap C) \cup {i} /\ i \notin X \cap C
    BY <1>2
  <2> QED BY ONLY <1>1, <1>2, <2>1, FS_AddElement
<1>3. CASE i \notin C
  <2>1. (X \cup {i}) \cap C = X \cap C
    BY <1>3
  <2> QED BY ONLY <1>1, <1>3, <2>1
<1> QED BY <1>2, <1>3

\* ... and with one request less.
LEMMA OneLess ==
    ASSUME NEW X \in SUBSET Id, NEW C, NEW i \in Id, i \in X
    PROVE  Cardinality((X \ {i}) \cap C) = Cardinality(X \cap C) - (IF i \in C THEN 1 ELSE 0)
<1>1. IsFiniteSet(X \cap C) /\ Cardinality(X \cap C) \in Nat
  BY Countable
<1>2. CASE i \in C
  <2>1. (X \ {i}) \cap C = (X \cap C) \ {i} /\ i \in X \cap C
    BY <1>2
  <2> QED BY ONLY <1>1, <1>2, <2>1, FS_RemoveElement
<1>3. CASE i \notin C
  <2>1. (X \ {i}) \cap C = X \cap C
    BY <1>3
  <2> QED BY ONLY <1>1, <1>3, <2>1
<1> QED BY <1>2, <1>3

\* The sender of request i moves from one stage to another.
LEMMA Moved ==
    ASSUME sender \in [Id -> Stage], NEW i \in Id, NEW to,
           sender' = [sender EXCEPT ![i] = to], NEW S
    PROVE  In(S)' = IF to \in S THEN In(S) \cup {i} ELSE In(S) \ {i}
BY DEF In

\* The WaitGroup is at zero: every sender has not begun or is done.
LEMMA AllReturned ==
    ASSUME TypeOK, PoolInv, workers = 0
    PROVE  \A i \in Id : sender[i] \in {"none", "done"}
<1>1. In(WorkStages) \in SUBSET Id
  BY DEF In
<1>2. In(WorkStages) = {}
  BY <1>1, IdFinite, FS_EmptySet DEF PoolInv
<1>3. \A i \in Id : sender[i] \in Stage /\ sender[i] \notin WorkStages
  BY <1>2 DEF In, TypeOK, Stage
<1> QED BY <1>3 DEF Stage, WorkStages

--------------------------------------------------------------------------------
(* Routes and their pools. *)

\* A set of numbers that is not empty has a first one.
LEMMA FirstOne ==
    ASSUME NEW S \in SUBSET Nat, S # {}
    PROVE  First(S) \in S
<1> DEFINE T == {0..i : i \in S}
<1>1. T \subseteq FiniteSubsetsOf(Nat) /\ T # {}
  <2>1. \A i \in S : 0..i \in SUBSET Nat /\ IsFiniteSet(0..i)
    BY FS_Interval
  <2> QED BY <2>1 DEF FiniteSubsetsOf
<1>2. PICK x \in T : \A y \in T : <<y, x>> \notin StrictSubsetOrdering(Nat)
  <2> HIDE DEF T
  <2> QED BY <1>1, FS_StrictSubsetOrderingWellFounded, WFMin
<1>3. PICK i \in S : x = 0..i
  BY <1>2
<1>4. \A j \in S : i <= j
  <2> SUFFICES ASSUME NEW j \in S, j < i PROVE FALSE
    OBVIOUS
  <2>1. 0..j \in SUBSET Nat /\ 0..i \in SUBSET Nat /\ 0..j \subseteq 0..i /\ 0..j # 0..i
    BY <1>3
  <2>2. <<0..j, 0..i>> \in StrictSubsetOrdering(Nat)
    BY ONLY <2>1 DEF StrictSubsetOrdering
  <2>3. 0..j \in T
    OBVIOUS
  <2> QED BY <1>2, <1>3, <2>2, <2>3
<1> QED BY <1>4 DEF First

\* The route that a request is matched with has a pool.
LEMMA RouteHasPool ==
    ASSUME NEW c \in Configs, Validate(c), NEW method, NEW path
    PROVE  LET i == Match(c, method, path) IN i # 0 => c.routes[i].pool \in PoolNames(c)
<1> DEFINE allowed == {i \in DOMAIN c.routes : MatchesMethod(c.routes[i], method)}
           exact == {i \in allowed : c.routes[i].path = path}
           under == {i \in allowed : /\ c.routes[i].prefix # <<>>
                                     /\ MatchesPrefix(path, c.routes[i].prefix)}
<1>1. DOMAIN c.routes \in SUBSET Nat
  <2>1. c.routes \in Seq({c.routes[i] : i \in DOMAIN c.routes})
    BY TrafficAssumption
  <2> QED BY <2>1, LenProperties
<1>2. exact \in SUBSET Nat /\ under \in SUBSET Nat
  BY <1>1
<1>3. \/ exact # {} /\ Match(c, method, path) = First(exact)
      \/ under # {} /\ Match(c, method, path) = First(under)
      \/ Match(c, method, path) = 0
  BY DEF Match
<1>4. Match(c, method, path) \in DOMAIN c.routes \cup {0}
  <2> HIDE DEF exact, under
  <2>1. Match(c, method, path) \in exact \cup under \cup {0}
    BY <1>2, <1>3, FirstOne
  <2> QED BY <2>1 DEF exact, under
<1> QED BY <1>4 DEF Validate

\* So a configuration that is valid never misses a pool.
LEMMA ResponsesOfValid ==
    ASSUME NEW c \in Configs, Validate(c), NEW method, NEW path, NEW status
    PROVE  Responses(c, method, path, status) \subseteq {"404", "502", status}
BY RouteHasPool DEF Responses

--------------------------------------------------------------------------------
(* The steps of main. *)

LEMMA InitIInv == Init => IInv
<1> SUFFICES ASSUME Init PROVE IInv
  OBVIOUS
<1>1. TypeOK
  <2>2. stats \in [Service -> Entry]
    BY DEF Init, Entry
  <2>3. /\ sender \in [Id -> Stage] /\ handler \in [Id -> {"none"}]
        /\ response \in [Id -> {"none"}]
    BY DEF Init, Stage
  <2>4. 0 \in 0..MaxId /\ 0 \in 0..Concurrency
    BY Bounds
  <2> QED BY <2>2, <2>3, <2>4 DEF Init, TypeOK, Entry, Stage
<1>2. FlowInv /\ MainInv /\ PoolAlwaysFound
  BY Bounds DEF Init, FlowInv, MainInv, PoolAlwaysFound, Id
<1>3. \A S : "none" \notin S => In(S) = {}
  BY DEF Init, In
<1>4. PoolInv
  BY <1>3, FS_EmptySet DEF Init, PoolInv, HeldStages, WorkStages
<1>5. BookInv
  <2>1. In({"active", "waiting"}) = {} /\ In(CountedStages) = {} /\ Served = {}
    BY <1>3 DEF Init, Served, CountedStages
  <2>2. \A s \in Service : {} \cap Of(s) = {}
    OBVIOUS
  <2>3. /\ active = {} /\ resent = {} /\ Cardinality({}) = 0
        /\ \A s \in Service : /\ stats[s].active = 0 /\ stats[s].completed = 0
                              /\ stats[s].failed = 0 /\ stats[s].gatewayCount = 0
    BY FS_EmptySet DEF Init
  <2> QED BY <2>1, <2>2, <2>3 DEF BookInv
<1> QED BY <1>1, <1>2, <1>4, <1>5 DEF IInv

\* Nothing changes but main's state, the listener's and the screen.
LEMMA SameBooks ==
    ASSUME TypeOK, PoolInv, BookInv,
           UNCHANGED bookVars, UNCHANGED poolVars, UNCHANGED requestVars, UNCHANGED id,
           main' = main \/ (main # "taken" /\ main' # "taken")
    PROVE  PoolInv' /\ BookInv'
BY DEF bookVars, poolVars, requestVars, PoolInv, BookInv, In, Served

LEMMA MainSteps ==
    ASSUME IInv, Start \/ Stop \/ ServeFails \/ LoopEnds \/ Wait \/ Shutdown \/ Render
    PROVE  IInv'
<1>1. UNCHANGED bookVars /\ UNCHANGED poolVars /\ UNCHANGED requestVars /\ UNCHANGED id
  BY DEF Start, Stop, ServeFails, LoopEnds, Wait, Shutdown, Render
<1>2. PoolInv' /\ BookInv'
  <2>1. main' = main \/ (main # "taken" /\ main' # "taken")
    BY DEF Start, Stop, ServeFails, LoopEnds, Wait, Shutdown, Render
  <2> QED BY <1>1, <2>1, SameBooks DEF IInv
<1>3. FlowInv' /\ PoolAlwaysFound'
  BY <1>1 DEF IInv, FlowInv, PoolAlwaysFound, requestVars
<1>4. TypeOK'
  BY <1>1 DEF IInv, TypeOK, bookVars, poolVars, requestVars, Start, Stop, ServeFails,
              LoopEnds, Wait, Shutdown, Render
<1>5. MainInv'
  <2> USE <1>1 DEF IInv, MainInv, bookVars, poolVars, requestVars
  <2>1. CASE Start
    BY <2>1 DEF Start
  <2>2. CASE Stop \/ ServeFails \/ LoopEnds
    BY <2>2 DEF Stop, ServeFails, LoopEnds
  <2>3. CASE Wait
    BY <2>3 DEF Wait
  <2>4. CASE Shutdown
    BY <2>4 DEF Shutdown
  <2>5. CASE Render
    BY <2>5 DEF Render
  <2> QED BY <2>1, <2>2, <2>3, <2>4, <2>5
<1> QED BY <1>2, <1>3, <1>4, <1>5 DEF IInv

LEMMA TickStep ==
    ASSUME IInv, Tick
    PROVE  IInv'
<1>1. /\ main = "loop" /\ main' = "taken" /\ slots < Concurrency /\ slots' = slots + 1
      /\ id < MaxId
      /\ UNCHANGED <<cfg, ctxDone, serving, id, workers, screen, stats, active, sender, handler,
                     response, resent>>
  BY DEF Tick, bookVars, requestVars
<1>2. slots' \in 0..Concurrency
  BY ONLY IInv, <1>1, Bounds, Numbers DEF IInv
<1>3. PoolInv'
  <2>1. In(HeldStages)' = In(HeldStages) /\ In(WorkStages)' = In(WorkStages)
    BY <1>1 DEF In
  <2>2. slots = Cardinality(In(HeldStages)) /\ workers = Cardinality(In(WorkStages))
    <3>1. In(HeldStages) \in SUBSET Id
      BY DEF In
    <3>2. Cardinality(In(HeldStages)) \in Nat
      BY <3>1, IdFinite
    <3> QED BY <1>1, <3>2 DEF IInv, PoolInv
  <2> QED BY <1>1, <2>1, <2>2 DEF PoolInv
<1>4. TypeOK'
  BY <1>1, <1>2 DEF IInv, TypeOK
<1>5. FlowInv' /\ MainInv' /\ PoolAlwaysFound'
  BY <1>1 DEF IInv, FlowInv, MainInv, PoolAlwaysFound
<1>6. BookInv'
  BY <1>1 DEF IInv, BookInv, In, Served
<1> QED BY <1>3, <1>4, <1>5, <1>6 DEF IInv

LEMMA LaunchStep ==
    ASSUME IInv, Launch
    PROVE  IInv'
<1>1. /\ main = "taken" /\ main' = "loop" /\ id' = id + 1 /\ workers' = workers + 1
      /\ sender' = [sender EXCEPT ![id'] = "started"] /\ id < MaxId
      /\ UNCHANGED <<cfg, ctxDone, serving, slots, screen, stats, active, handler, response,
                     resent>>
  BY DEF Launch, bookVars, IInv, PoolInv
<1> DEFINE n == id + 1
<1>2. n \in Id /\ sender[n] = "none" /\ sender' = [sender EXCEPT ![n] = "started"]
      /\ sender \in [Id -> Stage] /\ id' = n /\ id \in Nat
  <2>1. id \in Nat /\ n \in 1..MaxId
    BY ONLY IInv, <1>1, Bounds, Numbers DEF IInv, n
  <2>2. sender[n] = "none"
    BY <2>1 DEF IInv, FlowInv, Id
  <2> QED BY <1>1, <2>1, <2>2 DEF IInv, TypeOK, Id, Stage
<1> HIDE DEF n
<1>3. /\ In(HeldStages)' = In(HeldStages) \cup {n} /\ n \notin In(HeldStages)
      /\ In(WorkStages)' = In(WorkStages) \cup {n} /\ n \notin In(WorkStages)
      /\ In({"active", "waiting"})' = In({"active", "waiting"}) \ {n}
      /\ In(CountedStages)' = In(CountedStages) \ {n}
  BY <1>2, Moved DEF HeldStages, WorkStages, CountedStages, In
<1>4. /\ In({"active", "waiting"})' = In({"active", "waiting"})
      /\ In(CountedStages)' = In(CountedStages)
  BY <1>2, <1>3 DEF In, CountedStages
<1>5. /\ In(HeldStages) \in SUBSET Id /\ In(WorkStages) \in SUBSET Id
      /\ In(WorkStages)' \in SUBSET Id
  BY DEF In
<1>6. PoolInv'
  <2>1. /\ Cardinality(In(HeldStages) \cup {n}) = Cardinality(In(HeldStages)) + 1
        /\ Cardinality(In(WorkStages) \cup {n}) = Cardinality(In(WorkStages)) + 1
        /\ Cardinality(In(HeldStages)) \in Nat
    BY <1>3, <1>5, IdFinite, FS_AddElement
  <2> QED BY <1>1, <1>3, <2>1 DEF IInv, PoolInv
<1>7. TypeOK'
  <2>1. workers' \in 0..MaxId
    BY <1>5, <1>6, IdFinite DEF PoolInv
  <2>2. id' \in 0..MaxId
    BY <1>2 DEF Id
  <2> QED BY <1>1, <1>2, <2>1, <2>2 DEF IInv, TypeOK, Stage
<1>8. FlowInv'
  <2>1. \A i \in Id : sender'[i] = IF i = n THEN "started" ELSE sender[i]
    BY <1>2
  <2>2. \A i \in Id : i > n <=> i > id /\ i # n
    BY <1>2 DEF Id, n
  <2>3. \A i \in Id : handler[i] # "none" => i # n
    BY <1>2 DEF IInv, FlowInv, CountedStages
  <2> QED BY <1>1, <1>2, <2>1, <2>2, <2>3 DEF IInv, FlowInv
<1>9. MainInv' /\ PoolAlwaysFound'
  BY <1>1 DEF IInv, MainInv, PoolAlwaysFound
<1>10. BookInv'
  BY <1>1, <1>4 DEF IInv, BookInv, Served
<1> QED BY <1>6, <1>7, <1>8, <1>9, <1>10 DEF IInv

--------------------------------------------------------------------------------
(* The steps of the senders. *)

\* What follows for every step of a sender.
LEMMA SenderMoves ==
    ASSUME IInv, NEW i \in Id, NEW from \in Stage \ {"none"}, NEW to \in Stage \ {"none"},
           Moves(i, from, to)
    PROVE  /\ sender \in [Id -> Stage] /\ sender' \in [Id -> Stage]
           /\ sender[i] = from /\ sender' = [sender EXCEPT ![i] = to]
           /\ \A j \in Id : sender'[j] = IF j = i THEN to ELSE sender[j]
           /\ id' = id => \A j \in Id : sender'[j] = "none" <=> j > id'
           /\ main \notin {"returned", "failed"}
<1>1. sender \in [Id -> Stage]
  BY DEF IInv, TypeOK, Stage
<1>2. sender[i] = from /\ sender' = [sender EXCEPT ![i] = to] /\ main \notin {"returned", "failed"}
  BY DEF Moves, Alive
<1>3. /\ sender' \in [Id -> Stage]
      /\ \A j \in Id : sender'[j] = IF j = i THEN to ELSE sender[j]
  BY <1>1, <1>2
<1> QED BY <1>1, <1>2, <1>3 DEF IInv, FlowInv

\* Another entry for one service.
LEMMA Entered ==
    ASSUME TypeOK, NEW s \in Service, NEW r \in Entry, stats' = [stats EXCEPT ![s] = r]
    PROVE  /\ stats' \in [Service -> Entry]
           /\ \A v \in Service : stats'[v] = IF v = s THEN r ELSE stats[v]
BY DEF TypeOK, Entry

LEMMA ServiceType == \A i \in Id : ServiceOf(i) \in Service
BY DEF ServiceOf, Service

LEMMA EntryType ==
    ASSUME TypeOK, NEW s \in Service
    PROVE  stats[s] \in Entry /\ stats[s].active \in Nat /\ stats[s].completed \in Nat
           /\ stats[s].failed \in Nat /\ stats[s].gatewayCount \in Nat
BY DEF TypeOK, Entry

LEMMA RegisterStep ==
    ASSUME IInv, NEW i \in Id, Register(i)
    PROVE  IInv'
<1>1. /\ Moves(i, "started", "active")
      /\ active' = active \cup {i}
      /\ stats' = [stats EXCEPT ![ServiceOf(i)].active = @ + 1]
      /\ UNCHANGED <<handler, response, resent, main, cfg, ctxDone, serving, id, screen,
                     slots, workers>>
  BY DEF Register, mainVars, poolVars
<1>2. /\ sender \in [Id -> Stage] /\ sender' \in [Id -> Stage]
      /\ sender[i] = "started" /\ sender' = [sender EXCEPT ![i] = "active"]
      /\ \A j \in Id : sender'[j] = IF j = i THEN "active" ELSE sender[j]
      /\ \A j \in Id : sender'[j] = "none" <=> j > id'
      /\ main \notin {"returned", "failed"}
  BY <1>1, SenderMoves DEF Stage
<1>3. /\ In(HeldStages)' = In(HeldStages) /\ In(WorkStages)' = In(WorkStages)
      /\ In({"active", "waiting"})' = In({"active", "waiting"}) \cup {i}
      /\ In(CountedStages)' = In(CountedStages)
      /\ i \notin In({"active", "waiting"})
  BY <1>2 DEF In, HeldStages, WorkStages, CountedStages
<1> DEFINE s == ServiceOf(i)
           r == [stats[s] EXCEPT !.active = @ + 1]
<1>4. /\ s \in Service /\ r \in Entry /\ r.active = stats[s].active + 1
      /\ r.completed = stats[s].completed /\ r.failed = stats[s].failed
      /\ r.gatewayCount = stats[s].gatewayCount /\ stats' = [stats EXCEPT ![s] = r]
  BY <1>1, ServiceType, EntryType DEF IInv, Entry
<1> HIDE DEF r
<1>5. /\ stats' \in [Service -> Entry]
      /\ \A v \in Service : stats'[v] = IF v = s THEN r ELSE stats[v]
  BY <1>4, Entered DEF IInv
<1>6. TypeOK'
  BY <1>1, <1>2, <1>5 DEF IInv, TypeOK, Entry, Stage
<1>7. FlowInv'
  BY <1>1, <1>2 DEF IInv, FlowInv, CountedStages
<1>8. MainInv' /\ PoolInv' /\ PoolAlwaysFound'
  BY <1>1, <1>2, <1>3 DEF IInv, MainInv, PoolInv, PoolAlwaysFound
<1>9. BookInv'
  <2>1. active' = In({"active", "waiting"})' /\ active = In({"active", "waiting"})
        /\ active \in SUBSET Id /\ i \notin active
    BY <1>1, <1>3 DEF IInv, BookInv, In
  <2> SUFFICES ASSUME NEW v \in Service
               PROVE  /\ stats'[v].active = Cardinality((active \cup {i}) \cap Of(v))
                      /\ stats'[v].completed = Cardinality(In(CountedStages) \cap Of(v))
                      /\ stats'[v].failed <= stats'[v].completed
                      /\ stats'[v].gatewayCount <=
                           Cardinality(Served \cap Of(v)) + Cardinality(resent \cap Of(v))
    BY <1>1, <1>3, <2>1 DEF BookInv, Served, Of
  <2>2. Cardinality((active \cup {i}) \cap Of(v)) =
          Cardinality(active \cap Of(v)) + (IF i \in Of(v) THEN 1 ELSE 0)
    BY ONLY <2>1, OneMore
  <2>3. i \in Of(v) <=> v = s
    BY DEF Of
  <2>4. /\ stats[v].active = Cardinality(active \cap Of(v))
        /\ stats[v].completed = Cardinality(In(CountedStages) \cap Of(v))
        /\ stats[v].failed <= stats[v].completed
        /\ stats[v].gatewayCount <=
             Cardinality(Served \cap Of(v)) + Cardinality(resent \cap Of(v))
    BY DEF IInv, BookInv
  <2>5. Cardinality(active \cap Of(v)) \in Nat
    BY ONLY <2>1, Countable
  <2> QED BY <1>4, <1>5, <2>2, <2>3, <2>4, <2>5
<1> QED BY <1>6, <1>7, <1>8, <1>9 DEF IInv

LEMMA DoStep ==
    ASSUME IInv, NEW i \in Id, Do(i)
    PROVE  IInv'
<1>1. /\ Moves(i, "active", "waiting") /\ handler' = [handler EXCEPT ![i] = "arriving"]
      /\ UNCHANGED <<response, resent, main, cfg, ctxDone, serving, id, screen, stats, active,
                     slots, workers>>
  BY DEF Do, mainVars, bookVars, poolVars
<1>2. /\ sender \in [Id -> Stage] /\ sender' \in [Id -> Stage]
      /\ sender[i] = "active"
      /\ \A j \in Id : sender'[j] = IF j = i THEN "waiting" ELSE sender[j]
      /\ \A j \in Id : sender'[j] = "none" <=> j > id'
      /\ main \notin {"returned", "failed"}
  BY <1>1, SenderMoves DEF Stage
<1>3. /\ In(HeldStages)' = In(HeldStages) /\ In(WorkStages)' = In(WorkStages)
      /\ In({"active", "waiting"})' = In({"active", "waiting"})
      /\ In(CountedStages)' = In(CountedStages)
  BY <1>2 DEF In, HeldStages, WorkStages, CountedStages
<1>4. /\ handler[i] = "none"
      /\ \A j \in Id : handler'[j] = IF j = i THEN "arriving" ELSE handler[j]
      /\ response[i] = "none"
  BY <1>1, <1>2 DEF IInv, TypeOK, FlowInv, CountedStages
<1>5. TypeOK'
  BY <1>1, <1>2, <1>4 DEF IInv, TypeOK, Stage
<1>6. FlowInv'
  BY <1>1, <1>2, <1>4 DEF IInv, FlowInv
<1>7. main \notin {"start", "shutdown", "render", "returned"}
  <2>1. id # 0
    BY <1>2, Bounds, Numbers DEF IInv, FlowInv, Id
  <2>2. workers # 0
    BY <1>2, AllReturned DEF IInv
  <2> QED BY <2>1, <2>2 DEF IInv, MainInv
<1>8. MainInv' /\ PoolInv' /\ PoolAlwaysFound'
  BY <1>1, <1>2, <1>3, <1>7 DEF IInv, MainInv, PoolInv, PoolAlwaysFound
<1>9. BookInv'
  <2>1. Served' = Served
    BY <1>4 DEF Served
  <2> QED BY <1>1, <1>3, <2>1 DEF IInv, BookInv, Of
<1> QED BY <1>5, <1>6, <1>8, <1>9 DEF IInv

LEMMA CountStep ==
    ASSUME IInv, NEW i \in Id, Count(i)
    PROVE  IInv'
<1>1. PICK from \in {"active", "waiting"} : Moves(i, from, "counted")
  BY DEF Count
<1>2. PICK code \in Outcomes(i) :
        stats' = [stats EXCEPT ![ServiceOf(i)].active = @ - 1,
                               ![ServiceOf(i)].completed = @ + 1,
                               ![ServiceOf(i)].failed = IF code = "200" THEN @ ELSE @ + 1]
  BY DEF Count
<1>3. /\ active' = active \ {i}
      /\ UNCHANGED <<handler, response, resent, main, cfg, ctxDone, serving, id, screen,
                     slots, workers>>
  BY DEF Count, mainVars, poolVars
<1>4. /\ sender \in [Id -> Stage] /\ sender' \in [Id -> Stage]
      /\ sender[i] = from
      /\ \A j \in Id : sender'[j] = IF j = i THEN "counted" ELSE sender[j]
      /\ \A j \in Id : sender'[j] = "none" <=> j > id'
      /\ main \notin {"returned", "failed"}
  BY <1>1, <1>3, SenderMoves DEF Stage
<1>5. /\ In(HeldStages)' = In(HeldStages) /\ In(WorkStages)' = In(WorkStages)
      /\ In({"active", "waiting"})' = In({"active", "waiting"}) \ {i}
      /\ In(CountedStages)' = In(CountedStages) \cup {i}
      /\ i \in In({"active", "waiting"}) /\ i \notin In(CountedStages)
  BY <1>4 DEF In, HeldStages, WorkStages, CountedStages
<1> DEFINE s == ServiceOf(i)
           r == [stats[s] EXCEPT !.active = @ - 1, !.completed = @ + 1,
                                 !.failed = IF code = "200" THEN @ ELSE @ + 1]
<1>6. active = In({"active", "waiting"}) /\ active \in SUBSET Id /\ i \in active
  BY <1>5 DEF IInv, BookInv, In
<1>7. \A v \in Service :
        /\ Cardinality((active \ {i}) \cap Of(v)) =
             Cardinality(active \cap Of(v)) - (IF v = s THEN 1 ELSE 0)
        /\ Cardinality((In(CountedStages) \cup {i}) \cap Of(v)) =
             Cardinality(In(CountedStages) \cap Of(v)) + (IF v = s THEN 1 ELSE 0)
        /\ Cardinality((active \ {i}) \cap Of(v)) \in Nat
  <2> SUFFICES ASSUME NEW v \in Service
               PROVE  /\ Cardinality((active \ {i}) \cap Of(v)) =
                           Cardinality(active \cap Of(v)) - (IF v = s THEN 1 ELSE 0)
                      /\ Cardinality((In(CountedStages) \cup {i}) \cap Of(v)) =
                           Cardinality(In(CountedStages) \cap Of(v)) + (IF v = s THEN 1 ELSE 0)
                      /\ Cardinality((active \ {i}) \cap Of(v)) \in Nat
    OBVIOUS
  <2>1. i \in Of(v) <=> v = s
    BY DEF Of
  <2>2. In(CountedStages) \in SUBSET Id /\ active \ {i} \in SUBSET Id
    BY <1>6 DEF In
  <2>3. Cardinality((active \ {i}) \cap Of(v)) =
          Cardinality(active \cap Of(v)) - (IF i \in Of(v) THEN 1 ELSE 0)
    BY ONLY <1>6, OneLess
  <2>4. Cardinality((In(CountedStages) \cup {i}) \cap Of(v)) =
          Cardinality(In(CountedStages) \cap Of(v)) + (IF i \in Of(v) THEN 1 ELSE 0)
    BY ONLY <1>5, <2>2, OneMore
  <2>5. Cardinality((active \ {i}) \cap Of(v)) \in Nat
    BY ONLY <2>2, Countable
  <2> QED BY <2>1, <2>3, <2>4, <2>5
<1>8. s \in Service /\ stats[s].active > 0
  <2>1. s \in Service
    BY ServiceType
  <2>2. Cardinality(active \cap Of(s)) - 1 \in Nat
    BY <1>7, <2>1
  <2>3. stats[s].active = Cardinality(active \cap Of(s)) /\ stats[s].active \in Nat
    BY <2>1, EntryType DEF IInv, BookInv
  <2> QED BY <2>1, <2>2, <2>3
<1>9. /\ r \in Entry /\ r.active = stats[s].active - 1
      /\ r.completed = stats[s].completed + 1
      /\ r.failed \in {stats[s].failed, stats[s].failed + 1}
      /\ r.gatewayCount = stats[s].gatewayCount /\ stats' = [stats EXCEPT ![s] = r]
  <2>1. stats[s] \in Entry /\ stats[s].active - 1 \in Nat /\ stats[s].failed + 1 \in Nat
        /\ stats[s].completed + 1 \in Nat
    BY <1>8, EntryType DEF IInv
  <2>2. r = [stats[s] EXCEPT !.active = stats[s].active - 1, !.completed = stats[s].completed + 1,
                             !.failed = IF code = "200" THEN stats[s].failed ELSE stats[s].failed + 1]
    OBVIOUS
  <2>3. stats' = [stats EXCEPT ![s] = r]
    BY <1>2
  <2> QED BY <2>1, <2>2, <2>3 DEF Entry
<1> HIDE DEF r
<1>10. /\ stats' \in [Service -> Entry]
       /\ \A v \in Service : stats'[v] = IF v = s THEN r ELSE stats[v]
  BY <1>8, <1>9, Entered DEF IInv
<1>11. TypeOK'
  <2>2. active' \subseteq Id
    BY <1>3, <1>6
  <2> QED BY <1>3, <1>4, <1>10, <2>2 DEF IInv, TypeOK, Entry, Stage
<1>12. FlowInv'
  BY <1>3, <1>4 DEF IInv, FlowInv, CountedStages
<1>13. MainInv' /\ PoolInv' /\ PoolAlwaysFound'
  BY <1>3, <1>4, <1>5 DEF IInv, MainInv, PoolInv, PoolAlwaysFound
<1>14. BookInv'
  <2> SUFFICES ASSUME NEW v \in Service
               PROVE  /\ stats'[v].active = Cardinality((active \ {i}) \cap Of(v))
                      /\ stats'[v].completed =
                           Cardinality((In(CountedStages) \cup {i}) \cap Of(v))
                      /\ stats'[v].failed <= stats'[v].completed
                      /\ stats'[v].gatewayCount <=
                           Cardinality(Served \cap Of(v)) + Cardinality(resent \cap Of(v))
    BY <1>3, <1>5, <1>6 DEF BookInv, Served, Of
  <2>1. /\ stats[v].active = Cardinality(active \cap Of(v))
        /\ stats[v].completed = Cardinality(In(CountedStages) \cap Of(v))
        /\ stats[v].failed <= stats[v].completed
        /\ stats[v].gatewayCount <=
             Cardinality(Served \cap Of(v)) + Cardinality(resent \cap Of(v))
        /\ stats[v].completed \in Nat /\ stats[v].failed \in Nat
    BY EntryType DEF IInv, BookInv
  <2>2. /\ stats'[v].active = stats[v].active - (IF v = s THEN 1 ELSE 0)
        /\ stats'[v].completed = stats[v].completed + (IF v = s THEN 1 ELSE 0)
        /\ stats'[v].failed <= stats'[v].completed
        /\ stats'[v].gatewayCount = stats[v].gatewayCount
    <3>1. CASE v = s
      BY <1>9, <1>10, <2>1, <3>1
    <3>2. CASE v # s
      <4>1. stats'[v] = stats[v] /\ stats[v].active \in Nat
        BY <1>10, <3>2, EntryType DEF IInv
      <4> QED BY <2>1, <3>2, <4>1
    <3> QED BY <3>1, <3>2
  <2> QED BY <1>7, <2>1, <2>2
<1> QED BY <1>11, <1>12, <1>13, <1>14 DEF IInv

LEMMA ReleaseStep ==
    ASSUME IInv, NEW i \in Id, Release(i)
    PROVE  IInv'
<1>1. /\ Moves(i, "counted", "released") /\ slots' = slots - 1
      /\ UNCHANGED <<workers, handler, response, resent, main, cfg, ctxDone, serving, id, screen,
                     stats, active>>
  BY DEF Release, mainVars, bookVars
<1>2. /\ sender \in [Id -> Stage] /\ sender' \in [Id -> Stage]
      /\ sender[i] = "counted"
      /\ \A j \in Id : sender'[j] = IF j = i THEN "released" ELSE sender[j]
      /\ \A j \in Id : sender'[j] = "none" <=> j > id'
      /\ main \notin {"returned", "failed"}
  BY <1>1, SenderMoves DEF Stage
<1>3. /\ In(HeldStages)' = In(HeldStages) \ {i} /\ i \in In(HeldStages)
      /\ In(WorkStages)' = In(WorkStages)
      /\ In({"active", "waiting"})' = In({"active", "waiting"})
      /\ In(CountedStages)' = In(CountedStages)
  BY <1>2 DEF In, HeldStages, WorkStages, CountedStages
<1>4. In(HeldStages) \in SUBSET Id
  BY DEF In
<1>5. /\ Cardinality(In(HeldStages)') = Cardinality(In(HeldStages)) - 1
      /\ Cardinality(In(HeldStages)') \in Nat /\ Cardinality(In(HeldStages)) \in Nat
  <2>1. In(HeldStages)' \in SUBSET Id
    BY <1>3, <1>4
  <2> QED BY <1>3, <1>4, <2>1, IdFinite, FS_RemoveElement
<1>6. PoolInv'
  BY <1>1, <1>3, <1>5 DEF IInv, PoolInv
<1>7. slots' \in 0..Concurrency
  <2>1. slots' \in Nat
    BY <1>1, <1>5, <1>6 DEF PoolInv
  <2> QED BY <1>1, <2>1, Numbers, Bounds DEF IInv
<1>8. TypeOK'
  BY <1>1, <1>2, <1>7 DEF IInv, TypeOK, Stage
<1>9. FlowInv'
  BY <1>1, <1>2 DEF IInv, FlowInv, CountedStages
<1>10. MainInv' /\ PoolAlwaysFound'
  BY <1>1 DEF IInv, MainInv, PoolAlwaysFound
<1>11. BookInv'
  BY <1>1, <1>3 DEF IInv, BookInv, Of, Served
<1> QED BY <1>6, <1>8, <1>9, <1>10, <1>11 DEF IInv

LEMMA DoneStep ==
    ASSUME IInv, NEW i \in Id, Done(i)
    PROVE  IInv'
<1>1. /\ Moves(i, "released", "done") /\ workers' = workers - 1
      /\ UNCHANGED <<slots, handler, response, resent, main, cfg, ctxDone, serving, id, screen,
                     stats, active>>
  BY DEF Done, mainVars, bookVars
<1>2. /\ sender \in [Id -> Stage] /\ sender' \in [Id -> Stage]
      /\ sender[i] = "released"
      /\ \A j \in Id : sender'[j] = IF j = i THEN "done" ELSE sender[j]
      /\ \A j \in Id : sender'[j] = "none" <=> j > id'
      /\ main \notin {"returned", "failed"}
  BY <1>1, SenderMoves DEF Stage
<1>3. /\ In(WorkStages)' = In(WorkStages) \ {i} /\ i \in In(WorkStages)
      /\ In(HeldStages)' = In(HeldStages)
      /\ In({"active", "waiting"})' = In({"active", "waiting"})
      /\ In(CountedStages)' = In(CountedStages)
  BY <1>2 DEF In, HeldStages, WorkStages, CountedStages
<1>4. In(WorkStages) \in SUBSET Id
  BY DEF In
<1>5. /\ Cardinality(In(WorkStages)') = Cardinality(In(WorkStages)) - 1
      /\ Cardinality(In(WorkStages)') \in 0..MaxId /\ Cardinality(In(WorkStages)) \in 0..MaxId
  <2>1. In(WorkStages)' \in SUBSET Id
    BY <1>3, <1>4
  <2> QED BY <1>3, <1>4, <2>1, IdFinite, FS_RemoveElement
<1>6. PoolInv' /\ workers' \in 0..MaxId /\ workers # 0
  BY <1>1, <1>3, <1>5, Bounds DEF IInv, PoolInv
<1>7. TypeOK'
  BY <1>1, <1>2, <1>6 DEF IInv, TypeOK, Stage
<1>8. FlowInv'
  BY <1>1, <1>2 DEF IInv, FlowInv, CountedStages
<1>9. MainInv' /\ PoolAlwaysFound'
  BY <1>1, <1>6 DEF IInv, MainInv, PoolAlwaysFound
<1>10. BookInv'
  BY <1>1, <1>3 DEF IInv, BookInv, Of, Served
<1> QED BY <1>6, <1>7, <1>8, <1>9, <1>10 DEF IInv

--------------------------------------------------------------------------------
(* The steps of the handlers. *)

\* A handler is at work only on a request that was sent, before the server is shut down.
LEMMA AtWork ==
    ASSUME IInv, NEW i \in Id, handler[i] \notin {"none", "done"}, Alive
    PROVE  main \notin {"start", "render", "returned", "failed"}
           /\ sender[i] \in {"waiting"} \cup CountedStages
<1>1. sender[i] \in {"waiting"} \cup CountedStages
  BY DEF IInv, FlowInv
<1>2. id # 0
  BY <1>1, Bounds, Numbers DEF IInv, FlowInv, Id, CountedStages
<1> QED BY <1>1, <1>2 DEF IInv, MainInv, Alive

LEMMA ArrivalSteps ==
    ASSUME IInv, NEW i \in Id, Lost(i) \/ Observe(i)
    PROVE  IInv'
<1>1. PICK to \in {"none", "known", "unknown"} :
        handler' = [handler EXCEPT ![i] = to]
  BY DEF Lost, Observe
<1>2. /\ Alive /\ handler[i] = "arriving"
      /\ UNCHANGED <<sender, response, main, cfg, ctxDone, serving, id, screen, stats, active,
                     resent, slots, workers>>
  BY DEF Lost, Observe, mainVars, bookVars, poolVars
<1>3. main \notin {"start", "render", "returned", "failed"}
      /\ sender[i] \in {"waiting"} \cup CountedStages
  BY <1>2, AtWork
<1>4. /\ \A j \in Id : handler'[j] = IF j = i THEN to ELSE handler[j]
      /\ response[i] = "none"
  BY <1>1, <1>2 DEF IInv, TypeOK, FlowInv
<1>5. TypeOK'
  BY <1>1, <1>2 DEF IInv, TypeOK
<1>6. FlowInv'
  BY <1>2, <1>3, <1>4 DEF IInv, FlowInv
<1>7. MainInv' /\ PoolInv' /\ PoolAlwaysFound'
  BY <1>2, <1>3 DEF IInv, MainInv, PoolInv, PoolAlwaysFound, In
<1>8. BookInv'
  <2>1. Served' = Served
    BY <1>2, <1>4 DEF Served
  <2> QED BY <1>2, <2>1 DEF IInv, BookInv, Of, In
<1> QED BY <1>5, <1>6, <1>7, <1>8 DEF IInv

LEMMA ServeStep ==
    ASSUME IInv, NEW i \in Id, Serve(i)
    PROVE  IInv'
<1>1. PICK r \in Responses(cfg, "GET", <<ServiceOf(i)>>, StatusOf(i)) :
        response' = [response EXCEPT ![i] = r]
  BY DEF Serve
<1>2. /\ Alive /\ handler[i] \in {"known", "unknown"}
      /\ UNCHANGED <<sender, handler, main, cfg, ctxDone, serving, id, screen, stats, active,
                     resent, slots, workers>>
  BY DEF Serve, mainVars, bookVars, poolVars
<1>3. main \notin {"start", "render", "returned", "failed"}
  BY <1>2, AtWork
<1>4. r \in {"404", "502", "200", "503"}
  <2>1. cfg \in Configs /\ Validate(cfg)
    BY <1>3 DEF IInv, MainInv
  <2> QED BY <1>1, <2>1, ResponsesOfValid DEF StatusOf
<1>5. \A j \in Id : response'[j] = IF j = i THEN r ELSE response[j]
  BY <1>1 DEF IInv, TypeOK
<1>6. TypeOK'
  BY <1>1, <1>2, <1>4 DEF IInv, TypeOK
<1>7. FlowInv'
  BY <1>2, <1>5 DEF IInv, FlowInv
<1>8. MainInv' /\ PoolInv'
  BY <1>2, <1>3 DEF IInv, MainInv, PoolInv, In
<1>9. PoolAlwaysFound'
  BY <1>4, <1>5 DEF IInv, PoolAlwaysFound
<1>10. BookInv'
  BY <1>2 DEF IInv, BookInv, Of, In, Served
<1> QED BY <1>6, <1>7, <1>8, <1>9, <1>10 DEF IInv

LEMMA HandlerStep ==
    ASSUME IInv, NEW i \in Id, HandlerEnds(i) \/ HandlerAborts(i)
    PROVE  IInv'
<1>1. /\ Alive /\ handler[i] \in {"known", "unknown"} /\ Counted(i)
      /\ UNCHANGED <<sender, response, main, cfg, ctxDone, serving, id, screen, active, slots,
                     workers>>
  BY DEF HandlerEnds, HandlerAborts, mainVars, poolVars
<1>2. \/ handler' = [handler EXCEPT ![i] = "done"] /\ resent' = resent
      \/ /\ handler' = [handler EXCEPT ![i] = "arriving"] /\ response[i] = "none"
         /\ i \notin resent /\ resent' = resent \cup {i}
  BY DEF HandlerEnds, HandlerAborts
<1>3. main \notin {"start", "render", "returned", "failed"}
      /\ sender[i] \in {"waiting"} \cup CountedStages
  BY <1>1, AtWork
<1> DEFINE s == ServiceOf(i)
           more == IF handler[i] = "known" THEN 1 ELSE 0
           r == [stats[s] EXCEPT !.gatewayCount = stats[s].gatewayCount + more]
<1>4. /\ s \in Service /\ r \in Entry /\ r.active = stats[s].active
      /\ r.completed = stats[s].completed /\ r.failed = stats[s].failed
      /\ r.gatewayCount \in {stats[s].gatewayCount, stats[s].gatewayCount + 1}
  BY ServiceType, EntryType DEF IInv, Entry
<1>5. stats' = [stats EXCEPT ![s] = r]
  <2>1. CASE handler[i] = "known"
    BY <1>1, <2>1 DEF Counted
  <2>2. CASE handler[i] # "known"
    <3>1. r = stats[s]
      BY <2>2, ServiceType, EntryType DEF IInv, Entry
    <3> QED BY <1>1, <2>2, <3>1, <1>4 DEF IInv, TypeOK, Counted
  <2> QED BY <2>1, <2>2
<1> HIDE DEF r
<1>6. /\ stats' \in [Service -> Entry]
      /\ \A v \in Service : stats'[v] = IF v = s THEN r ELSE stats[v]
  BY <1>4, <1>5, Entered DEF IInv
<1>7. /\ Served \in SUBSET Id /\ resent \in SUBSET Id
      /\ \A j \in Id : j # i => handler'[j] = handler[j]
      /\ \/ i \notin Served /\ Served' = Served \cup {i} /\ resent' = resent
         \/ Served' = Served /\ i \notin resent /\ resent' = resent \cup {i}
  <2>1. handler \in [Id -> {"none", "arriving", "known", "unknown", "done"}]
        /\ resent \in SUBSET Id
    BY DEF IInv, TypeOK
  <2> QED BY <1>1, <1>2, <2>1 DEF Served
<1>8. TypeOK'
  BY <1>1, <1>2, <1>6 DEF IInv, TypeOK, Entry
<1>9. FlowInv'
  <2>1. /\ handler'[i] \in {"arriving", "done"}
        /\ handler'[i] = "arriving" => response[i] = "none"
    BY <1>2 DEF IInv, TypeOK
  <2> QED BY <1>1, <1>3, <1>7, <2>1 DEF IInv, FlowInv
<1>10. MainInv' /\ PoolInv' /\ PoolAlwaysFound'
  BY <1>1, <1>3 DEF IInv, MainInv, PoolInv, PoolAlwaysFound, In
<1>11. BookInv'
  <2> SUFFICES ASSUME NEW v \in Service
               PROVE  /\ stats'[v].active = Cardinality(active \cap Of(v))
                      /\ stats'[v].completed = Cardinality(In(CountedStages) \cap Of(v))
                      /\ stats'[v].failed <= stats'[v].completed
                      /\ stats'[v].gatewayCount <=
                           Cardinality(Served' \cap Of(v)) + Cardinality(resent' \cap Of(v))
    <3>1. active = In({"active", "waiting"})
      BY DEF IInv, BookInv
    <3>2. \A S : In(S)' = In(S)
      BY <1>1 DEF In
    <3>3. \A u \in Service : Of(u)' = Of(u)
      BY DEF Of
    <3> QED BY <1>1, <3>1, <3>2, <3>3 DEF BookInv
  <2>1. /\ stats[v].active = Cardinality(active \cap Of(v))
        /\ stats[v].completed = Cardinality(In(CountedStages) \cap Of(v))
        /\ stats[v].failed <= stats[v].completed
        /\ stats[v].gatewayCount <=
             Cardinality(Served \cap Of(v)) + Cardinality(resent \cap Of(v))
        /\ stats[v].gatewayCount \in Nat
    BY EntryType DEF IInv, BookInv
  <2>2. Cardinality(Served' \cap Of(v)) + Cardinality(resent' \cap Of(v)) =
          Cardinality(Served \cap Of(v)) + Cardinality(resent \cap Of(v))
          + (IF i \in Of(v) THEN 1 ELSE 0)
    <3>1. Cardinality(Served \cap Of(v)) \in Nat /\ Cardinality(resent \cap Of(v)) \in Nat
      BY ONLY <1>7, Countable
    <3>2. i \notin Served => Cardinality((Served \cup {i}) \cap Of(v)) =
            Cardinality(Served \cap Of(v)) + (IF i \in Of(v) THEN 1 ELSE 0)
      BY ONLY <1>7, OneMore
    <3>3. i \notin resent => Cardinality((resent \cup {i}) \cap Of(v)) =
            Cardinality(resent \cap Of(v)) + (IF i \in Of(v) THEN 1 ELSE 0)
      BY ONLY <1>7, OneMore
    <3>4. CASE i \notin Served /\ Served' = Served \cup {i} /\ resent' = resent
      BY ONLY <3>1, <3>2, <3>4
    <3>5. CASE Served' = Served /\ i \notin resent /\ resent' = resent \cup {i}
      BY ONLY <3>1, <3>3, <3>5
    <3> QED BY <1>7, <3>4, <3>5
  <2>3. Cardinality(Served \cap Of(v)) \in Nat /\ Cardinality(resent \cap Of(v)) \in Nat
    BY ONLY <1>7, Countable
  <2>4. i \in Of(v) <=> v = s
    BY DEF Of
  <2> QED BY <1>4, <1>6, <2>1, <2>2, <2>3, <2>4
<1> QED BY <1>8, <1>9, <1>10, <1>11 DEF IInv

--------------------------------------------------------------------------------
(* Theorems. *)

\* The inductive invariant holds in every reachable state.
THEOREM TrafficInductive == Spec => []IInv
<1>1. IInv /\ [Next]_vars => IInv'
  <2> SUFFICES ASSUME IInv, [Next]_vars PROVE IInv'
    OBVIOUS
  <2>1. CASE Start \/ Stop \/ ServeFails \/ LoopEnds \/ Wait \/ Shutdown \/ Render
    BY <2>1, MainSteps
  <2>2. CASE Tick \/ Launch
    BY <2>2, TickStep, LaunchStep
  <2>3. ASSUME NEW i \in Id, Sender(i)
        PROVE  IInv'
    BY <2>3, RegisterStep, DoStep, CountStep, ReleaseStep, DoneStep DEF Sender
  <2>4. ASSUME NEW i \in Id, Lost(i) \/ Observe(i) \/ Serve(i) \/ HandlerEnds(i)
                           \/ HandlerAborts(i)
        PROVE  IInv'
    BY <2>4, ArrivalSteps, ServeStep, HandlerStep
  <2>5. CASE UNCHANGED vars
    <3>1. UNCHANGED <<main, cfg, ctxDone, serving, id, slots, workers, sender, handler, response,
                      resent, stats, active, screen>>
      BY <2>5 DEF vars
    <3>2. TypeOK'
      BY <3>1 DEF IInv, TypeOK
    <3>3. FlowInv' /\ MainInv' /\ PoolAlwaysFound'
      BY <3>1 DEF IInv, FlowInv, MainInv, PoolAlwaysFound
    <3>4. PoolInv' /\ BookInv'
      BY <3>1 DEF IInv, PoolInv, BookInv, In, Served, Of
    <3> QED BY <3>2, <3>3, <3>4 DEF IInv
  <2> QED BY <2>1, <2>2, <2>3, <2>4, <2>5 DEF Next
<1> QED BY <1>1, InitIInv, PTL DEF Spec

\* A gateway that has started never misses a route's pool, whatever its configuration, because
\* Validate has looked for it (proxy.go:80 is not reached).
THEOREM NoPoolMissing == Spec => []PoolAlwaysFound
<1>1. IInv => PoolAlwaysFound
  BY DEF IInv
<1> QED BY <1>1, TrafficInductive, PTL

\* The dashboard, the slots and the WaitGroup agree with the goroutines.
THEOREM BooksAlwaysBalance == Spec => []BooksBalance
<1>1. IInv => BooksBalance
  <2> SUFFICES ASSUME IInv PROVE BooksBalance
    OBVIOUS
  <2>1. /\ active = In({"active", "waiting"})
        /\ slots = Cardinality(In({"started", "active", "waiting", "counted"}))
                    + (IF main = "taken" THEN 1 ELSE 0)
        /\ workers = Cardinality(In({"started", "active", "waiting", "counted", "released"}))
    BY DEF IInv, BookInv, PoolInv, HeldStages, WorkStages
  <2>2. ASSUME NEW s \in Service
        PROVE  /\ stats[s].active = Cardinality(active \cap Of(s))
               /\ stats[s].completed = Cardinality(In(CountedStages) \cap Of(s))
               /\ stats[s].failed <= stats[s].completed
               /\ stats[s].gatewayCount <=
                    stats[s].active + stats[s].completed + Cardinality(resent \cap Of(s))
    <3> DEFINE A == active \cap Of(s)
               C == In(CountedStages) \cap Of(s)
               H == Served \cap Of(s)
               R == resent \cap Of(s)
    <3>1. A \in SUBSET Id /\ C \in SUBSET Id /\ H \in SUBSET Id /\ A \cup C \in SUBSET Id
          /\ R \in SUBSET Id
      BY <2>1 DEF In, Of, Served
    <3>2. A \cap C = {}
      BY <2>1 DEF In, CountedStages
    <3>3. H \subseteq A \cup C
      BY <2>1 DEF IInv, FlowInv, Served, In
    <3> HIDE DEF A, C, H, R
    <3>4. IsFiniteSet(A) /\ IsFiniteSet(C) /\ IsFiniteSet(A \cup C)
          /\ Cardinality(A) \in Nat /\ Cardinality(C) \in Nat /\ Cardinality(H) \in Nat
          /\ Cardinality(R) \in Nat
      BY <3>1, IdFinite
    <3>5. Cardinality(A \cup C) = Cardinality(A) + Cardinality(C)
      <4>1. Cardinality(A \cap C) = 0
        BY <3>2, FS_EmptySet
      <4>2. Cardinality(A \cup C) = Cardinality(A) + Cardinality(C) - Cardinality(A \cap C)
        BY <3>4, FS_Union
      <4> QED BY <3>4, <4>1, <4>2
    <3>6. Cardinality(H) <= Cardinality(A \cup C)
      BY <3>3, <3>4, FS_Subset
    <3>7. /\ stats[s].active = Cardinality(A) /\ stats[s].completed = Cardinality(C)
          /\ stats[s].failed <= stats[s].completed /\ stats[s].gatewayCount <= Cardinality(H) + Cardinality(R)
          /\ stats[s].gatewayCount \in Nat
      BY EntryType DEF IInv, BookInv, A, C, H, R
    <3>8. stats[s].gatewayCount <= stats[s].active + stats[s].completed + Cardinality(R)
      BY <3>4, <3>5, <3>6, <3>7
    <3> QED BY <3>7, <3>8 DEF A, C, R
  <2> QED BY <2>1, <2>2 DEF BooksBalance, Of, CountedStages
<1> QED BY <1>1, TrafficInductive, PTL

\* The last screen shows every request as done and counted, and comes after the last handler.
THEOREM LastScreenIsComplete == Spec => []LastScreenComplete
<1>1. IInv => LastScreenComplete
  <2> SUFFICES ASSUME IInv, screen # None
               PROVE  /\ \A s \in Service : screen[s].active = 0
                      /\ screen["users"].completed + screen["orders"].completed = id
                      /\ \A i \in Id : handler[i] \in {"none", "done"}
    BY DEF LastScreenComplete
  <2>1. /\ main = "returned" /\ screen = stats /\ workers = 0
        /\ \A i \in Id : handler[i] \in {"none", "done"}
    BY DEF IInv, MainInv
  <2>2. \A i \in Id : sender[i] \in {"none", "done"}
    BY <2>1, AllReturned DEF IInv
  <2>3. \A s \in Service : stats[s].active = 0
    <3>1. active = {}
      BY <2>2 DEF IInv, BookInv, In
    <3>2. \A s \in Service : active \cap Of(s) = {}
      BY <3>1
    <3> QED BY <3>2, FS_EmptySet DEF IInv, BookInv
  <2>4. stats["users"].completed + stats["orders"].completed = id
    <3> DEFINE D == In(CountedStages)
               U == D \cap Of("users")
               O == D \cap Of("orders")
    <3>1. D = 1..id /\ id \in Nat
      <4>1. id \in 0..MaxId /\ id \in Nat
        BY Bounds, Numbers DEF IInv
      <4>2. \A i \in Id : i \in D <=> i <= id
        BY <2>2, <4>1 DEF IInv, FlowInv, In, Id, CountedStages
      <4>3. D \subseteq Id
        BY DEF In
      <4> HIDE DEF D
      <4>4. D \subseteq 1..id
        BY ONLY <4>1, <4>2, <4>3, Bounds DEF Id
      <4>5. 1..id \subseteq D
        <5> SUFFICES ASSUME NEW i \in 1..id PROVE i \in D
          OBVIOUS
        <5>1. i \in Id /\ i <= id
          BY ONLY <4>1, Bounds, i \in 1..id DEF Id
        <5> QED BY <4>2, <5>1
      <4> QED BY <4>1, <4>4, <4>5
    <3>2. U \cup O = D /\ U \cap O = {}
      BY DEF Of, In, ServiceOf
    <3>3. U \in SUBSET Id /\ O \in SUBSET Id
      BY DEF In
    <3>4. stats["users"].completed = Cardinality(U) /\ stats["orders"].completed = Cardinality(O)
      BY DEF IInv, BookInv, Service
    <3> HIDE DEF D, U, O
    <3>5. IsFiniteSet(U) /\ IsFiniteSet(O) /\ Cardinality(U) \in Nat /\ Cardinality(O) \in Nat
      BY <3>3, IdFinite
    <3>6. Cardinality(U \cap O) = 0
      BY <3>2, FS_EmptySet
    <3>7. Cardinality(U \cup O) = Cardinality(U) + Cardinality(O) - Cardinality(U \cap O)
      BY <3>5, FS_Union
    <3>8. Cardinality(U \cup O) = id
      <4>1. Cardinality(1..id) = id
        BY <3>1, FS_Interval
      <4> QED BY <3>1, <3>2, <4>1
    <3>9. Cardinality(U) + Cardinality(O) = id
      BY ONLY <3>5, <3>6, <3>7, <3>8
    <3> QED BY <3>4, <3>9
  <2> QED BY <2>1, <2>3, <2>4
<1> QED BY <1>1, TrafficInductive, PTL
================================================================================
