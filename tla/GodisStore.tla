------------------------------ MODULE GodisStore -------------------------------
(***************************************************************************)
(* The key-value store of godis and the commands on it:                    *)
(* internal/storage/store.go and internal/command/dispatcher.go.           *)
(*                                                                         *)
(* A dead entry (its deadline has passed) is removed when GET, EXISTS or   *)
(* INCR meets it, and by CleanupExpired, which the event loop runs when a  *)
(* second has passed since it last did (internal/eventloop/loop.go:62-65). *)
(* The process is single-threaded, so a command is one step, and the clock *)
(* advances only between steps.  An entry keeps ExpiresAt as the ticks     *)
(* left, which is what every reader of it computes from time.Now().        *)
(***************************************************************************)
EXTENDS Integers, Sequences, FiniteSets, FiniteSetsExt

CONSTANTS
    Key, Value, NaN, MaxInt, Second, Seconds, Durations, Bad, Missing, NoDeadline, Oldest,
    DurationMax     \* the largest time.Duration, in ticks

ASSUME StoreAssumption ==
    /\ Second \in Nat \ {0} /\ DurationMax \in Nat \ {0} /\ Oldest \in 1..DurationMax
    /\ MaxInt \in Nat \ {0} /\ Value \subseteq 0..MaxInt \cup {NaN}
    /\ Seconds \subseteq Int
    /\ Durations \subseteq -(DurationMax + 1)..DurationMax     \* ParseDuration's range
    /\ NoDeadline \notin Int
    /\ Missing \notin [value : 0..MaxInt \cup {NaN}, left : Int \cup {NoDeadline}]

VARIABLES
    data,           \* Store.data; Missing where the map has no key
    sinceCleanup,   \* ticks since lastCleanup, up to a second
    cmd,            \* the last command executed
    reply,          \* its encoded answer
    seenGone        \* history: keys that GET or EXISTS reported absent, not written since

vars == <<data, sinceCleanup, cmd, reply, seenGone>>

Map == INSTANCE ExpiringMap WITH entry <- data

Command == Map!Command
Ok == Map!Ok
Null == Map!Null
Error == Map!Error
Int64(n) == Map!Integer(n)
Bulk(v) == Map!Bulk(v)
Array(ks) == Map!Array(ks)

\* The product of two Durations wraps around in 64 bits.
Wrap(t) == ((t + DurationMax + 1) % (2 * (DurationMax + 1))) - (DurationMax + 1)

Exists(k) == data[k] # Missing

\* ExpiresAt != nil && !time.Now().Before(*entry.ExpiresAt)
Expired(k) == Exists(k) /\ data[k].left # NoDeadline /\ data[k].left <= 0

DeleteAll(ks) == data' = [k \in Key |-> IF k \in ks THEN Missing ELSE data[k]]

Init ==
    /\ data = [k \in Key |-> Missing]
    /\ sinceCleanup = 0
    /\ cmd = [op |-> "OTHER"]
    /\ reply = Ok
    /\ seenGone = {}

--------------------------------------------------------------------------------
(* The handlers of the dispatcher. *)

\* GET that hides an expired key but leaves it in the map.
HandleGetLeavesExpired(c) ==
    LET k == c.key IN
    /\ reply' = IF Exists(k) /\ ~Expired(k) THEN Bulk(data[k].value) ELSE Null
    /\ seenGone' = IF reply' = Null THEN seenGone \cup {k} ELSE seenGone
    /\ UNCHANGED data

\* handleGet, Store.Get: an expired key is deleted.
HandleGet(c) ==
    LET k == c.key IN
    /\ reply' = IF Exists(k) /\ ~Expired(k) THEN Bulk(data[k].value) ELSE Null
    /\ seenGone' = IF reply' = Null THEN seenGone \cup {k} ELSE seenGone
    /\ IF Expired(k) THEN DeleteAll({k}) ELSE UNCHANGED data

\* handleExists, Store.Exists: every argument counts, and expired keys are deleted.
HandleExists(c) ==
    LET present(i) == Exists(c.keys[i]) /\ ~Expired(c.keys[i])
        absent == {c.keys[i] : i \in {j \in DOMAIN c.keys : ~present(j)}}
    IN  /\ reply' = Int64(Quantify(DOMAIN c.keys, present))
        /\ DeleteAll({k \in absent : Expired(k)})
        /\ seenGone' = seenGone \cup absent

\* handleDel, Store.Delete: a repeated argument is found once; an expired key counts.
HandleDel(c) ==
    LET named == {c.keys[i] : i \in DOMAIN c.keys} IN
    /\ reply' = Int64(Quantify(named, Exists))
    /\ DeleteAll(named)
    /\ UNCHANGED seenGone

Store(k, v, left) ==
    /\ data' = [data EXCEPT ![k] = [value |-> v, left |-> left]]
    /\ seenGone' = seenGone \ {k}

\* handleSet with two arguments: Store.Set drops an earlier deadline.
HandleSet(c) == Store(c.key, c.value, NoDeadline) /\ reply' = Ok

\* handleSet with EX: the seconds become a Duration without a check of the range.
HandleSetEx(c) ==
    IF c.seconds = Bad \/ c.seconds <= 0
      THEN reply' = Error /\ UNCHANGED <<data, seenGone>>
      ELSE Store(c.key, c.value, Wrap(c.seconds * Second)) /\ reply' = Ok

\* INCR without the test for the largest integer.
HandleIncrOverflows(c) ==
    LET k == c.key IN
    /\ ~Expired(k) /\ Exists(k) /\ data[k].value # NaN
    /\ Store(k, data[k].value + 1, data[k].left)
    /\ reply' = Int64(data[k].value + 1)

\* handleIncr, Store.Incr: an expired key is deleted and the command fails; the deadline
\* of a live one stays.
HandleIncr(c) ==
    LET k == c.key IN
    IF Expired(k)
      THEN DeleteAll({k}) /\ reply' = Error /\ UNCHANGED seenGone
      ELSE IF Exists(k) /\ data[k].value \in {NaN, MaxInt}
      THEN reply' = Error /\ UNCHANGED <<data, seenGone>>
      ELSE LET number == (IF Exists(k) THEN data[k].value ELSE 0) + 1
           IN  /\ Store(k, number, IF Exists(k) THEN data[k].left ELSE NoDeadline)
               /\ reply' = Int64(number)

\* handleKeys, Store.GetKeys: the pattern stands for the keys it matches; expired keys are
\* listed too.
HandleKeys(c) ==
    LET found == {k \in c.pattern : Exists(k)} IN
    /\ reply' = IF c.pattern = Bad THEN Null ELSE IF found = {} THEN Null ELSE Array(found)
    /\ UNCHANGED <<data, seenGone>>

\* handleExpire, Store.Expire: it does not look at the present deadline, so an expired
\* key that is still in the map comes back to life.
HandleExpire(c) ==
    IF c.duration = Bad \/ ~Exists(c.key)
      THEN reply' = Null /\ UNCHANGED <<data, seenGone>>
      ELSE Store(c.key, data[c.key].value, c.duration) /\ reply' = Ok

\* handleTTL, Store.TTL: seconds are cut towards zero, also for an expired key.
HandleTTL(c) ==
    LET k == c.key
        seconds(t) == IF t >= 0 THEN t \div Second ELSE -((-t) \div Second)
    IN  /\ reply' = Int64(IF ~Exists(k) THEN -2
                          ELSE IF data[k].left = NoDeadline THEN -1
                          ELSE seconds(data[k].left))
        /\ UNCHANGED <<data, seenGone>>

\* PING and ECHO, an unknown command, a wrong number of arguments.
HandleOther == reply' \in {Ok, Error} /\ UNCHANGED <<data, seenGone>>

\* Dispatcher.Execute.
Execute(c) ==
    /\ \/ c.op = "GET" /\ HandleGet(c)
       \/ c.op = "EXISTS" /\ HandleExists(c)
       \/ c.op = "DEL" /\ HandleDel(c)
       \/ c.op = "SET" /\ HandleSet(c)
       \/ c.op = "SETEX" /\ HandleSetEx(c)
       \/ c.op = "INCR" /\ HandleIncr(c)
       \/ c.op = "KEYS" /\ HandleKeys(c)
       \/ c.op = "EXPIRE" /\ HandleExpire(c)
       \/ c.op = "TTL" /\ HandleTTL(c)
       \/ c.op = "OTHER" /\ HandleOther
    /\ cmd' = c
    /\ UNCHANGED sinceCleanup

--------------------------------------------------------------------------------
(* The clock and the sweep. *)

\* A sweep that takes keys for their last second.
SweepsEarly ==
    /\ sinceCleanup = Second
    /\ DeleteAll({k \in Key : Exists(k) /\ data[k].left # NoDeadline /\ data[k].left <= 1})
    /\ sinceCleanup' = 0
    /\ UNCHANGED <<cmd, reply, seenGone>>

\* A sweep that never finds a key that is exactly at its deadline or later.
SweepsNothing ==
    /\ sinceCleanup = Second
    /\ sinceCleanup' = 0
    /\ UNCHANGED <<data, cmd, reply, seenGone>>

\* The loop's sweep, Store.CleanupExpired.
CleanupExpired ==
    /\ sinceCleanup = Second
    /\ DeleteAll({k \in Key : Expired(k)})
    /\ sinceCleanup' = 0
    /\ UNCHANGED <<cmd, reply, seenGone>>

\* A tick passes; the age of a dead entry and the time since the last sweep are capped.
Tick ==
    /\ data' = [k \in Key |-> IF data[k] = Missing \/ data[k].left = NoDeadline THEN data[k]
                              ELSE [data[k] EXCEPT !.left = IF @ <= -Oldest THEN @ ELSE @ - 1]]
    /\ sinceCleanup' = IF sinceCleanup < Second THEN sinceCleanup + 1 ELSE sinceCleanup
    /\ UNCHANGED <<cmd, reply, seenGone>>

Next == (\E c \in Command : Execute(c)) \/ CleanupExpired \/ Tick

Spec == Init /\ [][Next]_vars

\* Time passes, and the loop comes round to its sweep: Wait returns after at most 100 ms.
FairSpec == Spec /\ WF_vars(Tick) /\ WF_vars(CleanupExpired)

--------------------------------------------------------------------------------
(* Properties. *)

\* Type correctness of the store, with every duration within 64 bits.
TypeOK ==
    /\ \A k \in Key : data[k] # Missing =>
         /\ data[k].value \in 0..MaxInt \cup {NaN}
         /\ data[k].left \in (-(DurationMax + 1)..DurationMax) \cup {NoDeadline}
    /\ sinceCleanup \in 0..Second
    /\ seenGone \subseteq Key

\* The store with its lazy deletions and its sweep is an ExpiringMap: whenever dead keys
\* are reclaimed, no live key is lost, no dead key is read, and counters, deadlines and
\* counts come out as if every command acted alone on the map.
ImplementsMap == Map!MapSpec

\* A key that GET or EXISTS has reported absent stays absent for every command until it
\* is written again: EXPIRE, which revives an expired key, cannot revive it any more.
NoResurrection == \A k \in seenGone : ~Exists(k)

\* An expired key does not stay in the map: it is reclaimed, or written or revived.
EventuallyReclaimed == \A k \in Key : Expired(k) ~> ~Expired(k)

\* What line 145 of dispatcher.go says of SET key value EX seconds: a key set with so many
\* seconds is alive, with that much time left, when SET has answered OK.
SetExHonoured ==
    [][\A c \in Command :
         c.op = "SETEX" /\ Execute(c) /\ reply' = Ok => data'[c.key].left = c.seconds * Second]_vars
================================================================================
