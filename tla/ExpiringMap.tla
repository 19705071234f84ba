------------------------------ MODULE ExpiringMap ------------------------------
(***************************************************************************)
(* What a client of godis may rely on: a map whose keys may have a         *)
(* deadline.  A key past its deadline is dead.  GET and EXISTS never see a *)
(* dead key.  It may be reclaimed at any later moment; until then DEL,     *)
(* EXPIRE, INCR, TTL and KEYS may still notice it, and EXPIRE may revive   *)
(* it.                                                                     *)
(*                                                                         *)
(* Time is kept as the ticks left before a key's deadline.                 *)
(***************************************************************************)
EXTENDS Integers, Sequences, FiniteSets

CONSTANTS
    Key,
    Value,      \* the values SET stores
    NaN,        \* any value that is not an integer
    MaxInt,     \* the largest integer a value can hold
    Second,     \* ticks in a second
    Seconds,    \* the arguments of SET .. EX
    Durations,  \* the arguments of EXPIRE, in ticks
    Bad,        \* an argument that cannot be parsed
    Missing,    \* no entry
    NoDeadline, \* an entry that does not expire
    Oldest      \* ticks past its deadline after which a dead key ages no more

VARIABLES
    entry,      \* the entry under each key, or Missing
    cmd,        \* the last command
    reply       \* its answer

mapVars == <<entry, cmd, reply>>

Command ==
    [op : {"GET", "TTL", "INCR"}, key : Key]
      \cup [op : {"EXISTS", "DEL"}, keys : [1..1 -> Key] \cup [1..2 -> Key]]
      \cup [op : {"KEYS"}, pattern : (SUBSET Key) \cup {Bad}]
      \cup [op : {"SET"}, key : Key, value : Value]
      \cup [op : {"SETEX"}, key : Key, value : Value, seconds : Seconds \cup {Bad}]
      \cup [op : {"EXPIRE"}, key : Key, duration : Durations \cup {Bad}]
      \cup [op : {"OTHER"}]

Ok == [type |-> "OK"]
Null == [type |-> "null"]
Error == [type |-> "error"]
Integer(n) == [type |-> "integer", n |-> n]
Bulk(v) == [type |-> "bulk", value |-> v]
Array(ks) == [type |-> "array", keys |-> ks]

Entry(v, t) == [value |-> v, left |-> t]

\* The keys a map e holds, those past their deadline, and the others.
Stored(e) == {k \in Key : e[k] # Missing}
Dead(e) == {k \in Stored(e) : e[k].left # NoDeadline /\ e[k].left <= 0}
Live(e) == Stored(e) \ Dead(e)

Without(e, gone) == [k \in Key |-> IF k \in gone THEN Missing ELSE e[k]]

\* A duration in seconds, cut towards zero.
Truncate(t) == IF t >= 0 THEN t \div Second ELSE -((-t) \div Second)

\* Command c on the map e answers r and leaves the map f.
Asks(c, e, r) ==
    \/ c.op = "GET" /\ r = IF c.key \in Live(e) THEN Bulk(e[c.key].value) ELSE Null
    \/ c.op = "EXISTS" /\ r = Integer(Cardinality({i \in DOMAIN c.keys : c.keys[i] \in Live(e)}))
    \/ c.op = "TTL" /\ r = Integer(IF c.key \notin Stored(e) THEN -2
                               ELSE IF e[c.key].left = NoDeadline THEN -1
                               ELSE Truncate(e[c.key].left))
    \/ c.op = "KEYS" /\ r = IF c.pattern = Bad \/ c.pattern \cap Stored(e) = {} THEN Null
                            ELSE Array(c.pattern \cap Stored(e))
    \/ c.op = "OTHER" /\ r \in {Ok, Error}

Writes(c, e, r, f) ==
    \/ /\ c.op = "SET" /\ r = Ok
       /\ f = [e EXCEPT ![c.key] = Entry(c.value, NoDeadline)]
    \/ /\ c.op = "SETEX" /\ c.seconds # Bad /\ c.seconds > 0 /\ r = Ok
       /\ f = [e EXCEPT ![c.key] = Entry(c.value, c.seconds * Second)]
    \/ /\ c.op = "EXPIRE" /\ c.duration # Bad /\ c.key \in Stored(e) /\ r = Ok
       /\ f = [e EXCEPT ![c.key].left = c.duration]
    \/ /\ c.op = "INCR" /\ c.key \notin Stored(e) /\ r = Integer(1)
       /\ f = [e EXCEPT ![c.key] = Entry(1, NoDeadline)]
    \/ /\ c.op = "INCR" /\ c.key \in Live(e) /\ e[c.key].value \notin {NaN, MaxInt}
       /\ r = Integer(e[c.key].value + 1)
       /\ f = [e EXCEPT ![c.key].value = @ + 1]
    \/ LET named == {c.keys[i] : i \in DOMAIN c.keys} IN
       /\ c.op = "DEL" /\ r = Integer(Cardinality(named \cap Stored(e)))
       /\ f = Without(e, named)

\* A write that cannot be done changes nothing, but INCR removes a dead key.
Refuses(c, e, r, f) ==
    \/ /\ c.op = "SETEX" /\ (c.seconds = Bad \/ c.seconds <= 0)
       /\ r = Error /\ f = e
    \/ /\ c.op = "EXPIRE" /\ (c.duration = Bad \/ c.key \notin Stored(e))
       /\ r = Null /\ f = e
    \/ /\ c.op = "INCR" /\ c.key \in Live(e) /\ e[c.key].value \in {NaN, MaxInt}
       /\ r = Error /\ f = e
    \/ /\ c.op = "INCR" /\ c.key \in Dead(e)
       /\ r = Error /\ f = Without(e, {c.key})

--------------------------------------------------------------------------------

MapInit ==
    /\ entry = [k \in Key |-> Missing]
    /\ cmd = [op |-> "OTHER"]
    /\ reply = Ok

\* Some dead keys go, then the command acts on what is left.
MapExecute(c) ==
    \E gone \in SUBSET Dead(entry) :
        LET e == Without(entry, gone) IN
        /\ cmd' = c
        /\ \/ Asks(c, e, reply') /\ entry' = e
           \/ Writes(c, e, reply', entry')
           \/ Refuses(c, e, reply', entry')

MapReclaim ==
    /\ \E gone \in SUBSET Dead(entry) : entry' = Without(entry, gone)
    /\ UNCHANGED <<cmd, reply>>

\* A tick passes for an entry.
Older(x) == IF x = Missing \/ x.left = NoDeadline \/ x.left <= -Oldest THEN x
            ELSE [x EXCEPT !.left = @ - 1]

MapTick ==
    /\ entry' = [k \in Key |-> Older(entry[k])]
    /\ UNCHANGED <<cmd, reply>>

MapSpec == MapInit /\ [][(\E c \in Command : MapExecute(c)) \/ MapReclaim \/ MapTick]_mapVars
================================================================================
