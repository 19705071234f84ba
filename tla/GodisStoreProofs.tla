---------------------------- MODULE GodisStoreProofs ----------------------------
(***************************************************************************)
(* Proofs about GodisStore for any keys, values, arguments and sizes: the  *)
(* store implements ExpiringMap as long as no SET .. EX asks for more      *)
(* seconds than a Duration holds, and a key reported absent stays absent.  *)
(***************************************************************************)
EXTENDS GodisStore, TLAPS

Entry == [value : 0..MaxInt \cup {NaN}, left : (-(DurationMax + 1)..DurationMax) \cup {NoDeadline}]

\* TypeOK with the map's domain, which the proofs need to read the map after a write.
StoreType ==
    /\ data \in [Key -> Entry \cup {Missing}]
    /\ sinceCleanup \in 0..Second
    /\ seenGone \subseteq Key

\* No SET .. EX asks for more seconds than a Duration holds.
SecondsFit == \A s \in Seconds : s * Second <= DurationMax

--------------------------------------------------------------------------------
(* The arguments of the commands and the values the store keeps. *)

\* The numbers among the constants.
LEMMA StoreNumbers ==
    /\ Second \in Nat \ {0} /\ DurationMax \in Nat \ {0} /\ MaxInt \in Nat \ {0}
    /\ Oldest \in Nat /\ 1 <= Oldest /\ Oldest <= DurationMax
    /\ \A s \in Seconds : s \in Int
<1>1. Seconds \subseteq Int
  BY StoreAssumption
<1> QED BY <1>1, StoreAssumption

\* What a command's operation says of its arguments.
LEMMA CommandFields ==
    ASSUME NEW c \in Command
    PROVE  /\ c.op \in {"GET", "TTL", "INCR", "SET", "SETEX", "EXPIRE"} => c.key \in Key
           /\ c.op \in {"EXISTS", "DEL"} =>
                /\ c.keys \in [1..1 -> Key] \cup [1..2 -> Key]
                /\ {c.keys[i] : i \in DOMAIN c.keys} \subseteq Key
           /\ c.op = "KEYS" => c.pattern \in (SUBSET Key) \cup {Bad}
           /\ c.op \in {"SET", "SETEX"} => c.value \in 0..MaxInt \cup {NaN}
           /\ c.op = "SETEX" => c.seconds \in Seconds \cup {Bad}
           /\ c.op = "EXPIRE" => c.duration \in Durations \cup {Bad}
<1>1. c \in Map!Command
  BY DEF Command
<1>2. c.op \in {"EXISTS", "DEL"} => c.keys \in [1..1 -> Key] \cup [1..2 -> Key]
  BY <1>1 DEF Map!Command
<1>3. c.op \in {"EXISTS", "DEL"} => {c.keys[i] : i \in DOMAIN c.keys} \subseteq Key
  BY <1>2
<1>4. c.op \in {"SET", "SETEX"} => c.value \in Value
  BY <1>1 DEF Map!Command
<1>5. c.op \in {"GET", "TTL", "INCR", "SET", "SETEX", "EXPIRE"} => c.key \in Key
  BY <1>1 DEF Map!Command
<1>6. /\ c.op = "KEYS" => c.pattern \in (SUBSET Key) \cup {Bad}
      /\ c.op = "SETEX" => c.seconds \in Seconds \cup {Bad}
      /\ c.op = "EXPIRE" => c.duration \in Durations \cup {Bad}
  BY <1>1 DEF Map!Command
<1> QED BY <1>2, <1>3, <1>4, <1>5, <1>6, StoreAssumption

\* An entry is not the absence of one.
LEMMA EntryNotMissing ==
    ASSUME NEW e \in Entry
    PROVE  /\ e # Missing
           /\ e = [value |-> e.value, left |-> e.left]
           /\ e.value \in 0..MaxInt \cup {NaN}
           /\ e.left \in (-(DurationMax + 1)..DurationMax) \cup {NoDeadline}
           /\ e.left \in Int \cup {NoDeadline}
<1>1. e.left \in Int \cup {NoDeadline}
  BY StoreAssumption DEF Entry
<1>2. e \in [value : 0..MaxInt \cup {NaN}, left : Int \cup {NoDeadline}]
  BY StoreAssumption DEF Entry
<1> QED BY <1>1, <1>2, StoreAssumption DEF Entry

\* A duration in range is not changed by the width of a Duration, and none leaves it.
LEMMA WrapInRange ==
    ASSUME NEW t \in Int
    PROVE  /\ Wrap(t) \in -(DurationMax + 1)..DurationMax
           /\ t \in -(DurationMax + 1)..DurationMax => Wrap(t) = t
<1> DEFINE w == 2 * (DurationMax + 1)  x == t + DurationMax + 1
<1>1. w \in Nat \ {0} /\ x \in Int
  BY StoreAssumption
<1>2. x % w \in 0..(w - 1)
  BY ONLY <1>1
<1>3. x \in 0..(w - 1) => x % w = x
  BY ONLY <1>1
<1> QED BY <1>2, <1>3, StoreAssumption DEF Wrap

\* Reading the map: an entry, when there is one.
LEMMA Read ==
    ASSUME StoreType, NEW k \in Key
    PROVE  /\ data[k] \in Entry \cup {Missing}
           /\ Exists(k) => data[k] \in Entry
           /\ Exists(k) <=> k \in Map!Stored(data)
           /\ Expired(k) <=> k \in Map!Dead(data)
           /\ Exists(k) /\ ~Expired(k) <=> k \in Map!Live(data)
BY DEF StoreType, Exists, Expired, Map!Stored, Map!Dead, Map!Live

--------------------------------------------------------------------------------
(* Type correctness and absence. *)

\* A deletion leaves a map, without the deleted keys and with the others.
LEMMA Deleted ==
    ASSUME StoreType, NEW ks, DeleteAll(ks)
    PROVE  /\ data' \in [Key -> Entry \cup {Missing}]
           /\ data' = Map!Without(data, ks)
           /\ \A k \in Key : Exists(k)' => Exists(k) /\ k \notin ks
BY DEF DeleteAll, StoreType, Map!Without, Exists

\* A write of an entry leaves a map that has it.
LEMMA Stored ==
    ASSUME StoreType, NEW k \in Key, NEW v \in 0..MaxInt \cup {NaN},
           NEW t \in (-(DurationMax + 1)..DurationMax) \cup {NoDeadline}, Store(k, v, t)
    PROVE  /\ data' \in [Key -> Entry \cup {Missing}]
           /\ data' = [data EXCEPT ![k] = Map!Entry(v, t)]
           /\ data'[k] = [value |-> v, left |-> t]
           /\ \A l \in Key : Exists(l)' /\ l # k => Exists(l)
           /\ seenGone' = seenGone \ {k}
<1>1. [value |-> v, left |-> t] \in Entry
  BY DEF Entry
<1> QED BY <1>1 DEF Store, StoreType, Exists, Map!Entry

\* What a command stores.
LEMMA StoredByCommand ==
    ASSUME StoreType, NEW c \in Command
    PROVE  /\ c.op = "SETEX" /\ c.seconds # Bad =>
                Wrap(c.seconds * Second) \in -(DurationMax + 1)..DurationMax
           /\ c.op = "EXPIRE" /\ c.duration # Bad => c.duration \in -(DurationMax + 1)..DurationMax
           /\ c.op = "INCR" /\ Exists(c.key) /\ data[c.key].value \notin {NaN, MaxInt} =>
                data[c.key].value + 1 \in 0..MaxInt
<1>1. ASSUME c.op = "SETEX", c.seconds # Bad
      PROVE  Wrap(c.seconds * Second) \in -(DurationMax + 1)..DurationMax
  <2>0. c.seconds \in Seconds
    BY <1>1, CommandFields
  <2>1. c.seconds \in Int /\ Second \in Int
    BY <2>0, StoreNumbers
  <2>2. c.seconds * Second \in Int
    BY <2>1
  <2> QED BY <2>2, WrapInRange
<1>2. ASSUME c.op = "INCR", Exists(c.key), data[c.key].value \notin {NaN, MaxInt}
      PROVE  data[c.key].value + 1 \in 0..MaxInt
  <2>1. data[c.key] \in Entry
    BY <1>2, CommandFields, Read
  <2>2. data[c.key].value \in 0..MaxInt \cup {NaN}
    BY <2>1, EntryNotMissing
  <2> QED BY <1>2, <2>2, StoreAssumption
<1> QED BY <1>1, <1>2, CommandFields, StoreAssumption

\* A command keeps the types and what was reported absent.
LEMMA ExecuteKeeps ==
    ASSUME StoreType, NoResurrection, NEW c \in Command, Execute(c)
    PROVE  StoreType' /\ NoResurrection'
<1> USE DEF NoResurrection
<1>0. sinceCleanup' \in 0..Second
  BY DEF Execute, StoreType
<1> DEFINE k == c.key
<1> SUFFICES data' \in [Key -> Entry \cup {Missing}] /\ seenGone' \subseteq Key
             /\ \A l \in seenGone' : ~Exists(l)'
  BY <1>0 DEF StoreType
<1>1. CASE UNCHANGED <<data, seenGone>>
  BY <1>1 DEF StoreType, Exists
<1>2. ASSUME k \in Key, NEW v \in 0..MaxInt \cup {NaN},
             NEW t \in (-(DurationMax + 1)..DurationMax) \cup {NoDeadline}, Store(k, v, t)
      PROVE  /\ data' \in [Key -> Entry \cup {Missing}] /\ seenGone' \subseteq Key
             /\ \A l \in seenGone' : ~Exists(l)'
  <2> HIDE DEF k
  <2> QED BY <1>2, Stored DEF StoreType
<1>3. CASE c.op = "GET" /\ HandleGet(c)
  <2>1. k \in Key
    BY <1>3, CommandFields
  <2>2. CASE Expired(k)
    <3>1. DeleteAll({k})
      BY <1>3, <2>2 DEF HandleGet
    <3> QED BY <1>3, <2>1, <3>1, Deleted DEF HandleGet, StoreType
  <2>3. CASE ~Expired(k) /\ Exists(k)
    <3>1. UNCHANGED <<data, seenGone>>
      BY <1>3, <2>3 DEF HandleGet, Map!Bulk, Bulk, Null, Map!Null
    <3> QED BY <1>1, <3>1
  <2>4. CASE ~Exists(k)
    <3>1. UNCHANGED data /\ seenGone' \subseteq seenGone \cup {k}
      BY <1>3, <2>4 DEF HandleGet, Expired
    <3> QED BY <2>1, <2>4, <3>1 DEF StoreType, Exists
  <2> QED BY <2>2, <2>3, <2>4
<1>4. CASE c.op = "EXISTS" /\ HandleExists(c)
  <2> DEFINE absent == {c.keys[i] : i \in {j \in DOMAIN c.keys :
                                             ~(Exists(c.keys[j]) /\ ~Expired(c.keys[j]))}}
  <2>1. absent \subseteq Key
    BY <1>4, CommandFields
  <2>2. DeleteAll({l \in absent : Expired(l)}) /\ seenGone' = seenGone \cup absent
    BY <1>4 DEF HandleExists
  <2>3. \A l \in absent : ~Exists(l) \/ Expired(l)
    OBVIOUS
  <2> HIDE DEF absent
  <2> QED BY <2>1, <2>2, <2>3, Deleted DEF StoreType
<1>5. CASE c.op = "DEL" /\ HandleDel(c)
  <2>1. DeleteAll({c.keys[i] : i \in DOMAIN c.keys}) /\ UNCHANGED seenGone
    BY <1>5 DEF HandleDel
  <2> QED BY <2>1, Deleted DEF StoreType
<1>6. CASE c.op = "SET" /\ HandleSet(c)
  BY <1>2, <1>6, CommandFields DEF HandleSet
<1>7. CASE c.op = "SETEX" /\ HandleSetEx(c)
  BY <1>1, <1>2, <1>7, CommandFields, StoredByCommand DEF HandleSetEx
<1>8. CASE c.op = "INCR" /\ HandleIncr(c)
  <2>1. k \in Key
    BY <1>8, CommandFields
  <2>2. CASE Expired(k)
    <3>1. DeleteAll({k}) /\ UNCHANGED seenGone
      BY <1>8, <2>2 DEF HandleIncr
    <3> QED BY <3>1, Deleted DEF StoreType
  <2>3. CASE ~Expired(k) /\ ~Exists(k)
    <3>1. Store(k, 0 + 1, NoDeadline)
      BY <1>8, <2>3 DEF HandleIncr
    <3>2. 0 + 1 \in 0..MaxInt
      BY StoreAssumption
    <3> HIDE DEF k
    <3> QED BY <1>2, <2>1, <3>1, <3>2
  <2>4. CASE ~Expired(k) /\ Exists(k) /\ data[k].value \notin {NaN, MaxInt}
    <3>1. Store(k, data[k].value + 1, data[k].left)
      BY <1>8, <2>4 DEF HandleIncr
    <3>2. data[k].value + 1 \in 0..MaxInt
      BY <1>8, <2>4, StoredByCommand
    <3>3. data[k].left \in (-(DurationMax + 1)..DurationMax) \cup {NoDeadline}
      BY <2>1, <2>4, Read, EntryNotMissing
    <3> HIDE DEF k
    <3> QED BY <1>2, <2>1, <3>1, <3>2, <3>3
  <2>5. CASE ~Expired(k) /\ Exists(k) /\ data[k].value \in {NaN, MaxInt}
    BY <1>1, <1>8, <2>5 DEF HandleIncr
  <2> QED BY <2>2, <2>3, <2>4, <2>5
<1>9. CASE c.op = "EXPIRE" /\ HandleExpire(c)
  <2>1. CASE c.duration = Bad \/ ~Exists(k)
    BY <1>1, <1>9, <2>1 DEF HandleExpire
  <2>2. CASE c.duration # Bad /\ Exists(k)
    <3>1. Store(k, data[k].value, c.duration)
      BY <1>9, <2>2 DEF HandleExpire
    <3>2. k \in Key /\ data[k].value \in 0..MaxInt \cup {NaN}
      BY <1>9, <2>2, CommandFields, Read, EntryNotMissing
    <3>3. c.duration \in -(DurationMax + 1)..DurationMax
      BY <1>9, <2>2, StoredByCommand
    <3> HIDE DEF k
    <3> QED BY <1>2, <3>1, <3>2, <3>3
  <2> QED BY <2>1, <2>2
<1> QED BY <1>1, <1>3, <1>4, <1>5, <1>6, <1>7, <1>8, <1>9
        DEF Execute, HandleKeys, HandleTTL, HandleOther

\* The sweep keeps them.
LEMMA CleanupKeeps ==
    ASSUME StoreType, NoResurrection, CleanupExpired
    PROVE  StoreType' /\ NoResurrection'
BY Deleted, StoreAssumption DEF CleanupExpired, StoreType, NoResurrection

\* An entry that is a tick older is an entry still.
LEMMA Ages ==
    ASSUME NEW e \in Entry \cup {Missing}
    PROVE  /\ Map!Older(e) \in Entry \cup {Missing}
           /\ Map!Older(e) = Missing <=> e = Missing
           /\ Map!Older(e) = IF e = Missing \/ e.left = NoDeadline THEN e
                             ELSE [e EXCEPT !.left = IF @ <= -Oldest THEN @ ELSE @ - 1]
<1>1. CASE e = Missing
  BY <1>1 DEF Map!Older
<1>2. CASE e # Missing /\ e.left = NoDeadline
  BY <1>2 DEF Map!Older
<1>3. CASE e # Missing /\ e.left # NoDeadline
  <2>1. e \in Entry /\ e.left \in -(DurationMax + 1)..DurationMax
    BY <1>3, EntryNotMissing
  <2>2. CASE e.left <= -Oldest
    <3>1. [e EXCEPT !.left = IF @ <= -Oldest THEN @ ELSE @ - 1] = e
      BY <2>1, <2>2 DEF Entry
    <3> QED BY <1>3, <2>1, <2>2, <3>1 DEF Map!Older
  <2>3. CASE ~(e.left <= -Oldest)
    <3>1. e.left - 1 \in -(DurationMax + 1)..DurationMax
      BY <2>1, <2>3, StoreAssumption
    <3>2. [e EXCEPT !.left = e.left - 1] \in Entry
      BY <2>1, <3>1 DEF Entry
    <3> QED BY <1>3, <2>3, <3>2, EntryNotMissing DEF Map!Older
  <2> QED BY <2>2, <2>3
<1> QED BY <1>1, <1>2, <1>3

\* A tick ages every entry.
LEMMA TickAges ==
    ASSUME StoreType, Tick
    PROVE  /\ data' = [k \in Key |-> Map!Older(data[k])]
           /\ StoreType'
           /\ \A k \in Key : Exists(k)' => Exists(k)
<1>1. data' = [k \in Key |-> Map!Older(data[k])]
  BY Ages DEF Tick, StoreType
<1>2. sinceCleanup' \in 0..Second /\ UNCHANGED seenGone
  BY StoreAssumption DEF Tick, StoreType
<1> QED BY <1>1, <1>2, Ages DEF StoreType, Exists

\* Only entries are kept under keys, with values and deadlines within their widths.  A key
\* that GET or EXISTS has reported absent stays absent until it is written.
THEOREM AbsentStaysAbsent == Spec => [](StoreType /\ NoResurrection)
<1>1. Init => StoreType /\ NoResurrection
  BY StoreAssumption DEF Init, StoreType, NoResurrection
<1>2. StoreType /\ NoResurrection /\ [Next]_vars => (StoreType /\ NoResurrection)'
  <2> SUFFICES ASSUME StoreType, NoResurrection, [Next]_vars
               PROVE  (StoreType /\ NoResurrection)'
    OBVIOUS
  <2>1. CASE Tick
    BY <2>1, TickAges DEF Tick, StoreType, NoResurrection
  <2>2. CASE UNCHANGED vars
    BY <2>2 DEF vars, StoreType, NoResurrection, Exists
  <2> QED BY <2>1, <2>2, ExecuteKeeps, CleanupKeeps DEF Next
<1> QED BY <1>1, <1>2, PTL DEF Spec

\* The values of the map and the history in bounds, as TypeOK says it.
THEOREM StoreTypes == Spec => []TypeOK
<1>1. StoreType => TypeOK
  BY EntryNotMissing DEF StoreType, TypeOK
<1> QED BY <1>1, AbsentStaysAbsent, PTL

\* A key that GET or EXISTS has reported absent stays absent for every command until it is
\* written again.
THEOREM NeverResurrected == Spec => []NoResurrection
BY AbsentStaysAbsent, PTL

--------------------------------------------------------------------------------
(* The refinement: each step of the store is a step of ExpiringMap. *)

\* Nothing reclaimed leaves the map as it is, and is a choice of dead keys.
LEMMA NothingGone ==
    ASSUME StoreType
    PROVE  Map!Without(data, {}) = data /\ {} \in SUBSET Map!Dead(data)
BY DEF StoreType, Map!Without

\* A command that acts on the whole map, nothing being reclaimed.
LEMMA ActsInPlace ==
    ASSUME StoreType, NEW c, cmd' = c,
           \/ Map!Asks(c, data, reply') /\ data' = data
           \/ Map!Writes(c, data, reply', data')
           \/ Map!Refuses(c, data, reply', data')
    PROVE  Map!MapExecute(c)
BY NothingGone DEF Map!MapExecute

\* A question that reclaims dead keys first.
LEMMA AsksAfterReclaim ==
    ASSUME NEW c, cmd' = c, NEW gone \in SUBSET Map!Dead(data),
           data' = Map!Without(data, gone), Map!Asks(c, data', reply')
    PROVE  Map!MapExecute(c)
BY DEF Map!MapExecute

LEMMA GetStep ==
    ASSUME StoreType, NEW c \in Command, c.op = "GET", HandleGet(c), cmd' = c
    PROVE  Map!MapExecute(c)
<1> DEFINE k == c.key
<1>1. k \in Key
  BY CommandFields
<1>2. CASE Expired(k)
  <2>1. DeleteAll({k}) /\ reply' = Null
    BY <1>2 DEF HandleGet
  <2>2. data' = Map!Without(data, {k}) /\ {k} \in SUBSET Map!Dead(data)
    BY <1>1, <1>2, <2>1, Deleted, Read
  <2>3. k \notin Map!Live(data')
    BY <1>1, <2>2 DEF Map!Without, Map!Live, Map!Stored
  <2>4. Map!Asks(c, data', reply')
    BY <2>1, <2>3 DEF Map!Asks, Null
  <2> QED BY <2>2, <2>4, AsksAfterReclaim
<1>3. CASE ~Expired(k)
  <2>1. UNCHANGED data /\ reply' = IF k \in Map!Live(data) THEN Bulk(data[k].value) ELSE Null
    BY <1>1, <1>3, Read DEF HandleGet
  <2> QED BY <2>1, ActsInPlace DEF Map!Asks, Bulk, Null
<1> QED BY <1>2, <1>3

\* The instance counts as this module does.
LEMMA SameCardinality ==
    ASSUME NEW S
    PROVE  Map!Cardinality(S) = Cardinality(S)
BY Zenon DEF Map!Cardinality, Cardinality

LEMMA ExistsStep ==
    ASSUME StoreType, NEW c \in Command, c.op = "EXISTS", HandleExists(c), cmd' = c
    PROVE  Map!MapExecute(c)
<1> DEFINE present(i) == Exists(c.keys[i]) /\ ~Expired(c.keys[i])
           absent == {c.keys[i] : i \in {j \in DOMAIN c.keys : ~present(j)}}
           gone == {k \in absent : Expired(k)}
<1>1. \A i \in DOMAIN c.keys : c.keys[i] \in Key
  BY CommandFields
<1>2. DeleteAll(gone) /\ reply' = Int64(Cardinality({i \in DOMAIN c.keys : present(i)}))
  BY DEF HandleExists, Quantify
<1>3. gone \in SUBSET Map!Dead(data)
  BY <1>1, Read
<1>4. data' = Map!Without(data, gone)
  <2> HIDE DEF gone
  <2> QED BY <1>2, Deleted
<1>5. \A k \in Key : k \in Map!Live(data') <=> k \in Map!Live(data)
  <2> HIDE DEF gone
  <2> QED BY <1>3, <1>4 DEF Map!Without, Map!Live, Map!Stored, Map!Dead
<1>6. \A i \in DOMAIN c.keys : present(i) <=> c.keys[i] \in Map!Live(data')
  BY <1>1, <1>5, Read
<1>7. {i \in DOMAIN c.keys : present(i)} = {i \in DOMAIN c.keys : c.keys[i] \in Map!Live(data')}
  BY <1>6
<1>8. reply' = Map!Integer(Map!Cardinality({i \in DOMAIN c.keys : c.keys[i] \in Map!Live(data')}))
  BY <1>2, <1>7, SameCardinality DEF Int64
<1>9. Map!Asks(c, data', reply')
  BY <1>8 DEF Map!Asks
<1> HIDE DEF gone
<1> QED BY <1>3, <1>4, <1>9, AsksAfterReclaim

LEMMA DelStep ==
    ASSUME StoreType, NEW c \in Command, c.op = "DEL", HandleDel(c), cmd' = c
    PROVE  Map!MapExecute(c)
<1> DEFINE named == {c.keys[i] : i \in DOMAIN c.keys}
<1>1. named \subseteq Key
  BY CommandFields
<1>2. DeleteAll(named) /\ reply' = Int64(Cardinality({k \in named : Exists(k)}))
  BY DEF HandleDel, Quantify
<1>3. {k \in named : Exists(k)} = named \cap Map!Stored(data)
  BY <1>1, Read
<1>4. data' = Map!Without(data, named)
  <2> HIDE DEF named
  <2> QED BY <1>2, Deleted
<1>5. reply' = Map!Integer(Map!Cardinality(named \cap Map!Stored(data)))
  BY <1>2, <1>3, SameCardinality DEF Int64
<1>6. Map!Writes(c, data, reply', data')
  BY <1>4, <1>5 DEF Map!Writes
<1> QED BY <1>6, ActsInPlace

LEMMA SetStep ==
    ASSUME StoreType, NEW c \in Command, c.op = "SET", HandleSet(c), cmd' = c
    PROVE  Map!MapExecute(c)
<1>1. data' = [data EXCEPT ![c.key] = Map!Entry(c.value, NoDeadline)] /\ reply' = Ok
  BY DEF HandleSet, Store, Map!Entry
<1>2. Map!Writes(c, data, reply', data')
  BY <1>1 DEF Map!Writes, Ok
<1> QED BY <1>2, ActsInPlace

\* SET .. EX within the width of a Duration stores the seconds it was asked for.
LEMMA SetExWrites ==
    ASSUME SecondsFit, NEW c \in Command, c.op = "SETEX", HandleSetEx(c),
           c.seconds # Bad, ~(c.seconds <= 0)
    PROVE  /\ c.seconds > 0 /\ reply' = Ok
           /\ data' = [data EXCEPT ![c.key] = Map!Entry(c.value, c.seconds * Second)]
<1>1. c.seconds \in Seconds
  BY CommandFields
<1>2. c.seconds \in Int
  BY <1>1, StoreNumbers
<1>3. c.seconds > 0 /\ c.seconds * Second <= DurationMax
  BY <1>1, <1>2 DEF SecondsFit
<1>4. c.seconds * Second \in -(DurationMax + 1)..DurationMax
  <2>1. c.seconds \in Nat /\ Second \in Nat /\ DurationMax \in Nat
    BY <1>2, <1>3, StoreNumbers
  <2>2. c.seconds * Second \in Nat
    BY ONLY <2>1
  <2> QED BY <1>3, <2>1, <2>2
<1>5. Wrap(c.seconds * Second) = c.seconds * Second
  BY <1>4, WrapInRange
<1>6. Store(c.key, c.value, c.seconds * Second) /\ reply' = Ok
  BY <1>5 DEF HandleSetEx
<1> QED BY <1>3, <1>6 DEF Store, Map!Entry

LEMMA SetExStep ==
    ASSUME SecondsFit, StoreType, NEW c \in Command, c.op = "SETEX", HandleSetEx(c), cmd' = c
    PROVE  Map!MapExecute(c)
<1>1. CASE c.seconds = Bad \/ c.seconds <= 0
  <2>1. Map!Refuses(c, data, reply', data')
    BY <1>1 DEF HandleSetEx, Map!Refuses, Error
  <2> QED BY <2>1, ActsInPlace
<1>2. CASE c.seconds # Bad /\ ~(c.seconds <= 0)
  <2>1. Map!Writes(c, data, reply', data')
    BY <1>2, SetExWrites DEF Map!Writes, Ok
  <2> QED BY <2>1, ActsInPlace
<1> QED BY <1>1, <1>2

\* An entry written over another with the same value or deadline is that one changed.
LEMMA Rewritten ==
    ASSUME StoreType, NEW k \in Key, Exists(k), NEW v, NEW t
    PROVE  /\ [data EXCEPT ![k] = Map!Entry(v, data[k].left)] = [data EXCEPT ![k].value = v]
           /\ [data EXCEPT ![k] = Map!Entry(data[k].value, t)] = [data EXCEPT ![k].left = t]
<1>1. data[k] \in Entry
  BY Read
<1>2. /\ [data[k] EXCEPT !.value = v] = [value |-> v, left |-> data[k].left]
      /\ [data[k] EXCEPT !.left = t] = [value |-> data[k].value, left |-> t]
  BY <1>1 DEF Entry
<1> QED BY <1>2 DEF Map!Entry

LEMMA ExpireStep ==
    ASSUME StoreType, NEW c \in Command, c.op = "EXPIRE", HandleExpire(c), cmd' = c
    PROVE  Map!MapExecute(c)
<1>1. c.key \in Key
  BY CommandFields
<1>2. CASE c.duration = Bad \/ ~Exists(c.key)
  <2>1. Map!Refuses(c, data, reply', data')
    BY <1>1, <1>2, Read DEF HandleExpire, Map!Refuses, Null
  <2> QED BY <2>1, ActsInPlace
<1>3. CASE c.duration # Bad /\ Exists(c.key)
  <2>1. Store(c.key, data[c.key].value, c.duration) /\ reply' = Ok
    BY <1>3 DEF HandleExpire
  <2>2. data' = [data EXCEPT ![c.key] = Map!Entry(data[c.key].value, c.duration)]
    BY <2>1 DEF Store, Map!Entry
  <2>3. data' = [data EXCEPT ![c.key].left = c.duration]
    BY <1>1, <1>3, <2>2, Rewritten
  <2>4. Map!Writes(c, data, reply', data')
    BY <1>1, <1>3, <2>1, <2>3, Read DEF Map!Writes, Ok
  <2> QED BY <2>4, ActsInPlace
<1> QED BY <1>2, <1>3

LEMMA IncrStep ==
    ASSUME StoreType, NEW c \in Command, c.op = "INCR", HandleIncr(c), cmd' = c
    PROVE  Map!MapExecute(c)
<1> DEFINE k == c.key
<1>1. k \in Key
  BY CommandFields
<1>2. CASE Expired(k)
  <2>1. DeleteAll({k}) /\ reply' = Error
    BY <1>2 DEF HandleIncr
  <2>2. data' = Map!Without(data, {k}) /\ k \in Map!Dead(data)
    BY <1>1, <1>2, <2>1, Deleted, Read
  <2>3. Map!Refuses(c, data, reply', data')
    BY <2>1, <2>2 DEF Map!Refuses, Error
  <2> QED BY <2>3, ActsInPlace
<1>3. CASE ~Expired(k) /\ Exists(k) /\ data[k].value \in {NaN, MaxInt}
  <2>1. UNCHANGED data /\ reply' = Error
    BY <1>3 DEF HandleIncr
  <2>2. Map!Refuses(c, data, reply', data')
    BY <1>1, <1>3, <2>1, Read DEF Map!Refuses, Error
  <2> QED BY <2>2, ActsInPlace
<1>4. CASE ~Expired(k) /\ ~Exists(k)
  <2>1. Store(k, 0 + 1, NoDeadline) /\ reply' = Int64(0 + 1)
    BY <1>4 DEF HandleIncr
  <2>2. 0 + 1 = 1 /\ 1 \in 0..MaxInt
    BY StoreAssumption
  <2>3. data' = [data EXCEPT ![k] = Map!Entry(1, NoDeadline)] /\ reply' = Int64(1)
    BY <2>1, <2>2 DEF Store, Map!Entry
  <2>4. Map!Writes(c, data, reply', data')
    BY <1>1, <1>4, <2>3, Read DEF Map!Writes, Int64
  <2> QED BY <2>4, ActsInPlace
<1>5. CASE ~Expired(k) /\ Exists(k) /\ data[k].value \notin {NaN, MaxInt}
  <2>1. Store(k, data[k].value + 1, data[k].left) /\ reply' = Int64(data[k].value + 1)
    BY <1>5 DEF HandleIncr
  <2>2. data' = [data EXCEPT ![k] = Map!Entry(data[k].value + 1, data[k].left)]
    BY <2>1 DEF Store, Map!Entry
  <2>3. data' = [data EXCEPT ![k].value = data[k].value + 1]
    BY <1>1, <1>5, <2>2, Rewritten
  <2>4. Map!Writes(c, data, reply', data')
    BY <1>1, <1>5, <2>1, <2>3, Read DEF Map!Writes, Int64
  <2> QED BY <2>4, ActsInPlace
<1> QED BY <1>2, <1>3, <1>4, <1>5

LEMMA KeysStep ==
    ASSUME StoreType, NEW c \in Command, c.op = "KEYS", HandleKeys(c), cmd' = c
    PROVE  Map!MapExecute(c)
<1>1. UNCHANGED data
  BY DEF HandleKeys
<1>2. CASE c.pattern = Bad
  <2>1. Map!Asks(c, data, reply')
    BY <1>2 DEF HandleKeys, Map!Asks, Null
  <2> QED BY <1>1, <2>1, ActsInPlace
<1>3. CASE c.pattern # Bad
  <2>1. {k \in c.pattern : Exists(k)} = c.pattern \cap Map!Stored(data)
    BY <1>3, CommandFields, Read
  <2>2. Map!Asks(c, data, reply')
    BY <1>3, <2>1 DEF HandleKeys, Map!Asks, Null, Array
  <2> QED BY <1>1, <2>2, ActsInPlace
<1> QED BY <1>2, <1>3

LEMMA TTLStep ==
    ASSUME StoreType, NEW c \in Command, c.op = "TTL", HandleTTL(c), cmd' = c
    PROVE  Map!MapExecute(c)
<1>1. UNCHANGED data
  BY DEF HandleTTL
<1>2. Exists(c.key) <=> c.key \in Map!Stored(data)
  BY CommandFields, Read
<1>3. reply' = Map!Integer(IF c.key \notin Map!Stored(data) THEN -2
                           ELSE IF data[c.key].left = NoDeadline THEN -1
                           ELSE Map!Truncate(data[c.key].left))
  BY <1>2 DEF HandleTTL, Int64, Map!Truncate
<1>4. Map!Asks(c, data, reply')
  BY <1>3 DEF Map!Asks
<1> QED BY <1>1, <1>4, ActsInPlace

LEMMA OtherStep ==
    ASSUME StoreType, NEW c \in Command, c.op = "OTHER", HandleOther, cmd' = c
    PROVE  Map!MapExecute(c)
<1>1. UNCHANGED data /\ Map!Asks(c, data, reply')
  BY DEF HandleOther, Map!Asks, Ok, Error
<1> QED BY <1>1, ActsInPlace

\* The store with its lazy deletions and its sweep is an ExpiringMap, as long as no SET .. EX
\* asks for more seconds than a Duration holds: no live key is lost, no dead key is read, and
\* counters, deadlines and counts come out as if every command acted alone on the map.
THEOREM StoreImplementsMap ==
    ASSUME SecondsFit
    PROVE  Spec => ImplementsMap
<1>1. Init => Map!MapInit
  BY DEF Init, Map!MapInit, Ok
<1>2. StoreType /\ [Next]_vars =>
        [(\E c \in Map!Command : Map!MapExecute(c)) \/ Map!MapReclaim \/ Map!MapTick]_(Map!mapVars)
  <2> SUFFICES ASSUME StoreType, [Next]_vars
               PROVE  \/ \E c \in Map!Command : Map!MapExecute(c)
                      \/ Map!MapReclaim
                      \/ Map!MapTick
                      \/ UNCHANGED <<data, cmd, reply>>
    BY DEF Map!mapVars
  <2>1. ASSUME NEW c \in Command, Execute(c)
        PROVE  Map!MapExecute(c)
    BY <2>1, GetStep, ExistsStep, DelStep, SetStep, SetExStep, IncrStep, KeysStep, ExpireStep,
       TTLStep, OtherStep
    DEF Execute
  <2>2. ASSUME CleanupExpired
        PROVE  Map!MapReclaim
    <3> DEFINE gone == {k \in Key : Expired(k)}
    <3>1. DeleteAll(gone) /\ UNCHANGED <<cmd, reply>>
      BY <2>2 DEF CleanupExpired
    <3>2. gone \in SUBSET Map!Dead(data)
      BY Read
    <3> HIDE DEF gone
    <3> QED BY <3>1, <3>2, Deleted DEF Map!MapReclaim
  <2>3. ASSUME Tick
        PROVE  Map!MapTick
    BY <2>3, TickAges DEF Tick, Map!MapTick
  <2> QED BY <2>1, <2>2, <2>3 DEF Next, vars, Command
<1> QED BY <1>1, <1>2, AbsentStaysAbsent, PTL DEF Spec, ImplementsMap, Map!MapSpec

\* What dispatcher.go says of SET key value EX seconds holds as far as a Duration
\* reaches: with no larger argument, a key set with so many seconds has that much time left.
THEOREM SetExHonouredInRange ==
    ASSUME SecondsFit
    PROVE  Spec => SetExHonoured
<1>1. ASSUME StoreType, NEW c \in Command, c.op = "SETEX", Execute(c), reply' = Ok
      PROVE  data'[c.key].left = c.seconds * Second
  <2>1. HandleSetEx(c) /\ c.key \in Key
    BY <1>1, CommandFields DEF Execute
  <2>2. c.seconds # Bad /\ ~(c.seconds <= 0)
    BY <1>1, <2>1 DEF HandleSetEx, Ok, Error, Map!Ok, Map!Error
  <2>3. data' = [data EXCEPT ![c.key] = Map!Entry(c.value, c.seconds * Second)]
    BY <1>1, <2>1, <2>2, SetExWrites
  <2> QED BY <1>1, <2>1, <2>3 DEF StoreType, Map!Entry
<1>2. StoreType /\ [Next]_vars =>
        [\A c \in Command : c.op = "SETEX" /\ Execute(c) /\ reply' = Ok =>
           data'[c.key].left = c.seconds * Second]_vars
  BY <1>1
<1> QED BY <1>2, AbsentStaysAbsent, PTL DEF Spec, SetExHonoured
================================================================================
