---------------------------- MODULE GodisLoopProofs ----------------------------
(***************************************************************************)
(* Proofs about GodisLoop for any connections, descriptors and sizes: the  *)
(* events of a batch stay true of their descriptors while it is handled,   *)
(* each connection's bytes stay in order and complete on their way, and    *)
(* only connections that have ended are dropped.                           *)
(***************************************************************************)
EXTENDS GodisLoop, SequenceTheorems, FiniteSetTheorems, TLAPS

ClientState == [rbuf : Seq(Units), wbuf : Seq(Units)]
Handling == {"read", "afterRead", "write", "afterWrite"}

\* n units of c after the first a.
Part(c, a, n) == [i \in 1..n |-> Unit(c, a + i)]

\* TypeOK, with the contents of the buffers.
LoopType ==
    /\ TypeOK
    /\ clients \in [FD -> ClientState \cup {None}]
    /\ inbox \in [Conn -> Seq(Units \cup {Malformed})]
    /\ outbox \in [Conn -> Seq(Units)]
    /\ got \in [Conn -> Seq(Units)]
    /\ backlog \in Seq(Conn)

\* A connection is behind one descriptor at most, and waits to be accepted, is served or is
\* dropped.
TableInv ==
    /\ \A f \in FD : (interest[f] = {}) = (fdTable[f] = None)
    /\ \A f, g \in FD : fdTable[f] # None /\ fdTable[f] = fdTable[g] => f = g
    /\ \A i, j \in DOMAIN backlog : backlog[i] = backlog[j] => i = j
    /\ \A i \in DOMAIN backlog : backlog[i] \notin Served \cup dropped
    /\ \A c \in Served : c \notin dropped
    /\ \A c \in Conn : peer[c] = "new" =>
         c \notin Served \cup dropped /\ \A i \in DOMAIN backlog : backlog[i] # c

\* What the kernel may report.
ClientEvents == [fd : FD, conn : Conn, readable : BOOLEAN, writable : BOOLEAN,
                 error : BOOLEAN, hangup : BOOLEAN]

\* An event of a client's descriptor; an error or a hangup is its peer's reset.
TrueEvent(e) == e \in ClientEvents /\ (e.error \/ e.hangup => peer[e.conn] = "reset")

\* The events still to be handled are about different descriptors, and each descriptor has the
\* connection of its event; the one being handled has it until the client is removed.
EventInv ==
    /\ batch \in Seq(ClientEvents \cup {ListenerEvent})
    /\ \A i \in DOMAIN batch :
         batch[i].fd # Listener => TrueEvent(batch[i]) /\ fdTable[batch[i].fd] = batch[i].conn
    /\ \A i, j \in DOMAIN batch : batch[i].fd = batch[j].fd => i = j
    /\ pc \in Handling =>
         /\ TrueEvent(event)
         /\ fdTable[event.fd] \in {event.conn, None}
         /\ \A i \in DOMAIN batch : batch[i].fd # event.fd
    /\ pc \in {"read", "write"} => fdTable[event.fd] # None

\* No answer waits without an interest in writable events, and no complete command is kept.
ArmedInv ==
    \A f \in FD :
        clients[f] # None =>
            /\ clients[f].wbuf # <<>> => Writable \in interest[f]
            /\ Len(clients[f].rbuf) < 2

\* The units of c after the first a wait to be read, with a malformed command behind them or not.
Queued(c, a) ==
    /\ a <= sent[c]
    /\ \/ inbox[c] = Part(c, a, sent[c] - a)
       \/ c \in faulty /\ inbox[c] = Append(Part(c, a, sent[c] - a), Malformed)

\* What the peer got and what is under way to it.
AnsweredTo(c) == Len(got[c]) + Len(outbox[c])

\* What goes back to a peer is a beginning of its commands' answers.
BackInv(c) ==
    /\ got[c] = Part(c, 0, Len(got[c]))
    /\ outbox[c] = Part(c, Len(got[c]), Len(outbox[c]))
    /\ Len(outbox[c]) <= SendSpace
    /\ AnsweredTo(c) <= sent[c]

\* A connection that was not accepted yet has its units in front of it.
WaitingInv(c) == c \notin Served \cup dropped => AnsweredTo(c) = 0 /\ Queued(c, 0)

\* Every unit of a served connection is somewhere on its way, in order.
ServedInv(f) ==
    LET c == fdTable[f]  r == clients[f].rbuf  w == clients[f].wbuf IN
    c # None /\ peer[c] # "reset" =>
        /\ w = Part(c, AnsweredTo(c), Len(w))
        /\ r = Part(c, AnsweredTo(c) + Len(w), Len(r))
        /\ Queued(c, AnsweredTo(c) + Len(w) + Len(r))

StreamInv == (\A c \in Conn : BackInv(c) /\ WaitingInv(c)) /\ \A f \in FD : ServedInv(f)

IInv == LoopType /\ TableInv /\ EventInv /\ ArmedInv /\ StreamInv

--------------------------------------------------------------------------------
(* Consecutive units of a connection. *)

\* The numbers among the constants.
LEMMA LoopNumbers ==
    /\ MaxSent \in Nat /\ MaxRead \in Nat \ {0} /\ MaxEvents \in Nat \ {0}
    /\ SendSpace \in Nat \ {0} /\ Listener \notin FD /\ None \notin Conn /\ None \notin FD
BY LoopAssumption

\* A function on 1..n is a sequence of length n.
LEMMA SequenceOf ==
    ASSUME NEW S, NEW n \in Nat, NEW f \in [1..n -> S]
    PROVE  f \in Seq(S) /\ Len(f) = n /\ DOMAIN f = 1..n
<1>1. f \in Seq(S)
  BY SeqDef
<1>2. Len(f) \in Nat /\ DOMAIN f = 1..Len(f) /\ DOMAIN f = 1..n
  BY <1>1, LenProperties
<1>3. ASSUME Len(f) # n
      PROVE  FALSE
  <2>1. Len(f) \in 1..Len(f) \/ Len(f) = 0
    BY <1>2
  <2>2. n \in 1..n \/ n = 0
    OBVIOUS
  <2> QED BY <1>2, <1>3, <2>1, <2>2
<1> QED BY <1>1, <1>2, <1>3

Own(c) == {c} \X Nat

LEMMA UnitOwned ==
    ASSUME NEW c, NEW a \in Nat, NEW i \in Nat
    PROVE  Unit(c, a + i) \in Own(c)
BY DEF Unit, Own

LEMMA PartIs ==
    ASSUME NEW c, NEW a \in Nat, NEW n \in Nat
    PROVE  /\ Len(Part(c, a, n)) = n
           /\ DOMAIN Part(c, a, n) = 1..n
           /\ \A i \in 1..n : Part(c, a, n)[i] = Unit(c, a + i)
           /\ Part(c, a, n) \in Seq(Own(c))
           /\ c \in Conn /\ a + n <= MaxSent => Part(c, a, n) \in Seq(Units)
<1>1. \A i \in 1..n : Unit(c, a + i) \in Own(c)
  BY UnitOwned
<1>2. ASSUME c \in Conn, a + n <= MaxSent
      PROVE  \A i \in 1..n : Unit(c, a + i) \in Units
  BY <1>2, LoopNumbers DEF Unit, Units
<1>3. Part(c, a, n) \in [1..n -> Own(c)]
  BY <1>1 DEF Part
<1>4. ASSUME c \in Conn, a + n <= MaxSent
      PROVE  Part(c, a, n) \in [1..n -> Units]
  BY <1>2, <1>4 DEF Part
<1>5. \A i \in 1..n : Part(c, a, n)[i] = Unit(c, a + i)
  BY DEF Part
<1> HIDE DEF Part
<1> QED BY <1>3, <1>4, <1>5, SequenceOf

LEMMA PartLength ==
    ASSUME NEW c, NEW a \in Nat, NEW n \in Nat, NEW s, s = Part(c, a, n)
    PROVE  Len(s) = n
BY PartIs

LEMMA PartUnits ==
    ASSUME NEW c \in Conn, NEW a \in Nat, NEW n \in Nat, a + n <= MaxSent,
           NEW s, s = Part(c, a, n)
    PROVE  s \in Seq(Units)
BY PartIs

\* Sequences that agree at every place are the same part.
LEMMA PartEqual ==
    ASSUME NEW c, NEW a \in Nat, NEW n \in Nat, NEW S, NEW s \in Seq(S), Len(s) = n,
           \A i \in 1..n : s[i] = Unit(c, a + i)
    PROVE  s = Part(c, a, n)
<1>1. s = [i \in 1..n |-> s[i]]
  BY LenProperties
<1> QED BY <1>1 DEF Part

Join(s, t) == s \o t

\* n after a is b.
Reaches(a, n, b) == b = a + n

\* Two parts that follow each other make one.
LEMMA PartJoin ==
    ASSUME NEW c, NEW a \in Nat, NEW n \in Nat, NEW m \in Nat, NEW b \in Nat, Reaches(a, n, b),
           NEW k \in Nat, Reaches(n, m, k), NEW s, s = Part(c, a, n), NEW t, t = Part(c, b, m)
    PROVE  Join(s, t) = Part(c, a, k)
<1> DEFINE S == Own(c)
<1>0. b = a + n /\ k = n + m
  BY DEF Reaches
<1>1. /\ Len(s) = n /\ s \in Seq(S)
      /\ \A i \in 1..n : s[i] = Unit(c, a + i)
  BY PartIs
<1>2. /\ Len(t) = m /\ t \in Seq(S)
      /\ \A i \in 1..m : t[i] = Unit(c, b + i)
  BY PartIs
<1> HIDE DEF S
<1>3. /\ s \o t \in Seq(S) /\ Len(s \o t) = k
      /\ \A i \in 1..k : (s \o t)[i] = IF i <= n THEN s[i] ELSE t[i - n]
  <2>1. 1..k = 1..(n + m) /\ k = n + m
    BY <1>0
  <2>2. /\ s \o t \in Seq(S) /\ Len(s \o t) = n + m
        /\ \A i \in 1..(n + m) : (s \o t)[i] = IF i <= n THEN s[i] ELSE t[i - n]
    BY ONLY <1>1, <1>2, ConcatProperties
  <2> QED BY <2>1, <2>2
<1>4. ASSUME NEW i \in 1..k
      PROVE  (s \o t)[i] = Unit(c, a + i)
  <2>1. CASE i <= n
    <3>1. i \in 1..n
      BY <2>1
    <3> QED BY <1>1, <1>3, <2>1, <3>1
  <2>2. CASE ~(i <= n)
    <3>1. i - n \in 1..m /\ b + (i - n) = a + i
      BY <1>0, <2>2
    <3> QED BY <1>2, <1>3, <2>2, <3>1
  <2> QED BY <2>1, <2>2
<1>5. s \o t = Part(c, a, k)
  <2>1. PICK u \in Seq(S) : u = s \o t
    BY <1>3
  <2>2. Len(u) = k /\ \A i \in 1..k : u[i] = Unit(c, a + i)
    BY <1>3, <1>4, <2>1
  <2>3. u = Part(c, a, k)
    BY ONLY <2>2, u \in Seq(S), k \in Nat, a \in Nat, PartEqual
  <2> QED BY <2>1, <2>3
<1> QED BY <1>5 DEF Join

\* From the first unit on.
LEMMA PartFirst ==
    ASSUME NEW c, NEW n \in Nat, NEW m \in Nat, NEW s, s = Part(c, 0, n), NEW t, t = Part(c, n, m)
    PROVE  Join(s, t) = Part(c, 0, n + m)
<1>1. PICK z \in Nat, k \in Nat : z = 0 /\ k = n + m
  OBVIOUS
<1>2. z \in Nat /\ k \in Nat /\ Reaches(z, n, n) /\ Reaches(n, m, k) /\ s = Part(c, z, n)
  BY <1>1 DEF Reaches
<1>3. Join(s, t) = Part(c, z, k)
  BY <1>2, PartJoin
<1> QED BY <1>1, <1>3

\* The first k elements of a sequence, and the others.
Taken(s, k) == SubSeq(s, 1, k)
Left(s, k) == SubSeq(s, k + 1, Len(s))

\* And one makes two.
LEMMA PartTaken ==
    \A c, a, n, k, m :
      a \in Nat /\ n \in Nat /\ k \in Nat /\ m \in Nat /\ Reaches(k, m, n)
      => Taken(Part(c, a, n), k) = Part(c, a, k)
<1> SUFFICES ASSUME NEW c, NEW a \in Nat, NEW n \in Nat, NEW k \in Nat, NEW m \in Nat,
                    Reaches(k, m, n), NEW s, s = Part(c, a, n)
             PROVE  Taken(s, k) = Part(c, a, k)
  OBVIOUS
<1> DEFINE S == Own(c)
<1>0. k <= n
  BY DEF Reaches
<1>1. \A i \in 1..n : s[i] = Unit(c, a + i) /\ s[i] \in S
  BY PartIs, UnitOwned
<1> HIDE DEF S
<1>2. SubSeq(s, 1, k) = Part(c, a, k)
  <2>1. \A i \in 1..k : s[i] \in S
    BY <1>0, <1>1
  <2>2. /\ SubSeq(s, 1, k) \in Seq(S)
        /\ Len(SubSeq(s, 1, k)) = IF 1 <= k THEN k - 1 + 1 ELSE 0
        /\ \A i \in 1..(k - 1 + 1) : SubSeq(s, 1, k)[i] = s[1 + i - 1]
    BY <2>1, SubSeqProperties
  <2>3. Len(SubSeq(s, 1, k)) = k /\ k \in Nat
    BY <2>2
  <2>4. ASSUME NEW i \in 1..k
        PROVE  SubSeq(s, 1, k)[i] = Unit(c, a + i)
    <3>1. i \in 1..(k - 1 + 1) /\ 1 + i - 1 = i /\ i \in 1..n
      BY <1>0
    <3> QED BY <1>1, <2>2, <3>1
  <2> QED BY <2>2, <2>3, <2>4, PartEqual
<1> QED BY <1>2 DEF Taken

LEMMA PartLeft ==
    \A c, a, n, k, b, m :
      /\ a \in Nat /\ n \in Nat /\ k \in Nat /\ b \in Nat /\ m \in Nat
      /\ Reaches(a, k, b) /\ Reaches(k, m, n)
      => Left(Part(c, a, n), k) = Part(c, b, m)
<1> SUFFICES ASSUME NEW c, NEW a \in Nat, NEW n \in Nat, NEW k \in Nat, NEW b \in Nat, NEW m \in Nat,
                    Reaches(a, k, b), Reaches(k, m, n), NEW s, s = Part(c, a, n)
             PROVE  Left(s, k) = Part(c, b, m)
  OBVIOUS
<1> DEFINE S == Own(c)
<1>0. b = a + k /\ m = n - k /\ k <= n
  BY DEF Reaches
<1>1. \A i \in 1..n : s[i] = Unit(c, a + i) /\ s[i] \in S
  BY PartIs, UnitOwned
<1> HIDE DEF S
<1>2. SubSeq(s, k + 1, n) = Part(c, b, m)
  <2>1. \A i \in (k + 1)..n : s[i] \in S
    BY <1>1
  <2>2. /\ SubSeq(s, k + 1, n) \in Seq(S)
        /\ Len(SubSeq(s, k + 1, n)) = IF k + 1 <= n THEN n - (k + 1) + 1 ELSE 0
        /\ \A i \in 1..(n - (k + 1) + 1) : SubSeq(s, k + 1, n)[i] = s[(k + 1) + i - 1]
    BY <2>1, SubSeqProperties
  <2>3. Len(SubSeq(s, k + 1, n)) = m
    BY <1>0, <2>2
  <2>4. ASSUME NEW i \in 1..m
        PROVE  SubSeq(s, k + 1, n)[i] = Unit(c, b + i)
    <3>1. i \in 1..(n - (k + 1) + 1) /\ (k + 1) + i - 1 = k + i /\ k + i \in 1..n
          /\ a + (k + i) = b + i
      BY <1>0
    <3>2. SubSeq(s, k + 1, n)[i] = s[k + i]
      BY <2>2, <3>1
    <3> QED BY <1>1, <3>1, <3>2
  <2>5. PICK u \in Seq(S) : u = SubSeq(s, k + 1, n)
    BY <2>2
  <2>6. Len(u) = m /\ \A i \in 1..m : u[i] = Unit(c, b + i)
    BY <2>3, <2>4, <2>5
  <2>7. u = Part(c, b, m)
    BY ONLY <2>6, u \in Seq(S), m \in Nat, b \in Nat, PartEqual
  <2> QED BY <2>5, <2>7
<1>3. Len(s) = n
  BY PartLength
<1> QED BY <1>2, <1>3 DEF Left

LEMMA PartGrows ==
    ASSUME NEW c, NEW a \in Nat, NEW n \in Nat, NEW s, s = Part(c, a, n)
    PROVE  Append(s, Unit(c, a + n + 1)) = Part(c, a, n + 1)
<1> DEFINE S == Own(c)  u == Unit(c, a + n + 1)
<1>0. a + n + 1 \in Nat
  OBVIOUS
<1>1. s \in Seq(S) /\ Len(s) = n /\ u \in S /\ \A i \in 1..n : s[i] = Unit(c, a + i)
  BY <1>0, PartIs DEF Unit, Own
<1> HIDE DEF S
<1>2. /\ Append(s, u) \in Seq(S) /\ Len(Append(s, u)) = n + 1
      /\ \A i \in 1..n : Append(s, u)[i] = s[i]
      /\ Append(s, u)[n + 1] = u
  BY <1>1, AppendProperties
<1>3. ASSUME NEW i \in 1..(n + 1)
      PROVE  Append(s, u)[i] = Unit(c, a + i)
  <2>1. CASE i <= n
    BY <1>1, <1>2, <2>1
  <2>2. CASE i = n + 1
    <3>1. a + n + 1 = a + (n + 1)
      OBVIOUS
    <3> QED BY <1>2, <2>2, <3>1
  <2>3. i <= n \/ i = n + 1
    OBVIOUS
  <2> QED BY <2>1, <2>2, <2>3
<1>4. n + 1 \in Nat
  OBVIOUS
<1> HIDE DEF u
<1>5. Append(s, u) = Part(c, a, n + 1)
  BY <1>2, <1>3, <1>4, PartEqual
<1> QED BY <1>5 DEF u

\* A malformed command is no unit of a well-formed one.
LEMMA NotMalformed ==
    /\ Malformed \notin Units
    /\ \A c, i : Unit(c, i) # Malformed
<1>1. \A c, i : Len(<<c, i>>) = 2 /\ Len(<<"malformed">>) = 1
  OBVIOUS
<1>2. \A c, i : Unit(c, i) # Malformed
  BY <1>1 DEF Unit, Malformed
<1>3. \A u \in Units : \E c, i : u = Unit(c, i)
  BY DEF Units, Unit
<1> QED BY <1>2, <1>3

--------------------------------------------------------------------------------
(* The tables and the events. *)

\* The connections in a descriptor table.
ServedBy(table) == {table[f] : f \in {g \in FD : table[g] # None}}

LEMMA ServedIs ==
    /\ Served = ServedBy(fdTable)
    /\ \A table, c : c \in ServedBy(table) <=> c # None /\ \E f \in FD : table[f] = c
BY DEF Served, ServedBy

LEMMA ServedNext == Served' = ServedBy(fdTable')
BY DEF Served, ServedBy

\* One more, and one less.
LEMMA ServedChanges ==
    ASSUME LoopType, TableInv, NEW f \in FD
    PROVE  /\ fdTable[f] # None =>
                ServedBy([fdTable EXCEPT ![f] = None]) = Served \ {fdTable[f]}
           /\ \A c \in Conn : fdTable[f] = None =>
                ServedBy([fdTable EXCEPT ![f] = c]) = Served \cup {c}
<1>1. fdTable \in [FD -> Conn \cup {None}] /\ None \notin Conn
  BY LoopNumbers DEF LoopType, TypeOK
<1>2. ASSUME fdTable[f] # None
      PROVE  ServedBy([fdTable EXCEPT ![f] = None]) = Served \ {fdTable[f]}
  BY <1>1, <1>2 DEF ServedBy, Served, TableInv
<1>3. ASSUME NEW c \in Conn, fdTable[f] = None
      PROVE  ServedBy([fdTable EXCEPT ![f] = c]) = Served \cup {c}
  <2> DEFINE table == [fdTable EXCEPT ![f] = c]
  <2>1. table[f] = c /\ c # None /\ \A g \in FD : g # f => table[g] = fdTable[g]
    BY <1>1
  <2> HIDE DEF table
  <2>2. \A x : x \in ServedBy(table) <=> x \in Served \cup {c}
    BY <1>3, <2>1, ServedIs
  <2> QED BY <2>2 DEF table
<1> QED BY <1>2, <1>3

\* A client's state is not the absence of one.
LEMMA ClientIs ==
    ASSUME NEW r \in Seq(Units), NEW w \in Seq(Units)
    PROVE  /\ [rbuf |-> r, wbuf |-> w] \in ClientState
           /\ [rbuf |-> r, wbuf |-> w] # None
BY LoopAssumption DEF ClientState

\* As long as the loop is where it was and no descriptor changes hands, events stay true.
LEMMA EventsKept ==
    ASSUME EventInv, UNCHANGED <<batch, event, fdTable>>,
           \A c \in Conn : peer[c] = "reset" => peer'[c] = "reset",
           \/ pc' = pc
           \/ pc' \in {"wait", "dispatch", "accept", "stopped"}
           \/ pc \in Handling /\ pc' \in {"afterRead", "afterWrite"}
    PROVE  EventInv'
BY DEF EventInv, TrueEvent, ClientEvents, Handling

\* What removing the client of the event at hand leaves.
LEMMA Removed ==
    ASSUME LoopType, TableInv, EventInv, ArmedInv, pc \in Handling, NEW f, f = event.fd,
           fdTable[f] # None, NEW written, RemoveClient(f, written),
           UNCHANGED <<peer, backlog, batch, event>>, pc' \in {"afterRead", "afterWrite", "dispatch"}
    PROVE  /\ f \in FD /\ fdTable[f] \in Conn
           /\ fdTable' \in [FD -> Conn \cup {None}]
           /\ interest' \in [FD -> SUBSET {Readable, Writable}]
           /\ dropped' \subseteq Conn
           /\ clients' \in [FD -> ClientState \cup {None}]
           /\ \A g \in FD : (clients'[g] = None) = (fdTable'[g] = None)
           /\ TableInv' /\ EventInv' /\ ArmedInv'
<1>1. event \in ClientEvents /\ f \in FD
  BY DEF EventInv, TrueEvent, ClientEvents
<1>2. /\ fdTable \in [FD -> Conn \cup {None}]
      /\ interest \in [FD -> SUBSET {Readable, Writable}]
      /\ clients \in [FD -> ClientState \cup {None}]
      /\ dropped \subseteq Conn
      /\ \A g \in FD : (clients[g] = None) = (fdTable[g] = None)
  BY DEF LoopType, TypeOK
<1>3. /\ fdTable' = [fdTable EXCEPT ![f] = None]
      /\ interest' = [interest EXCEPT ![f] = {}]
      /\ clients' = [clients EXCEPT ![f] = None]
      /\ dropped' = dropped \cup {fdTable[f]}
  BY DEF RemoveClient
<1>4. fdTable[f] \in Conn
  BY <1>1, <1>2
<1>5. /\ fdTable'[f] = None /\ interest'[f] = {} /\ clients'[f] = None
      /\ \A g \in FD : g # f => /\ fdTable'[g] = fdTable[g] /\ interest'[g] = interest[g]
                                /\ clients'[g] = clients[g]
  BY <1>1, <1>2, <1>3
<1>6. Served' = Served \ {fdTable[f]}
  BY <1>1, <1>3, ServedChanges, ServedNext
<1>7. TableInv'
  <2>1. \A g \in FD : (interest'[g] = {}) = (fdTable'[g] = None)
    BY <1>1, <1>5 DEF TableInv
  <2>2. \A g, h \in FD : fdTable'[g] # None /\ fdTable'[g] = fdTable'[h] => g = h
    BY <1>5 DEF TableInv
  <2>3. fdTable[f] \in Served
    BY <1>1, <1>4, ServedIs, LoopNumbers
  <2> QED BY <1>3, <1>6, <2>1, <2>2, <2>3 DEF TableInv
<1>8. EventInv'
  <2>1. \A i \in DOMAIN batch : batch[i].fd # event.fd
    BY DEF EventInv
  <2>2. \A i \in DOMAIN batch' :
          batch'[i].fd # Listener => /\ batch'[i] \in ClientEvents
                                     /\ fdTable'[batch'[i].fd] = batch'[i].conn
    BY <1>5, <2>1 DEF EventInv, TrueEvent, ClientEvents
  <2>3. fdTable'[event'.fd] = None
    BY <1>5
  <2> QED BY <1>1, <2>2, <2>3 DEF EventInv, TrueEvent, Handling
<1>9. ArmedInv'
  BY <1>5 DEF ArmedInv
<1>10. /\ fdTable' \in [FD -> Conn \cup {None}]
       /\ interest' \in [FD -> SUBSET {Readable, Writable}]
       /\ clients' \in [FD -> ClientState \cup {None}]
  BY <1>2, <1>3
<1> QED BY <1>1, <1>2, <1>3, <1>4, <1>5, <1>7, <1>8, <1>9, <1>10

\* The invariants about tables and events.
LoopInv == LoopType /\ TableInv /\ EventInv /\ ArmedInv

\* Epoll reports what is true, and each descriptor once.
LEMMA ReadyIs ==
    ASSUME LoopType, TableInv
    PROVE  /\ IsFiniteSet(Ready)
           /\ \A e \in Ready : \/ e = ListenerEvent /\ e.fd = Listener
                               \/ TrueEvent(e) /\ e.fd \in FD /\ fdTable[e.fd] = e.conn
           /\ \A d, e \in Ready : d.fd = e.fd => d = e
<1> DEFINE here == {g \in FD : /\ interest[g] # {}
                               /\ LET e == Event(g) IN e.readable \/ e.writable \/ e.error}
<1>1. \A f \in here : /\ f \in FD /\ Event(f).fd = f /\ Event(f).conn = fdTable[f]
                      /\ TrueEvent(Event(f))
  <2> SUFFICES ASSUME NEW f \in here
               PROVE  /\ f \in FD /\ Event(f).fd = f /\ Event(f).conn = fdTable[f]
                      /\ TrueEvent(Event(f))
    OBVIOUS
  <2>1. f \in FD /\ fdTable[f] \in Conn
    BY DEF TableInv, LoopType, TypeOK
  <2>2. /\ Event(f).fd = f /\ Event(f).conn = fdTable[f]
        /\ Event(f).error = (peer[fdTable[f]] = "reset")
        /\ Event(f).hangup = (peer[fdTable[f]] = "reset")
    BY DEF Event
  <2>3. Event(f) \in ClientEvents
    BY <2>1 DEF Event, ClientEvents
  <2> QED BY <2>1, <2>2, <2>3 DEF TrueEvent
<1>2. \A e \in Ready : (\E f \in here : e = Event(f)) \/ e = ListenerEvent
  BY DEF Ready
<1>3. ListenerEvent.fd = Listener /\ Listener \notin FD
  BY LoopNumbers DEF ListenerEvent
<1>4. IsFiniteSet(Ready)
  <2> DEFINE events == {Event(f) : f \in here}
  <2>1. IsFiniteSet(here)
    BY LoopAssumption, FS_Subset
  <2>2. IsFiniteSet(events)
    <3> DEFINE m == [f \in here |-> Event(f)]
    <3>1. events = {m[f] : f \in here} /\ m \in [here -> events]
      OBVIOUS
    <3>2. \A e \in events : \E f \in here : m[f] = e
      BY <3>1
    <3>3. m \in Surjection(here, events)
      BY <3>1, <3>2 DEF Surjection
    <3> HIDE DEF m, events, here
    <3> QED BY <2>1, <3>3, FS_Surjection
  <2>3. IsFiniteSet({ListenerEvent}) /\ IsFiniteSet({})
    BY FS_Singleton, FS_EmptySet
  <2>4. Ready = events \cup IF backlog # <<>> THEN {ListenerEvent} ELSE {}
    BY DEF Ready
  <2> HIDE DEF events
  <2> QED BY <2>2, <2>3, <2>4, FS_Union
<1> HIDE DEF here
<1> QED BY <1>1, <1>2, <1>3, <1>4

--------------------------------------------------------------------------------
(* Each step keeps types, tables and events. *)

\* A peer's step: the kernel's queues change, and a connection may end.
LEMMA PeerKeepsLoop ==
    ASSUME LoopInv, NEW c \in Conn, PeerStep(c)
    PROVE  LoopInv'
<1>1. UNCHANGED <<dropped, fdTable, interest, clients, pc, batch, event>>
  BY DEF PeerStep, Connect, PeerSend, PeerReceive, PeerShut, PeerReset, loopVars
<1>2. peer' \in [Conn -> {"new", "open", "shut", "reset"}]
      /\ \A d \in Conn : /\ peer[d] = "reset" => peer'[d] = "reset"
                         /\ peer'[d] = "new" => peer[d] = "new"
  BY DEF LoopInv, LoopType, TypeOK, PeerStep, Connect, PeerSend, PeerReceive, PeerShut, PeerReset
<1>3. TypeOK'
  <2>1. sent' \in [Conn -> 0..MaxSent] /\ faulty' \subseteq Conn
    <3>1. CASE PeerSend(c)
      <4>1. sent \in [Conn -> 0..MaxSent] /\ faulty \subseteq Conn
        BY DEF LoopInv, LoopType, TypeOK
      <4>2. /\ sent[c] < MaxSent
            /\ \/ sent' = [sent EXCEPT ![c] = @ + 1] /\ UNCHANGED faulty
               \/ faulty' = faulty \cup {c} /\ UNCHANGED sent
        BY <3>1 DEF PeerSend
      <4>3. sent[c] + 1 \in 0..MaxSent
        BY ONLY <4>1, <4>2, c \in Conn, LoopNumbers
      <4> QED BY ONLY <4>1, <4>2, <4>3, c \in Conn
    <3> QED BY <3>1 DEF LoopInv, LoopType, TypeOK, PeerStep, Connect, PeerReceive, PeerShut, PeerReset
  <2> QED BY <1>1, <1>2, <2>1 DEF LoopInv, LoopType, TypeOK
<1>4. inbox' \in [Conn -> Seq(Units \cup {Malformed})]
  <2>1. CASE PeerSend(c)
    <3>1. inbox[c] \in Seq(Units \cup {Malformed})
      BY DEF LoopInv, LoopType
    <3>2. Append(inbox[c], Malformed) \in Seq(Units \cup {Malformed})
      BY <3>1, AppendProperties
    <3>3. Unit(c, sent[c] + 1) \in Units
      BY <2>1, LoopNumbers DEF PeerSend, Unit, Units, LoopInv, LoopType, TypeOK
    <3>4. Append(inbox[c], Unit(c, sent[c] + 1)) \in Seq(Units \cup {Malformed})
      BY <3>1, <3>3, AppendProperties
    <3> QED BY <2>1, <3>2, <3>4 DEF PeerSend, LoopInv, LoopType
  <2> QED BY <2>1 DEF LoopInv, LoopType, PeerStep, Connect, PeerReceive, PeerShut, PeerReset
<1>5. outbox' \in [Conn -> Seq(Units)] /\ got' \in [Conn -> Seq(Units)]
  <2>1. CASE PeerReceive(c)
    <3>1. got[c] \o outbox[c] \in Seq(Units)
      BY ConcatProperties DEF LoopInv, LoopType
    <3>2. <<>> \in Seq(Units)
      OBVIOUS
    <3> QED BY <2>1, <3>1, <3>2 DEF PeerReceive, LoopInv, LoopType
  <2>2. CASE PeerReset(c)
    <3>1. <<>> \in Seq(Units)
      OBVIOUS
    <3> QED BY <2>2, <3>1 DEF PeerReset, LoopInv, LoopType
  <2> QED BY <2>1, <2>2 DEF LoopInv, LoopType, PeerStep, Connect, PeerSend, PeerShut
<1>6. Served' = Served
  BY <1>1 DEF Served
<1>7. backlog' \in Seq(Conn) /\ TableInv'
  <2>1. CASE Connect(c)
    <3>1. backlog \in Seq(Conn) /\ backlog' = Append(backlog, c) /\ peer[c] = "new"
      BY <2>1 DEF Connect, LoopInv, LoopType
    <3>2. /\ backlog' \in Seq(Conn) /\ DOMAIN backlog' = 1..(Len(backlog) + 1)
          /\ DOMAIN backlog = 1..Len(backlog) /\ Len(backlog) \in Nat
          /\ \A i \in 1..Len(backlog) : backlog'[i] = backlog[i]
          /\ backlog'[Len(backlog) + 1] = c
      BY <3>1, AppendProperties, LenProperties
    <3>3. \A i \in DOMAIN backlog' : i \in DOMAIN backlog \/ i = Len(backlog) + 1
      BY <3>2
    <3>4. \A i \in DOMAIN backlog : backlog[i] # c
      BY <3>1 DEF LoopInv, TableInv
    <3>5. c \notin Served \cup dropped
      BY <3>1 DEF LoopInv, TableInv
    <3>6. \A i, j \in DOMAIN backlog' : backlog'[i] = backlog'[j] => i = j
      BY <3>2, <3>3, <3>4 DEF LoopInv, TableInv
    <3>7. \A i \in DOMAIN backlog' : backlog'[i] \notin Served' \cup dropped'
      BY <1>1, <1>6, <3>2, <3>3, <3>5 DEF LoopInv, TableInv
    <3>8. \A d \in Conn : peer'[d] = "new" => peer[d] = "new" /\ d # c
      BY <2>1 DEF Connect, LoopInv, LoopType, TypeOK
    <3>9. \A d \in Conn : peer'[d] = "new" =>
            d \notin Served' \cup dropped' /\ \A i \in DOMAIN backlog' : backlog'[i] # d
      BY <1>1, <1>6, <3>2, <3>3, <3>8 DEF LoopInv, TableInv
    <3> QED BY <1>1, <1>6, <3>2, <3>6, <3>7, <3>9 DEF LoopInv, TableInv
  <2>2. CASE UNCHANGED backlog
    BY <1>1, <1>2, <1>6, <2>2 DEF LoopInv, LoopType, TableInv
  <2> QED BY <2>1, <2>2 DEF PeerStep, PeerSend, PeerReceive, PeerShut, PeerReset
<1>8. EventInv'
  BY <1>1, <1>2, EventsKept DEF LoopInv
<1>9. ArmedInv'
  BY <1>1 DEF LoopInv, ArmedInv
<1> QED BY <1>1, <1>3, <1>4, <1>5, <1>7, <1>8, <1>9 DEF LoopInv, LoopType

Places == {"wait", "dispatch", "accept", "read", "afterRead", "write", "afterWrite", "stopped"}

\* The loop moving on by itself.
LEMMA TablesKept ==
    ASSUME LoopInv, UNCHANGED <<inbox, outbox, backlog, dropped, fdTable, interest, clients>>,
           UNCHANGED <<peer, sent, faulty, got>>, pc' \in Places
    PROVE  LoopType' /\ TableInv' /\ ArmedInv'
<1>1. Served' = Served
  BY DEF Served
<1>2. LoopType'
  <2>1. TypeOK'
    BY DEF LoopInv, LoopType, TypeOK, Places
  <2> QED BY <2>1 DEF LoopInv, LoopType
<1>3. TableInv'
  BY <1>1 DEF LoopInv, TableInv
<1>4. ArmedInv'
  BY DEF LoopInv, ArmedInv
<1> QED BY <1>2, <1>3, <1>4

\* A wait returns true events about different descriptors.
LEMMA WaitKeepsLoop ==
    ASSUME LoopInv, Wait
    PROVE  LoopInv'
<1>1. PICK some \in SUBSET Ready :
         /\ Cardinality(some) = IF Cardinality(Ready) < MaxEvents THEN Cardinality(Ready)
                                                                  ELSE MaxEvents
         /\ batch' \in SetToSeqs(some)
  BY DEF Wait
<1>2. /\ pc' = "dispatch"
      /\ UNCHANGED <<inbox, outbox, backlog, dropped, fdTable, interest, clients, event>>
      /\ UNCHANGED <<peer, sent, faulty, got>>
  BY DEF Wait, peerVars
<1>3. Cardinality(some) \in Nat
  BY <1>1, ReadyIs, FS_Subset, FS_CardinalityType DEF LoopInv
<1>4. /\ batch' \in [1..Cardinality(some) -> some]
      /\ \A i, j \in 1..Cardinality(some) : i # j => batch'[i] # batch'[j]
  BY <1>1, Zenon DEF SetToSeqs
<1>5. batch' \in Seq(some) /\ DOMAIN batch' = 1..Cardinality(some)
  BY <1>3, <1>4, SequenceOf
<1>6. \A i \in DOMAIN batch' : batch'[i] \in Ready
  BY <1>4, <1>5
<1>7. some \subseteq ClientEvents \cup {ListenerEvent}
  BY ReadyIs DEF LoopInv, TrueEvent
<1>8. batch' \in Seq(ClientEvents \cup {ListenerEvent})
  BY <1>5, <1>7, SeqMonotonic
<1>9. \A i \in DOMAIN batch' :
        batch'[i].fd # Listener => /\ batch'[i] \in ClientEvents
                                   /\ fdTable[batch'[i].fd] = batch'[i].conn
                                   /\ batch'[i].error \/ batch'[i].hangup =>
                                        peer[batch'[i].conn] = "reset"
  BY <1>6, ReadyIs DEF LoopInv, TrueEvent
<1>10. \A i, j \in DOMAIN batch' : batch'[i].fd = batch'[j].fd => i = j
  BY <1>4, <1>5, <1>6, ReadyIs DEF LoopInv
<1>11. EventInv'
  BY <1>2, <1>8, <1>9, <1>10 DEF EventInv, TrueEvent, Handling
<1>12. LoopType' /\ TableInv' /\ ArmedInv'
  BY <1>2, TablesKept DEF Places
<1> QED BY <1>11, <1>12 DEF LoopInv

\* Taking the next event, or finding none.
LEMMA DispatchKeepsLoop ==
    ASSUME LoopInv, Dispatch
    PROVE  LoopInv'
<1>1. /\ batch # <<>> /\ batch \in Seq(ClientEvents \cup {ListenerEvent})
      /\ event' = Head(batch) /\ batch' = Tail(batch)
      /\ UNCHANGED <<inbox, outbox, backlog, dropped, fdTable, interest, clients>>
      /\ UNCHANGED <<peer, sent, faulty, got>>
  BY DEF Dispatch, peerVars, LoopInv, EventInv
<1>2. /\ event' = batch[1] /\ batch' \in Seq(ClientEvents \cup {ListenerEvent})
      /\ DOMAIN batch = 1..Len(batch) /\ Len(batch) \in Nat \ {0}
      /\ DOMAIN batch' = 1..(Len(batch) - 1)
      /\ \A i \in 1..(Len(batch) - 1) : batch'[i] = batch[i + 1]
  BY <1>1, HeadTailProperties, LenProperties, EmptySeq
<1>3. \A i \in DOMAIN batch' : i + 1 \in DOMAIN batch /\ batch'[i] = batch[i + 1] /\ i + 1 # 1
  BY <1>2
<1>4. 1 \in DOMAIN batch
  BY <1>2
<1>5. pc' \in {"accept", "dispatch", "read", "afterRead"}
      /\ (pc' \in {"read", "afterRead"} => event'.fd # Listener /\ clients[event'.fd] # None)
  BY DEF Dispatch
<1>6. LoopType' /\ TableInv' /\ ArmedInv'
  BY <1>1, <1>5, TablesKept DEF Places
<1>7. \A i, j \in DOMAIN batch : batch[i].fd = batch[j].fd => i = j
  BY DEF LoopInv, EventInv
<1>8. \A i \in DOMAIN batch' : batch'[i].fd # event'.fd
  BY <1>2, <1>3, <1>4, <1>7
<1>9. \A i, j \in DOMAIN batch' : batch'[i].fd = batch'[j].fd => i = j
  <2> SUFFICES ASSUME NEW i \in DOMAIN batch', NEW j \in DOMAIN batch', batch'[i].fd = batch'[j].fd
               PROVE  i = j
    OBVIOUS
  <2>1. i + 1 = j + 1
    BY <1>3, <1>7
  <2> QED BY <1>2, <2>1
<1>10. \A i \in DOMAIN batch : batch[i].fd # Listener =>
            /\ batch[i] \in ClientEvents /\ fdTable[batch[i].fd] = batch[i].conn
            /\ batch[i].error \/ batch[i].hangup => peer[batch[i].conn] = "reset"
  BY DEF LoopInv, EventInv, TrueEvent
<1>11. \A i \in DOMAIN batch' : batch'[i].fd # Listener =>
            /\ batch'[i] \in ClientEvents /\ fdTable[batch'[i].fd] = batch'[i].conn
            /\ batch'[i].error \/ batch'[i].hangup => peer[batch'[i].conn] = "reset"
  BY <1>3, <1>10
<1>12. pc' \in {"read", "afterRead"} =>
            /\ event' \in ClientEvents /\ fdTable[event'.fd] = event'.conn
            /\ event'.error \/ event'.hangup => peer[event'.conn] = "reset"
            /\ event'.conn # None
  BY <1>2, <1>4, <1>5, <1>10, LoopNumbers DEF ClientEvents
<1>13. EventInv'
  BY <1>1, <1>2, <1>5, <1>8, <1>9, <1>11, <1>12 DEF EventInv, TrueEvent, Handling
<1> QED BY <1>6, <1>13 DEF LoopInv

LEMMA BatchDoneKeepsLoop ==
    ASSUME LoopInv, BatchDone
    PROVE  LoopInv'
<1>1. /\ pc' = "wait"
      /\ UNCHANGED <<batch, inbox, outbox, backlog, dropped, fdTable, interest, clients>>
      /\ UNCHANGED <<peer, sent, faulty, got>>
  BY DEF BatchDone, peerVars
<1>2. LoopType' /\ TableInv' /\ ArmedInv'
  BY <1>1, TablesKept DEF Places
<1>3. EventInv'
  BY <1>1 DEF LoopInv, EventInv, TrueEvent, Handling
<1> QED BY <1>2, <1>3 DEF LoopInv

LEMMA AfterReadKeepsLoop ==
    ASSUME LoopInv, AfterRead
    PROVE  LoopInv'
<1>1. /\ pc = "afterRead" /\ pc' \in {"dispatch", "write", "afterWrite"}
      /\ pc' = "write" => clients[event.fd] # None
      /\ UNCHANGED <<inbox, outbox, backlog, dropped, fdTable, interest, clients, batch, event>>
      /\ UNCHANGED <<peer, sent, faulty, got>>
  BY DEF AfterRead, peerVars
<1>2. LoopType' /\ TableInv' /\ ArmedInv'
  BY <1>1, TablesKept DEF Places
<1>3. event.fd \in FD
  BY <1>1 DEF LoopInv, EventInv, TrueEvent, ClientEvents, Handling
<1>4. pc' = "write" => fdTable[event.fd] # None
  BY <1>1, <1>3 DEF LoopInv, LoopType, TypeOK
<1>5. EventInv'
  BY <1>1, <1>4 DEF LoopInv, EventInv, TrueEvent, Handling
<1> QED BY <1>2, <1>5 DEF LoopInv

LEMMA AcceptKeepsLoop ==
    ASSUME LoopInv, Accept
    PROVE  LoopInv'
<1>1. pc = "accept" /\ UNCHANGED <<batch, event, inbox, outbox>> /\ UNCHANGED <<peer, sent, faulty, got>>
  BY DEF Accept, peerVars
<1>2. CASE UNCHANGED <<backlog, dropped, fdTable, interest, clients>> /\ pc' \in {"dispatch", "stopped"}
  <2>1. LoopType' /\ TableInv' /\ ArmedInv'
    BY <1>1, <1>2, TablesKept DEF Places
  <2>2. EventInv'
    BY <1>1, <1>2, EventsKept DEF LoopInv
  <2> QED BY <2>1, <2>2 DEF LoopInv
<1> DEFINE c == Head(backlog)
<1>3. ASSUME NEW f \in FD, fdTable[f] = None, backlog # <<>>, backlog' = Tail(backlog),
             \/ /\ fdTable' = [fdTable EXCEPT ![f] = c]
                /\ interest' = [interest EXCEPT ![f] = {Readable}]
                /\ clients' = [clients EXCEPT ![f] = [rbuf |-> <<>>, wbuf |-> <<>>]]
                /\ UNCHANGED <<pc, dropped>>
             \/ /\ pc' = "stopped" /\ dropped' = dropped \cup {c}
                /\ UNCHANGED <<fdTable, interest, clients>>
      PROVE  LoopInv'
  <2>1. backlog \in Seq(Conn)
    BY DEF LoopInv, LoopType
  <2>2. /\ c = backlog[1] /\ backlog' \in Seq(Conn)
        /\ DOMAIN backlog = 1..Len(backlog) /\ Len(backlog) \in Nat \ {0}
        /\ DOMAIN backlog' = 1..(Len(backlog) - 1)
        /\ \A i \in 1..(Len(backlog) - 1) : backlog'[i] = backlog[i + 1]
    BY <1>3, <2>1, HeadTailProperties, LenProperties, EmptySeq
  <2>3. \A i \in DOMAIN backlog' : i + 1 \in DOMAIN backlog /\ backlog'[i] = backlog[i + 1] /\ i + 1 # 1
    BY <2>2
  <2>4. 1 \in DOMAIN backlog /\ c \in Conn
    BY <2>1, <2>2
  <2> HIDE DEF c
  <2>5. c # None /\ c \notin Served \cup dropped /\ peer[c] # "new"
    BY <2>2, <2>4, LoopNumbers DEF LoopInv, TableInv
  <2>6. \A i \in DOMAIN backlog' : backlog'[i] # c /\ backlog'[i] \notin Served \cup dropped
    BY <2>2, <2>3, <2>4 DEF LoopInv, TableInv
  <2>7. \A i, j \in DOMAIN backlog' : backlog'[i] = backlog'[j] => i = j
    <3> SUFFICES ASSUME NEW i \in DOMAIN backlog', NEW j \in DOMAIN backlog', backlog'[i] = backlog'[j]
                 PROVE  i = j
      OBVIOUS
    <3>1. i + 1 = j + 1
      BY <2>3 DEF LoopInv, TableInv
    <3> QED BY <2>2, <3>1
  <2>8. \A d \in Conn : peer'[d] = "new" =>
          d \notin Served \cup dropped \cup {c} /\ \A i \in DOMAIN backlog' : backlog'[i] # d
    BY <1>1, <2>3, <2>5 DEF LoopInv, TableInv
  <2>9. \A d \in Served : d \notin dropped
    BY DEF LoopInv, TableInv
  <2>10. CASE /\ fdTable' = [fdTable EXCEPT ![f] = c]
              /\ interest' = [interest EXCEPT ![f] = {Readable}]
              /\ clients' = [clients EXCEPT ![f] = [rbuf |-> <<>>, wbuf |-> <<>>]]
              /\ UNCHANGED <<pc, dropped>>
    <3>1. /\ fdTable \in [FD -> Conn \cup {None}]
          /\ interest \in [FD -> SUBSET {Readable, Writable}]
          /\ clients \in [FD -> ClientState \cup {None}]
      BY DEF LoopInv, LoopType, TypeOK
    <3>2. /\ fdTable' \in [FD -> Conn \cup {None}]
          /\ interest' \in [FD -> SUBSET {Readable, Writable}]
      BY <2>4, <2>10, <3>1
    <3>3. /\ [rbuf |-> <<>>, wbuf |-> <<>>] \in ClientState
          /\ [rbuf |-> <<>>, wbuf |-> <<>>] # None
      <4>1. <<>> \in Seq(Units)
        OBVIOUS
      <4> QED BY <4>1, ClientIs
    <3>4. clients' \in [FD -> ClientState \cup {None}]
      BY <2>10, <3>1, <3>3
    <3>5. /\ fdTable'[f] = c /\ interest'[f] = {Readable}
          /\ clients'[f] = [rbuf |-> <<>>, wbuf |-> <<>>]
          /\ \A g \in FD : g # f => /\ fdTable'[g] = fdTable[g] /\ interest'[g] = interest[g]
                                    /\ clients'[g] = clients[g]
      BY <2>10, <3>1
    <3>6. LoopType'
      <4>1. \A g \in FD : (clients'[g] = None) = (fdTable'[g] = None)
        <5>1. \A g \in FD : (clients[g] = None) = (fdTable[g] = None)
          BY DEF LoopInv, LoopType, TypeOK
        <5>2. clients'[f] # None /\ fdTable'[f] # None
          BY ONLY <2>5, <3>3, <3>5
        <5>3. ASSUME NEW g \in FD, g # f
              PROVE  (clients'[g] = None) = (fdTable'[g] = None)
          BY ONLY <3>5, <5>1, <5>3
        <5> QED BY ONLY <5>2, <5>3
      <4>2. TypeOK'
        BY <1>1, <2>10, <3>2, <4>1 DEF LoopInv, LoopType, TypeOK
      <4> QED BY <1>1, <2>2, <3>4, <4>2 DEF LoopInv, LoopType
    <3>7. Served' = Served \cup {c}
      BY <1>3, <2>4, <2>10, ServedChanges, ServedNext DEF LoopInv
    <3>8. TableInv'
      <4>1. \A g \in FD : (interest'[g] = {}) = (fdTable'[g] = None)
        BY <2>5, <3>5 DEF LoopInv, TableInv
      <4>2. \A g, h \in FD : fdTable'[g] # None /\ fdTable'[g] = fdTable'[h] => g = h
        BY <2>5, <3>5, ServedIs DEF LoopInv, TableInv
      <4> QED BY <2>5, <2>6, <2>7, <2>8, <2>9, <2>10, <3>7, <4>1, <4>2 DEF TableInv
    <3>9. EventInv'
      <4>1. \A i \in DOMAIN batch : batch[i].fd # Listener => batch[i].fd # f /\ batch[i].fd \in FD
        BY <1>3, LoopNumbers DEF LoopInv, EventInv, TrueEvent, ClientEvents
      <4> QED BY <1>1, <2>10, <3>5, <4>1 DEF LoopInv, EventInv, TrueEvent, Handling
    <3>10. ArmedInv'
      <4>1. Len(<<>>) < 2
        OBVIOUS
      <4> QED BY <3>5, <4>1 DEF LoopInv, ArmedInv
    <3> QED BY <3>6, <3>8, <3>9, <3>10 DEF LoopInv
  <2>11. CASE /\ pc' = "stopped" /\ dropped' = dropped \cup {c}
              /\ UNCHANGED <<fdTable, interest, clients>>
    <3>1. Served' = Served
      BY <2>11 DEF Served
    <3>2. LoopType'
      <4>1. TypeOK'
        BY <1>1, <2>4, <2>11 DEF LoopInv, LoopType, TypeOK
      <4> QED BY <1>1, <2>2, <2>11, <4>1 DEF LoopInv, LoopType
    <3>3. TableInv'
      BY <2>5, <2>6, <2>7, <2>8, <2>9, <2>11, <3>1 DEF LoopInv, TableInv
    <3>4. EventInv'
      BY <1>1, <2>11, EventsKept DEF LoopInv
    <3>5. ArmedInv'
      BY <2>11 DEF LoopInv, ArmedInv
    <3> QED BY <3>2, <3>3, <3>4, <3>5 DEF LoopInv
  <2> QED BY <1>3, <2>10, <2>11
<1> QED BY <1>2, <1>3 DEF Accept

\* The parse loop keeps what it does not answer; a buffer without a malformed command holds
\* only units.
LEMMA Parsed ==
    ASSUME NEW b \in Seq(Units \cup {Malformed})
    PROVE  /\ Parse(b).malformed <=> \E i \in 1..Len(b) : b[i] = Malformed
           /\ ~Parse(b).malformed =>
                /\ b \in Seq(Units)
                /\ Parse(b).answers \in Seq(Units) /\ Parse(b).rest \in Seq(Units)
                /\ Len(Parse(b).rest) < 2
                /\ \E k \in 0..Len(b) : /\ Parse(b).answers = SubSeq(b, 1, k)
                                        /\ Parse(b).rest = SubSeq(b, k + 1, Len(b))
<1> DEFINE k == Len(b) - (Len(b) % 2)
<1>1. Len(b) \in Nat /\ DOMAIN b = 1..Len(b) /\ b \in [1..Len(b) -> Units \cup {Malformed}]
  BY LenProperties
<1>2. k \in 0..Len(b) /\ Len(b) - k < 2
  BY <1>1
<1>3. /\ Parse(b).answers = SubSeq(b, 1, k) /\ Parse(b).rest = SubSeq(b, k + 1, Len(b))
      /\ Parse(b).malformed = (Malformed \in ToSet(b))
  BY DEF Parse
<1>4. Malformed \in ToSet(b) <=> \E i \in 1..Len(b) : b[i] = Malformed
  BY <1>1 DEF ToSet
<1> HIDE DEF k
<1>5. ASSUME ~Parse(b).malformed
      PROVE  /\ b \in Seq(Units)
             /\ SubSeq(b, 1, k) \in Seq(Units) /\ SubSeq(b, k + 1, Len(b)) \in Seq(Units)
             /\ Len(SubSeq(b, k + 1, Len(b))) < 2
  <2>1. \A i \in 1..Len(b) : b[i] \in Units
    BY <1>1, <1>3, <1>4, <1>5
  <2>2. b \in [1..Len(b) -> Units]
    BY <1>1, <2>1
  <2>3. b \in Seq(Units)
    BY <1>1, <2>2, SequenceOf
  <2>4. \A i \in 1..k : b[i] \in Units
    BY <1>2, <2>1
  <2>5. \A i \in (k + 1)..Len(b) : b[i] \in Units
    BY <1>2, <2>1
  <2>6. SubSeq(b, 1, k) \in Seq(Units)
    BY <1>2, <2>4, SubSeqProperties
  <2>7. /\ SubSeq(b, k + 1, Len(b)) \in Seq(Units)
        /\ Len(SubSeq(b, k + 1, Len(b))) = IF k + 1 <= Len(b) THEN Len(b) - (k + 1) + 1 ELSE 0
    BY <1>1, <1>2, <2>5, SubSeqProperties
  <2>8. Len(SubSeq(b, k + 1, Len(b))) < 2
    BY <1>1, <1>2, <2>7
  <2> QED BY <2>3, <2>6, <2>7, <2>8
<1> QED BY <1>2, <1>3, <1>4, <1>5

\* Removing the client of the event at hand, whatever was read or written before.
LEMMA RemovalKeepsLoop ==
    ASSUME LoopInv, pc \in Handling, NEW f, f = event.fd, fdTable[f] # None,
           NEW written \in [Conn -> Seq(Units)], RemoveClient(f, written),
           inbox' \in [Conn -> Seq(Units \cup {Malformed})],
           UNCHANGED <<peer, sent, faulty, got, backlog, batch, event>>,
           pc' \in {"afterRead", "afterWrite", "dispatch"}
    PROVE  LoopInv'
<1>1. /\ f \in FD /\ fdTable[f] \in Conn
      /\ fdTable' \in [FD -> Conn \cup {None}]
      /\ interest' \in [FD -> SUBSET {Readable, Writable}]
      /\ dropped' \subseteq Conn
      /\ clients' \in [FD -> ClientState \cup {None}]
      /\ \A g \in FD : (clients'[g] = None) = (fdTable'[g] = None)
      /\ TableInv' /\ EventInv' /\ ArmedInv'
  BY Removed DEF LoopInv
<1>2. outbox' \in [Conn -> Seq(Units)]
  <2>1. <<>> \in Seq(Units)
    OBVIOUS
  <2>2. outbox' = written \/ outbox' = [written EXCEPT ![fdTable[f]] = <<>>]
    BY DEF RemoveClient
  <2> QED BY <1>1, <2>1, <2>2
<1>3. TypeOK'
  BY <1>1 DEF LoopInv, LoopType, TypeOK
<1> QED BY <1>1, <1>2, <1>3 DEF LoopInv, LoopType

\* What the event at hand is about while its client is read from or written to.
LEMMA AtHand ==
    ASSUME LoopInv, pc \in {"read", "write"}
    PROVE  /\ pc \in Handling /\ event.fd \in FD
           /\ fdTable[event.fd] # None /\ fdTable[event.fd] \in Conn
           /\ clients[event.fd] \in ClientState /\ clients[event.fd] # None
<1>1. pc \in Handling /\ event.fd \in FD /\ fdTable[event.fd] # None
  BY DEF LoopInv, EventInv, TrueEvent, ClientEvents, Handling
<1> QED BY <1>1 DEF LoopInv, LoopType, TypeOK

\* What a read takes, and what it leaves.
LEMMA Reads ==
    ASSUME NEW S, NEW q \in Seq(S)
    PROVE  LET n == IF Len(q) < MaxRead THEN Len(q) ELSE MaxRead IN
           /\ n \in 0..Len(q)
           /\ SubSeq(q, 1, n) \in Seq(S) /\ SubSeq(q, n + 1, Len(q)) \in Seq(S)
           /\ Len(SubSeq(q, 1, n)) = n
           /\ \A i \in 1..n : SubSeq(q, 1, n)[i] = q[i]
<1> DEFINE n == IF Len(q) < MaxRead THEN Len(q) ELSE MaxRead
<1>1. n \in 0..Len(q) /\ Len(q) \in Nat
  BY LoopNumbers
<1>2. \A i \in 1..Len(q) : q[i] \in S
  BY ElementOfSeq
<1> HIDE DEF n
<1>3. /\ SubSeq(q, 1, n) \in Seq(S)
      /\ Len(SubSeq(q, 1, n)) = IF 1 <= n THEN n - 1 + 1 ELSE 0
      /\ \A i \in 1..(n - 1 + 1) : SubSeq(q, 1, n)[i] = q[1 + i - 1]
  <2>1. \A i \in 1..n : q[i] \in S
    BY <1>1, <1>2
  <2> QED BY <1>1, <2>1, SubSeqProperties
<1>4. SubSeq(q, n + 1, Len(q)) \in Seq(S)
  <2>1. \A i \in (n + 1)..Len(q) : q[i] \in S
    BY <1>1, <1>2
  <2> QED BY <1>1, <2>1, SubSeqProperties
<1>5. Len(SubSeq(q, 1, n)) = n
  BY <1>1, <1>3
<1>6. ASSUME NEW i \in 1..n
      PROVE  SubSeq(q, 1, n)[i] = q[i]
  <2>1. i \in 1..(n - 1 + 1) /\ 1 + i - 1 = i
    BY <1>1
  <2> QED BY <1>3, <2>1
<1> QED BY <1>1, <1>3, <1>4, <1>5, <1>6 DEF n

\* A client's state replaced by another, with an interest that fits.
LEMMA ClientChanges ==
    ASSUME LoopInv, NEW f \in FD, fdTable[f] # None,
           NEW r \in Seq(Units), NEW w \in Seq(Units), Len(r) < 2,
           clients' = [clients EXCEPT ![f] = [rbuf |-> r, wbuf |-> w]],
           \/ interest' = [interest EXCEPT ![f] = {Readable, Writable}]
           \/ interest' = [interest EXCEPT ![f] = {Readable}] /\ w = <<>>
           \/ interest' = interest /\ (w # <<>> => Writable \in interest[f]),
           UNCHANGED <<peer, sent, faulty, got, backlog, batch, event, dropped, fdTable>>,
           pc \in Handling, pc' \in {"afterRead", "afterWrite"},
           inbox' \in [Conn -> Seq(Units \cup {Malformed})], outbox' \in [Conn -> Seq(Units)]
    PROVE  LoopInv'
<1>1. [rbuf |-> r, wbuf |-> w] \in ClientState /\ [rbuf |-> r, wbuf |-> w] # None
  BY ClientIs
<1>2. /\ clients \in [FD -> ClientState \cup {None}]
      /\ interest \in [FD -> SUBSET {Readable, Writable}]
      /\ \A g \in FD : (clients[g] = None) = (fdTable[g] = None)
  BY DEF LoopInv, LoopType, TypeOK
<1>3. /\ clients' \in [FD -> ClientState \cup {None}]
      /\ clients'[f] = [rbuf |-> r, wbuf |-> w]
      /\ \A g \in FD : g # f => clients'[g] = clients[g]
  BY <1>1, <1>2
<1>4. /\ interest' \in [FD -> SUBSET {Readable, Writable}]
      /\ interest'[f] # {} /\ (w # <<>> => Writable \in interest'[f])
      /\ \A g \in FD : g # f => interest'[g] = interest[g]
  <2>1. CASE interest' = [interest EXCEPT ![f] = {Readable, Writable}]
    BY <1>2, <2>1
  <2>2. CASE interest' = [interest EXCEPT ![f] = {Readable}] /\ w = <<>>
    BY <1>2, <2>2
  <2>3. CASE interest' = interest /\ (w # <<>> => Writable \in interest[f])
    <3>1. interest[f] # {}
      BY DEF LoopInv, TableInv
    <3> QED BY <1>2, <2>3, <3>1
  <2> QED BY <2>1, <2>2, <2>3
<1>5. \A g \in FD : (clients'[g] = None) = (fdTable'[g] = None)
  BY <1>1, <1>2, <1>3
<1>6. LoopType'
  <2>1. TypeOK'
    BY <1>4, <1>5 DEF LoopInv, LoopType, TypeOK
  <2> QED BY <1>3, <2>1 DEF LoopInv, LoopType
<1>7. TableInv'
  <2>1. Served' = Served
    BY DEF Served
  <2>2. \A g \in FD : (interest'[g] = {}) = (fdTable'[g] = None)
    BY <1>4 DEF LoopInv, TableInv
  <2> QED BY <2>1, <2>2 DEF LoopInv, TableInv
<1>8. EventInv'
  BY EventsKept DEF LoopInv
<1>9. ArmedInv'
  BY <1>3, <1>4 DEF LoopInv, ArmedInv
<1> QED BY <1>6, <1>7, <1>8, <1>9 DEF LoopInv

\* The buffer of the client at hand with what a read took, and the bytes left for the next one.
ReadLength(c) == IF Len(inbox[c]) < MaxRead THEN Len(inbox[c]) ELSE MaxRead
ReadBytes(f) == clients[f].rbuf \o SubSeq(inbox[fdTable[f]], 1, ReadLength(fdTable[f]))

\* The outcomes of a read: nothing, the client's end, or its commands answered.
LEMMA ReadOutcomes ==
    ASSUME LoopInv, HandleRead
    PROVE  LET f == event.fd  c == fdTable[f]  p == Parse(ReadBytes(f)) IN
           /\ pc = "read" /\ pc' = "afterRead"
           /\ UNCHANGED <<peer, sent, faulty, got, backlog, batch, event>>
           /\ inbox' = [inbox EXCEPT ![c] = SubSeq(inbox[c], ReadLength(c) + 1, Len(inbox[c]))]
           /\ \/ inbox[c] = <<>> /\ UNCHANGED <<dropped, fdTable, interest, clients, outbox>>
              \/ /\ (inbox[c] = <<>> /\ peer[c] # "open") \/ p.malformed \/ KernelFails
                 /\ RemoveClient(f, outbox)
              \/ /\ ~p.malformed
                 /\ clients' = [clients EXCEPT ![f] = [rbuf |-> p.rest,
                                                       wbuf |-> clients[f].wbuf \o p.answers]]
                 /\ interest' = [interest EXCEPT ![f] = {Readable, Writable}]
                 /\ UNCHANGED <<dropped, fdTable, outbox>>
<1>1. event.fd \in FD /\ fdTable[event.fd] \in Conn
  BY AtHand DEF HandleRead
<1>2. clients \in [FD -> ClientState \cup {None}] /\ inbox \in [Conn -> Seq(Units \cup {Malformed})]
  BY DEF LoopInv, LoopType
<1>3. \A modified \in Outcome : ~modified => KernelFails
  BY LoopAssumption DEF Outcome
<1> QED BY <1>1, <1>2, <1>3 DEF HandleRead, ReadLength, ReadBytes, peerVars

LEMMA HandleReadKeepsLoop ==
    ASSUME LoopInv, HandleRead
    PROVE  LoopInv'
<1> DEFINE f == event.fd  c == fdTable[f]  p == Parse(ReadBytes(f))
<1>1. /\ pc = "read" /\ pc' = "afterRead"
      /\ UNCHANGED <<peer, sent, faulty, got, backlog, batch, event>>
      /\ inbox' = [inbox EXCEPT ![c] = SubSeq(inbox[c], ReadLength(c) + 1, Len(inbox[c]))]
  BY ReadOutcomes
<1>2. /\ pc \in Handling /\ f \in FD /\ c # None /\ c \in Conn
      /\ clients[f] \in ClientState
  BY <1>1, AtHand
<1>3. inbox[c] \in Seq(Units \cup {Malformed}) /\ inbox \in [Conn -> Seq(Units \cup {Malformed})]
      /\ outbox \in [Conn -> Seq(Units)]
  BY <1>2 DEF LoopInv, LoopType
<1>4. /\ SubSeq(inbox[c], ReadLength(c) + 1, Len(inbox[c])) \in Seq(Units \cup {Malformed})
      /\ SubSeq(inbox[c], 1, ReadLength(c)) \in Seq(Units \cup {Malformed})
  BY <1>3, Reads DEF ReadLength
<1>5. inbox' \in [Conn -> Seq(Units \cup {Malformed})]
  BY <1>1, <1>3, <1>4
<1>6. clients[f].rbuf \in Seq(Units) /\ clients[f].wbuf \in Seq(Units)
  BY <1>2 DEF ClientState
<1>7. ReadBytes(f) \in Seq(Units \cup {Malformed})
  <2>1. clients[f].rbuf \in Seq(Units \cup {Malformed})
    BY <1>6, SeqMonotonic
  <2> QED BY <1>4, <2>1, ConcatProperties DEF ReadBytes
<1>8. CASE UNCHANGED <<dropped, fdTable, interest, clients, outbox>>
  <2>1. LoopType'
    <3>1. TypeOK'
      BY <1>1, <1>8 DEF LoopInv, LoopType, TypeOK
    <3> QED BY <1>1, <1>5, <1>8, <3>1 DEF LoopInv, LoopType
  <2>2. TableInv'
    <3>1. Served' = Served
      BY <1>8 DEF Served
    <3> QED BY <1>1, <1>8, <3>1 DEF LoopInv, TableInv
  <2>3. EventInv'
    BY <1>1, <1>2, <1>8, EventsKept DEF LoopInv
  <2>4. ArmedInv'
    BY <1>8 DEF LoopInv, ArmedInv
  <2> QED BY <2>1, <2>2, <2>3, <2>4 DEF LoopInv
<1>9. CASE RemoveClient(f, outbox)
  BY <1>1, <1>2, <1>3, <1>5, <1>9, RemovalKeepsLoop
<1>10. CASE /\ ~p.malformed
            /\ clients' = [clients EXCEPT ![f] = [rbuf |-> p.rest,
                                                  wbuf |-> clients[f].wbuf \o p.answers]]
            /\ interest' = [interest EXCEPT ![f] = {Readable, Writable}]
            /\ UNCHANGED <<dropped, fdTable, outbox>>
  <2>1. p.rest \in Seq(Units) /\ p.answers \in Seq(Units) /\ Len(p.rest) < 2
    BY <1>7, <1>10, Parsed
  <2>2. clients[f].wbuf \o p.answers \in Seq(Units)
    BY <1>6, <2>1, ConcatProperties
  <2> HIDE DEF p, f, c
  <2> QED BY <1>1, <1>2, <1>3, <1>5, <1>10, <2>1, <2>2, ClientChanges DEF c, f
<1> QED BY <1>8, <1>9, <1>10, ReadOutcomes

\* What a write takes of the buffer: what fits.
WriteSpace(c) == SendSpace - Len(outbox[c])
WriteLength(f) ==
    IF Len(clients[f].wbuf) < WriteSpace(fdTable[f]) THEN Len(clients[f].wbuf)
                                                     ELSE WriteSpace(fdTable[f])
WriteBytes(f) == SubSeq(clients[f].wbuf, 1, WriteLength(f))
WriteRest(f) == SubSeq(clients[f].wbuf, WriteLength(f) + 1, Len(clients[f].wbuf))

\* The outcomes of a write: the client's end, or a beginning of its buffer sent.
LEMMA WriteOutcomes ==
    ASSUME LoopInv, HandleWrite
    PROVE  LET f == event.fd  c == fdTable[f]
               written == [outbox EXCEPT ![c] = outbox[c] \o WriteBytes(f)] IN
           /\ pc = "write" /\ pc' = "afterWrite"
           /\ UNCHANGED <<peer, sent, faulty, got, inbox, backlog, batch, event>>
           /\ \/ peer[c] = "reset" /\ RemoveClient(f, outbox)
              \/ KernelFails /\ peer[c] # "reset" /\ RemoveClient(f, written)
              \/ /\ peer[c] # "reset" /\ outbox' = written
                 /\ clients' = [clients EXCEPT ![f].wbuf = WriteRest(f)]
                 /\ interest' = IF WriteLength(f) = Len(clients[f].wbuf)
                                THEN [interest EXCEPT ![f] = {Readable}] ELSE interest
                 /\ UNCHANGED <<dropped, fdTable>>
<1>1. event.fd \in FD /\ fdTable[event.fd] \in Conn
  BY AtHand DEF HandleWrite
<1>2. clients \in [FD -> ClientState \cup {None}] /\ outbox \in [Conn -> Seq(Units)]
  BY DEF LoopInv, LoopType
<1>3. \A modified \in Outcome : ~modified => KernelFails
  BY LoopAssumption DEF Outcome
<1> QED BY <1>1, <1>2, <1>3 DEF HandleWrite, WriteRest, WriteBytes, WriteLength, WriteSpace, peerVars

\* What fits is not more than there is; a socket's queue never exceeds its space.
LEMMA Writes ==
    ASSUME LoopInv, NEW f \in FD, fdTable[f] # None, Len(outbox[fdTable[f]]) <= SendSpace
    PROVE  /\ WriteLength(f) \in 0..Len(clients[f].wbuf)
           /\ WriteLength(f) <= SendSpace - Len(outbox[fdTable[f]])
           /\ WriteBytes(f) \in Seq(Units) /\ WriteRest(f) \in Seq(Units)
           /\ Len(WriteBytes(f)) = WriteLength(f)
           /\ Len(WriteRest(f)) = Len(clients[f].wbuf) - WriteLength(f)
           /\ WriteLength(f) = Len(clients[f].wbuf) <=> WriteRest(f) = <<>>
<1> DEFINE w == clients[f].wbuf  n == WriteLength(f)
<1>1. fdTable[f] \in Conn /\ clients[f] \in ClientState
  BY DEF LoopInv, LoopType, TypeOK
<1>2. w \in Seq(Units) /\ outbox[fdTable[f]] \in Seq(Units)
  BY <1>1 DEF ClientState, LoopInv, LoopType
<1>3. Len(w) \in Nat /\ Len(outbox[fdTable[f]]) \in Nat /\ SendSpace \in Nat
  BY <1>2, LoopNumbers
<1>4. n \in 0..Len(w) /\ n <= SendSpace - Len(outbox[fdTable[f]])
  <2> DEFINE space == SendSpace - Len(outbox[fdTable[f]])  l == Len(w)
  <2>1. space \in Nat /\ l \in Nat
    BY <1>3
  <2>2. n = IF l < space THEN l ELSE space
    BY DEF WriteLength, WriteSpace
  <2> HIDE DEF space, l, n, w
  <2>3. n \in 0..l /\ n <= space
    BY <2>1, <2>2
  <2> QED BY <2>3 DEF space, l
<1>5. \A i \in 1..Len(w) : w[i] \in Units
  BY <1>2, ElementOfSeq
<1> HIDE DEF w, n
<1>6. /\ SubSeq(w, 1, n) \in Seq(Units)
      /\ Len(SubSeq(w, 1, n)) = IF 1 <= n THEN n - 1 + 1 ELSE 0
  <2>1. \A i \in 1..n : w[i] \in Units
    BY <1>3, <1>4, <1>5
  <2> QED BY <1>4, <2>1, SubSeqProperties
<1>7. /\ SubSeq(w, n + 1, Len(w)) \in Seq(Units)
      /\ Len(SubSeq(w, n + 1, Len(w))) = IF n + 1 <= Len(w) THEN Len(w) - (n + 1) + 1 ELSE 0
  <2>1. \A i \in (n + 1)..Len(w) : w[i] \in Units
    BY <1>3, <1>4, <1>5
  <2> QED BY <1>3, <1>4, <2>1, SubSeqProperties
<1>8. Len(SubSeq(w, 1, n)) = n /\ Len(SubSeq(w, n + 1, Len(w))) = Len(w) - n
  BY <1>3, <1>4, <1>6, <1>7
<1>9. n = Len(w) <=> SubSeq(w, n + 1, Len(w)) = <<>>
  <2>1. SubSeq(w, n + 1, Len(w)) = <<>> <=> Len(SubSeq(w, n + 1, Len(w))) = 0
    BY <1>7, EmptySeq
  <2> QED BY <1>3, <1>4, <1>8, <2>1
<1> QED BY <1>3, <1>4, <1>6, <1>7, <1>8, <1>9 DEF WriteBytes, WriteRest, w, n

LEMMA HandleWriteKeepsLoop ==
    ASSUME LoopInv, \A c \in Conn : Len(outbox[c]) <= SendSpace, HandleWrite
    PROVE  LoopInv'
<1> DEFINE f == event.fd  c == fdTable[f]  w == clients[f].wbuf
           written == [outbox EXCEPT ![c] = outbox[c] \o WriteBytes(f)]
<1>1. /\ pc = "write" /\ pc' = "afterWrite"
      /\ UNCHANGED <<peer, sent, faulty, got, inbox, backlog, batch, event>>
  BY WriteOutcomes
<1>2. /\ pc \in Handling /\ f \in FD /\ c # None /\ c \in Conn
      /\ clients[f] \in ClientState
  BY <1>1, AtHand
<1>3. /\ outbox \in [Conn -> Seq(Units)] /\ inbox' \in [Conn -> Seq(Units \cup {Malformed})]
      /\ clients \in [FD -> ClientState \cup {None}]
  BY <1>1 DEF LoopInv, LoopType
<1>4. /\ WriteBytes(f) \in Seq(Units) /\ WriteRest(f) \in Seq(Units)
      /\ WriteLength(f) = Len(w) <=> WriteRest(f) = <<>>
  BY <1>2, Writes
<1>5. written \in [Conn -> Seq(Units)]
  <2>1. outbox[c] \o WriteBytes(f) \in Seq(Units)
    BY <1>2, <1>3, <1>4, ConcatProperties
  <2> QED BY <1>3, <2>1
<1>6. CASE RemoveClient(f, outbox) \/ RemoveClient(f, written)
  <2> HIDE DEF f, written
  <2> QED BY <1>1, <1>2, <1>3, <1>5, <1>6, RemovalKeepsLoop DEF f
<1>7. CASE /\ outbox' = written
           /\ clients' = [clients EXCEPT ![f].wbuf = WriteRest(f)]
           /\ interest' = IF WriteLength(f) = Len(w)
                          THEN [interest EXCEPT ![f] = {Readable}] ELSE interest
           /\ UNCHANGED <<dropped, fdTable>>
  <2>1. clients[f].rbuf \in Seq(Units) /\ Len(clients[f].rbuf) < 2
    BY <1>2, AtHand, <1>1 DEF ClientState, LoopInv, ArmedInv
  <2>2. [clients[f] EXCEPT !.wbuf = WriteRest(f)] = [rbuf |-> clients[f].rbuf, wbuf |-> WriteRest(f)]
    BY <1>2 DEF ClientState
  <2>3. clients' = [clients EXCEPT ![f] = [rbuf |-> clients[f].rbuf, wbuf |-> WriteRest(f)]]
    BY <1>2, <1>3, <1>7, <2>2
  <2>4. \/ interest' = [interest EXCEPT ![f] = {Readable}] /\ WriteRest(f) = <<>>
        \/ interest' = interest /\ Writable \in interest[f]
    <3>1. w # <<>> => Writable \in interest[f]
      BY <1>1, <1>2, AtHand DEF LoopInv, ArmedInv
    <3>2. w = <<>> => WriteLength(f) = Len(w)
      <4>1. w = <<>> => Len(w) = 0
        OBVIOUS
      <4>2. WriteLength(f) \in 0..Len(w)
        BY <1>2, Writes
      <4> QED BY <4>1, <4>2
    <3> QED BY <1>4, <1>7, <3>1, <3>2
  <2>5. outbox' \in [Conn -> Seq(Units)]
    BY <1>5, <1>7
  <2> HIDE DEF f, w, c, written
  <2> QED BY <1>1, <1>2, <1>3, <1>4, <1>7, <2>1, <2>3, <2>4, <2>5, ClientChanges DEF c, f
<1> QED BY <1>6, <1>7, WriteOutcomes

\* handleEvent's end: nothing, or the client's.
LEMMA AfterWriteKeepsLoop ==
    ASSUME LoopInv, AfterWrite
    PROVE  LoopInv'
<1> DEFINE f == event.fd
<1>1. /\ pc = "afterWrite" /\ pc' = "dispatch" /\ pc \in Handling
      /\ UNCHANGED <<peer, sent, faulty, got, inbox, backlog, batch, event>>
  BY DEF AfterWrite, peerVars, Handling
<1>2. CASE UNCHANGED <<dropped, fdTable, interest, clients, outbox>>
  <2>1. LoopType' /\ TableInv' /\ ArmedInv'
    BY <1>1, <1>2, TablesKept DEF Places
  <2>2. EventInv'
    BY <1>1, <1>2, EventsKept DEF LoopInv
  <2> QED BY <2>1, <2>2 DEF LoopInv
<1>3. CASE clients[f] # None /\ RemoveClient(f, outbox)
  <2>1. f \in FD
    BY <1>1 DEF LoopInv, EventInv, TrueEvent, ClientEvents
  <2>2. fdTable[f] # None
    BY <1>3, <2>1 DEF LoopInv, LoopType, TypeOK
  <2>3. outbox \in [Conn -> Seq(Units)] /\ inbox' \in [Conn -> Seq(Units \cup {Malformed})]
    BY <1>1 DEF LoopInv, LoopType
  <2> QED BY <1>1, <1>3, <2>2, <2>3, RemovalKeepsLoop
<1> QED BY <1>2, <1>3 DEF AfterWrite

--------------------------------------------------------------------------------
(* The streams. *)

LEMMA PartEmpty ==
    ASSUME NEW c, NEW a \in Nat
    PROVE  Part(c, a, 0) = <<>>
<1>1. Part(c, a, 0) \in Seq(Own(c)) /\ Len(Part(c, a, 0)) = 0
  BY PartIs
<1> QED BY <1>1, EmptySeq

\* Cutting a sequence in front of its last element.
LEMMA AppendCut ==
    ASSUME NEW S, NEW s \in Seq(S), NEW x \in S, NEW k \in 0..Len(s)
    PROVE  /\ SubSeq(Append(s, x), 1, k) = SubSeq(s, 1, k)
           /\ SubSeq(Append(s, x), k + 1, Len(s) + 1) = Append(SubSeq(s, k + 1, Len(s)), x)
<1> DEFINE l == Len(s)  t == Append(s, x)
<1>1. /\ t \in Seq(S) /\ Len(t) = l + 1 /\ l \in Nat
      /\ \A i \in 1..l : t[i] = s[i]
      /\ t[l + 1] = x
  BY AppendProperties, LenProperties
<1>2. \A i \in 1..l : s[i] \in S
  BY ElementOfSeq
<1>3. \A i \in 1..(l + 1) : t[i] \in S
  BY <1>1, ElementOfSeq
<1> HIDE DEF l, t
<1>k. k \in 0..l
  BY DEF l
<1>4. SubSeq(t, 1, k) = SubSeq(s, 1, k)
  <2>1. (\A i \in 1..k : t[i] \in S) /\ \A i \in 1..k : s[i] \in S
    BY <1>1, <1>2, <1>3, <1>k
  <2>2. /\ SubSeq(t, 1, k) \in Seq(S)
        /\ Len(SubSeq(t, 1, k)) = IF 1 <= k THEN k - 1 + 1 ELSE 0
        /\ \A i \in 1..(k - 1 + 1) : SubSeq(t, 1, k)[i] = t[1 + i - 1]
    BY <1>1, <1>k, <2>1, SubSeqProperties
  <2>3. /\ SubSeq(s, 1, k) \in Seq(S)
        /\ Len(SubSeq(s, 1, k)) = IF 1 <= k THEN k - 1 + 1 ELSE 0
        /\ \A i \in 1..(k - 1 + 1) : SubSeq(s, 1, k)[i] = s[1 + i - 1]
    BY <1>1, <1>k, <2>1, SubSeqProperties
  <2>4. Len(SubSeq(t, 1, k)) = k /\ Len(SubSeq(s, 1, k)) = k
    BY <1>1, <1>k, <2>2, <2>3
  <2>5. ASSUME NEW i \in 1..k PROVE SubSeq(t, 1, k)[i] = SubSeq(s, 1, k)[i]
    <3>1. i \in 1..(k - 1 + 1) /\ 1 + i - 1 = i /\ i \in 1..l
      BY <1>1, <1>k
    <3> QED BY <1>1, <2>2, <2>3, <3>1
  <2> QED BY <2>2, <2>3, <2>4, <2>5, SeqEqual
<1>5. SubSeq(t, k + 1, l + 1) = Append(SubSeq(s, k + 1, l), x)
  <2> DEFINE u == SubSeq(s, k + 1, l)
  <2>1. (\A i \in (k + 1)..(l + 1) : t[i] \in S) /\ \A i \in (k + 1)..l : s[i] \in S
    BY <1>1, <1>2, <1>3, <1>k
  <2>2. /\ SubSeq(t, k + 1, l + 1) \in Seq(S)
        /\ Len(SubSeq(t, k + 1, l + 1)) = IF k + 1 <= l + 1 THEN (l + 1) - (k + 1) + 1 ELSE 0
        /\ \A i \in 1..((l + 1) - (k + 1) + 1) :
              SubSeq(t, k + 1, l + 1)[i] = t[(k + 1) + i - 1]
    BY <1>1, <1>k, <2>1, SubSeqProperties
  <2>3. /\ u \in Seq(S)
        /\ Len(u) = IF k + 1 <= l THEN l - (k + 1) + 1 ELSE 0
        /\ \A i \in 1..(l - (k + 1) + 1) : u[i] = s[(k + 1) + i - 1]
    BY <1>1, <1>k, <2>1, SubSeqProperties
  <2> HIDE DEF u
  <2>4. Len(SubSeq(t, k + 1, l + 1)) = l - k + 1 /\ Len(u) = l - k /\ l - k \in Nat
    BY <1>1, <1>k, <2>2, <2>3
  <2>5. /\ Append(u, x) \in Seq(S) /\ Len(Append(u, x)) = l - k + 1
        /\ \A i \in 1..(l - k) : Append(u, x)[i] = u[i]
        /\ Append(u, x)[l - k + 1] = x
    BY <2>3, <2>4, AppendProperties
  <2>6. ASSUME NEW i \in 1..(l - k + 1)
        PROVE  SubSeq(t, k + 1, l + 1)[i] = Append(u, x)[i]
    <3>1. i \in 1..((l + 1) - (k + 1) + 1) /\ (k + 1) + i - 1 = k + i
      BY <1>1, <1>k
    <3>2. SubSeq(t, k + 1, l + 1)[i] = t[k + i]
      BY <2>2, <3>1
    <3>3. CASE i <= l - k
      <4>1. i \in 1..(l - k) /\ i \in 1..(l - (k + 1) + 1) /\ k + i \in 1..l
        BY <1>1, <1>k, <3>3
      <4> QED BY <1>1, <2>3, <2>5, <3>1, <3>2, <4>1
    <3>4. CASE i = l - k + 1
      <4>1. k + i = l + 1
        BY <1>1, <1>k, <3>4
      <4> QED BY <1>1, <2>5, <3>2, <3>4, <4>1
    <3>5. i <= l - k \/ i = l - k + 1
      BY <2>4
    <3> QED BY <3>3, <3>4, <3>5
  <2> QED BY <2>2, <2>4, <2>5, <2>6, SeqEqual DEF u
<1> QED BY <1>4, <1>5 DEF l, t

\* Numbers of units.
LEMMA StreamNumbers ==
    ASSUME LoopType, NEW c \in Conn
    PROVE  /\ sent[c] \in Nat /\ sent[c] <= MaxSent
           /\ got[c] \in Seq(Units) /\ outbox[c] \in Seq(Units)
           /\ inbox[c] \in Seq(Units \cup {Malformed})
           /\ Len(got[c]) \in Nat /\ Len(outbox[c]) \in Nat
           /\ AnsweredTo(c) \in Nat
<1>1. sent[c] \in 0..MaxSent
  BY DEF LoopType, TypeOK
<1>2. Len(got[c]) \in Nat /\ Len(outbox[c]) \in Nat
  BY DEF LoopType
<1> QED BY <1>1, <1>2, LoopNumbers DEF LoopType, AnsweredTo

\* Of a served connection.
LEMMA ServedNumbers ==
    ASSUME LoopType, NEW f \in FD, fdTable[f] # None
    PROVE  /\ fdTable[f] \in Conn /\ clients[f] \in ClientState /\ clients[f] # None
           /\ clients[f].rbuf \in Seq(Units) /\ clients[f].wbuf \in Seq(Units)
           /\ Len(clients[f].rbuf) \in Nat /\ Len(clients[f].wbuf) \in Nat
<1>1. fdTable[f] \in Conn /\ clients[f] \in ClientState /\ clients[f] # None
  BY DEF LoopType, TypeOK
<1>2. clients[f].rbuf \in Seq(Units) /\ clients[f].wbuf \in Seq(Units)
  BY <1>1 DEF ClientState
<1> QED BY <1>1, <1>2

\* A step that is about connection c leaves the streams of the others.
LEMMA OthersStay ==
    ASSUME LoopType, StreamInv, NEW c,
           \A d \in Conn : d # c =>
               /\ got'[d] = got[d] /\ outbox'[d] = outbox[d] /\ inbox'[d] = inbox[d]
               /\ sent'[d] = sent[d] /\ (d \in faulty => d \in faulty')
               /\ peer'[d] # "reset" => peer[d] # "reset"
               /\ d \in Served \cup dropped => d \in Served' \cup dropped',
           \A g \in FD : fdTable'[g] \notin {None, c} =>
               fdTable'[g] = fdTable[g] /\ clients'[g] = clients[g]
    PROVE  /\ \A d \in Conn : d # c => BackInv(d)' /\ WaitingInv(d)'
           /\ \A g \in FD : fdTable'[g] # c => ServedInv(g)'
<1>1. ASSUME NEW d \in Conn, d # c
      PROVE  /\ AnsweredTo(d)' = AnsweredTo(d)
             /\ \A a \in Nat : Queued(d, a) => Queued(d, a)'
             /\ BackInv(d)'
  BY <1>1 DEF AnsweredTo, Queued, StreamInv, BackInv
<1>2. ASSUME NEW d \in Conn, d # c
      PROVE  WaitingInv(d)'
  BY <1>1, <1>2 DEF StreamInv, WaitingInv
<1>3. ASSUME NEW g \in FD, fdTable'[g] # c
      PROVE  ServedInv(g)'
  <2>1. CASE fdTable'[g] = None
    BY <2>1 DEF ServedInv
  <2>2. CASE fdTable'[g] # None /\ peer'[fdTable'[g]] # "reset"
    <3> DEFINE d == fdTable[g]  w == clients[g].wbuf  r == clients[g].rbuf
    <3>1. fdTable'[g] = d /\ clients'[g] = clients[g] /\ d # None /\ d # c
      BY <1>3, <2>2
    <3>2. d \in Conn /\ Len(r) \in Nat /\ Len(w) \in Nat /\ AnsweredTo(d) \in Nat
      BY <3>1, ServedNumbers, StreamNumbers
    <3>3. peer[d] # "reset"
      BY <2>2, <3>1, <3>2
    <3>4. /\ w = Part(d, AnsweredTo(d), Len(w))
          /\ r = Part(d, AnsweredTo(d) + Len(w), Len(r))
          /\ Queued(d, AnsweredTo(d) + Len(w) + Len(r))
      BY <3>1, <3>3 DEF StreamInv, ServedInv
    <3>5. AnsweredTo(d) + Len(w) + Len(r) \in Nat
      BY <3>2
    <3>6. /\ AnsweredTo(d)' = AnsweredTo(d)
          /\ Queued(d, AnsweredTo(d) + Len(w) + Len(r))'
      BY <1>1, <3>1, <3>2, <3>4, <3>5
    <3> QED BY <3>1, <3>4, <3>6 DEF ServedInv
  <2> QED BY <2>1, <2>2 DEF ServedInv
<1> QED BY <1>1, <1>2, <1>3

\* A step that moves no unit and ends no connection.
LEMMA StreamsKept ==
    ASSUME LoopType, StreamInv,
           UNCHANGED <<sent, faulty, inbox, outbox, got, dropped, fdTable, clients>>,
           \A d \in Conn : peer'[d] # "reset" => peer[d] # "reset"
    PROVE  StreamInv'
<1>1. Served' = Served
  BY DEF Served
<1>2. None \notin Conn
  BY LoopNumbers
<1>3. /\ \A d \in Conn : d # None => BackInv(d)' /\ WaitingInv(d)'
      /\ \A g \in FD : fdTable'[g] # None => ServedInv(g)'
  BY <1>1, OthersStay
<1>4. \A g \in FD : fdTable'[g] = None => ServedInv(g)'
  BY DEF ServedInv
<1> QED BY <1>2, <1>3, <1>4 DEF StreamInv

\* The server closes connection c after writing what it did: what is under way to the peer
\* stays a beginning of its answers.
LEMMA StreamsDropped ==
    ASSUME LoopInv, StreamInv, NEW f \in FD, NEW c, fdTable[f] = c, c # None,
           UNCHANGED <<peer, sent, faulty, got>>,
           fdTable' = [fdTable EXCEPT ![f] = None], dropped' = dropped \cup {c},
           \A g \in FD : g # f => clients'[g] = clients[g],
           \A d \in Conn : d # c => inbox'[d] = inbox[d] /\ outbox'[d] = outbox[d],
           NEW n \in Nat, outbox'[c] = Part(c, Len(got[c]), n),
           n <= SendSpace, Len(got[c]) + n <= sent[c]
    PROVE  StreamInv'
<1>1. c \in Conn /\ fdTable \in [FD -> Conn \cup {None}]
  BY DEF LoopInv, LoopType, TypeOK
<1>2. Served' = Served \ {c}
  BY ServedChanges, ServedNext DEF LoopInv
<1>3. \A g \in FD : fdTable'[g] # None => g # f /\ fdTable'[g] = fdTable[g] /\ fdTable'[g] # c
  BY <1>1 DEF LoopInv, TableInv
<1>4. /\ \A d \in Conn : d # c => BackInv(d)' /\ WaitingInv(d)'
      /\ \A g \in FD : fdTable'[g] # c => ServedInv(g)'
  BY <1>2, <1>3, OthersStay DEF LoopInv
<1>5. \A g \in FD : fdTable'[g] = c => FALSE
  BY <1>1, <1>3, LoopNumbers
<1>6. WaitingInv(c)'
  BY DEF WaitingInv
<1>7. BackInv(c)'
  <2>1. Len(got[c]) \in Nat /\ got[c] = Part(c, 0, Len(got[c]))
    BY <1>1, StreamNumbers DEF LoopInv, StreamInv, BackInv
  <2>2. Len(outbox'[c]) = n
    BY <2>1, PartLength
  <2>3. got'[c] = Part(c, 0, Len(got'[c])) /\ outbox'[c] = Part(c, Len(got'[c]), Len(outbox'[c]))
    BY <2>1, <2>2
  <2>4. Len(outbox'[c]) <= SendSpace /\ Len(got'[c]) + Len(outbox'[c]) <= sent'[c]
    BY <2>2
  <2> QED BY <2>3, <2>4 DEF BackInv, AnsweredTo
<1> QED BY <1>1, <1>4, <1>5, <1>6, <1>7 DEF StreamInv

\* A peer's next unit, or its malformed command, goes behind what waits to be read.
LEMMA SendKeepsStreams ==
    ASSUME LoopType, StreamInv, NEW c \in Conn, PeerSend(c)
    PROVE  StreamInv'
<1>1. /\ c \notin dropped \cup faulty
      /\ UNCHANGED <<peer, outbox, got, dropped, fdTable, clients>>
      /\ \/ /\ inbox' = [inbox EXCEPT ![c] = Append(inbox[c], Unit(c, sent[c] + 1))]
            /\ sent' = [sent EXCEPT ![c] = sent[c] + 1] /\ UNCHANGED faulty
         \/ /\ inbox' = [inbox EXCEPT ![c] = Append(inbox[c], Malformed)]
            /\ faulty' = faulty \cup {c} /\ UNCHANGED sent
  BY DEF PeerSend, LoopType, TypeOK
<1>2. /\ sent[c] \in Nat /\ Len(got[c]) \in Nat /\ Len(outbox[c]) \in Nat
      /\ AnsweredTo(c) \in Nat
      /\ sent \in [Conn -> 0..MaxSent] /\ inbox \in [Conn -> Seq(Units \cup {Malformed})]
  BY StreamNumbers DEF LoopType, TypeOK
<1>3. Served' = Served /\ AnsweredTo(c)' = AnsweredTo(c)
  BY <1>1 DEF Served, AnsweredTo
<1>4. ASSUME NEW a \in Nat, Queued(c, a)
      PROVE  Queued(c, a)'
  <2>1. a <= sent[c] /\ inbox[c] = Part(c, a, sent[c] - a)
    BY <1>1, <1>4 DEF Queued
  <2>2. CASE /\ inbox' = [inbox EXCEPT ![c] = Append(inbox[c], Unit(c, sent[c] + 1))]
             /\ sent' = [sent EXCEPT ![c] = sent[c] + 1]
    <3>1. sent'[c] = sent[c] + 1 /\ inbox'[c] = Append(inbox[c], Unit(c, sent[c] + 1))
      BY <1>2, <2>2
    <3>2. sent[c] - a \in Nat /\ a + (sent[c] - a) + 1 = sent[c] + 1
          /\ (sent[c] - a) + 1 = (sent[c] + 1) - a
      BY <1>2, <2>1
    <3>3. Append(inbox[c], Unit(c, a + (sent[c] - a) + 1)) = Part(c, a, (sent[c] - a) + 1)
      BY <2>1, <3>2, PartGrows
    <3>4. inbox'[c] = Part(c, a, sent'[c] - a) /\ a <= sent'[c]
      BY <1>2, <2>1, <3>1, <3>2, <3>3
    <3> QED BY <3>4 DEF Queued
  <2>3. CASE /\ inbox' = [inbox EXCEPT ![c] = Append(inbox[c], Malformed)]
             /\ faulty' = faulty \cup {c} /\ UNCHANGED sent
    BY <1>2, <2>1, <2>3 DEF Queued
  <2> QED BY <1>1, <2>2, <2>3
<1>5. /\ \A d \in Conn : d # c => BackInv(d)' /\ WaitingInv(d)'
      /\ \A g \in FD : fdTable'[g] # c => ServedInv(g)'
  <2>1. \A d \in Conn : d # c => inbox'[d] = inbox[d] /\ sent'[d] = sent[d]
    BY <1>1, <1>2
  <2> QED BY <1>1, <1>3, <2>1, OthersStay
<1>6. BackInv(c)'
  <2>1. sent'[c] >= sent[c]
    BY <1>1, <1>2
  <2>2. AnsweredTo(c)' <= sent'[c]
    <3>1. AnsweredTo(c) <= sent[c] /\ sent'[c] \in Int
      BY <1>1, <1>2 DEF StreamInv, BackInv
    <3> QED BY <1>2, <1>3, <2>1, <3>1
  <2> QED BY <1>1, <2>2 DEF StreamInv, BackInv
<1>7. WaitingInv(c)'
  BY <1>1, <1>3, <1>4 DEF StreamInv, WaitingInv
<1>8. ASSUME NEW f \in FD, fdTable'[f] = c
      PROVE  ServedInv(f)'
  <2>1. CASE peer[c] # "reset" /\ c # None
    <3> DEFINE w == clients[f].wbuf  r == clients[f].rbuf
    <3>1. /\ w = Part(c, AnsweredTo(c), Len(w))
          /\ r = Part(c, AnsweredTo(c) + Len(w), Len(r))
          /\ Queued(c, AnsweredTo(c) + Len(w) + Len(r))
      BY <1>1, <1>8, <2>1 DEF StreamInv, ServedInv
    <3>2. Len(w) \in Nat /\ Len(r) \in Nat
      BY <1>1, <1>8, <2>1, ServedNumbers
    <3> HIDE DEF w, r
    <3>3. AnsweredTo(c) + Len(w) + Len(r) \in Nat
      BY <1>2, <3>2
    <3>4. \E a \in Nat : a = AnsweredTo(c) + Len(w) + Len(r)
      BY <3>3
    <3>5. PICK a \in Nat : a = AnsweredTo(c) + Len(w) + Len(r)
      BY <3>4
    <3>6. Queued(c, a)'
      BY <1>4, <3>1, <3>5
    <3> QED BY <1>1, <1>3, <1>8, <3>1, <3>5, <3>6 DEF ServedInv, w, r
  <2> QED BY <1>1, <1>8, <2>1 DEF ServedInv
<1> QED BY <1>5, <1>6, <1>7, <1>8 DEF StreamInv

\* A peer takes what is under way.
LEMMA ReceiveKeepsStreams ==
    ASSUME LoopType, StreamInv, NEW c \in Conn, PeerReceive(c)
    PROVE  StreamInv'
<1>1. /\ UNCHANGED <<peer, sent, faulty, inbox, dropped, fdTable, clients>>
      /\ got' = [got EXCEPT ![c] = got[c] \o outbox[c]]
      /\ outbox' = [outbox EXCEPT ![c] = <<>>]
  BY DEF PeerReceive, LoopType
<1>2. /\ Len(got[c]) \in Nat /\ Len(outbox[c]) \in Nat /\ AnsweredTo(c) \in Nat
      /\ got[c] \in Seq(Units) /\ outbox[c] \in Seq(Units)
      /\ got \in [Conn -> Seq(Units)] /\ outbox \in [Conn -> Seq(Units)]
  BY StreamNumbers DEF LoopType
<1>3. /\ got'[c] = got[c] \o outbox[c] /\ outbox'[c] = <<>>
      /\ \A d \in Conn : d # c => got'[d] = got[d] /\ outbox'[d] = outbox[d]
  BY <1>1, <1>2
<1>4. Served' = Served
  BY <1>1 DEF Served
<1>5. /\ got[c] = Part(c, 0, Len(got[c])) /\ outbox[c] = Part(c, Len(got[c]), Len(outbox[c]))
      /\ AnsweredTo(c) <= sent[c]
  BY DEF StreamInv, BackInv
<1>6. got'[c] = Part(c, 0, Len(got[c]) + Len(outbox[c]))
  <2> DEFINE n == Len(got[c])  m == Len(outbox[c])
  <2>1. n \in Nat /\ m \in Nat
    BY <1>2
  <2>2. got[c] = Part(c, 0, n) /\ outbox[c] = Part(c, n, m)
    BY <1>5
  <2> HIDE DEF n, m
  <2>3. Join(got[c], outbox[c]) = Part(c, 0, n + m)
    BY <2>1, <2>2, PartFirst
  <2> QED BY <1>3, <2>3 DEF n, m, Join
<1>7. Len(got'[c]) = AnsweredTo(c) /\ Len(outbox'[c]) = 0
  <2>1. got'[c] = Part(c, 0, AnsweredTo(c))
    BY <1>6 DEF AnsweredTo
  <2>2. 0 \in Nat /\ Len(got'[c]) = AnsweredTo(c)
    BY <1>2, <2>1, PartLength
  <2> QED BY <1>3, <2>2
<1>8. AnsweredTo(c)' = AnsweredTo(c)
  BY <1>2, <1>7 DEF AnsweredTo
<1>9. /\ \A d \in Conn : d # c => BackInv(d)' /\ WaitingInv(d)'
      /\ \A g \in FD : fdTable'[g] # c => ServedInv(g)'
  BY <1>1, <1>3, <1>4, OthersStay
<1>10. BackInv(c)'
  <2>1. outbox'[c] = Part(c, AnsweredTo(c), 0)
    BY <1>2, <1>3, PartEmpty
  <2>2. 0 <= SendSpace
    BY LoopNumbers
  <2>3. got'[c] = Part(c, 0, AnsweredTo(c))
    BY <1>6 DEF AnsweredTo
  <2> QED BY <1>1, <1>5, <1>7, <1>8, <2>1, <2>2, <2>3 DEF BackInv
<1>11. \A a : Queued(c, a)' = Queued(c, a)
  BY <1>1 DEF Queued
<1>12. WaitingInv(c)'
  BY <1>1, <1>4, <1>8, <1>11 DEF StreamInv, WaitingInv
<1>13. \A f \in FD : fdTable'[f] = c => ServedInv(f)'
  BY <1>1, <1>8, <1>11 DEF StreamInv, ServedInv
<1> QED BY <1>9, <1>10, <1>12, <1>13 DEF StreamInv

\* A reset loses what is under way, and nothing is expected of the connection any more.
LEMMA ResetKeepsStreams ==
    ASSUME LoopType, StreamInv, NEW c \in Conn, PeerReset(c)
    PROVE  StreamInv'
<1>1. /\ UNCHANGED <<sent, faulty, inbox, got, dropped, fdTable, clients>>
      /\ peer' = [peer EXCEPT ![c] = "reset"] /\ outbox' = [outbox EXCEPT ![c] = <<>>]
  BY DEF PeerReset
<1>2. /\ Len(got[c]) \in Nat /\ Len(outbox[c]) \in Nat /\ sent[c] \in Nat
      /\ AnsweredTo(c) \in Nat
      /\ outbox \in [Conn -> Seq(Units)] /\ peer \in [Conn -> {"new", "open", "shut", "reset"}]
  BY StreamNumbers DEF LoopType, TypeOK
<1>3. /\ outbox'[c] = <<>> /\ Len(outbox'[c]) = 0 /\ peer'[c] = "reset"
      /\ \A d \in Conn : d # c => outbox'[d] = outbox[d] /\ peer'[d] = peer[d]
  BY <1>1, <1>2
<1>4. Served' = Served
  BY <1>1 DEF Served
<1>5. AnsweredTo(c)' = Len(got[c]) /\ Len(got[c]) <= AnsweredTo(c)
  BY <1>1, <1>2, <1>3 DEF AnsweredTo
<1>6. /\ \A d \in Conn : d # c => BackInv(d)' /\ WaitingInv(d)'
      /\ \A g \in FD : fdTable'[g] # c => ServedInv(g)'
  BY <1>1, <1>3, <1>4, OthersStay
<1>7. got[c] = Part(c, 0, Len(got[c])) /\ AnsweredTo(c) <= sent[c]
  BY DEF StreamInv, BackInv
<1>8. BackInv(c)'
  <2>1. outbox'[c] = Part(c, Len(got[c]), 0)
    BY <1>2, <1>3, PartEmpty
  <2>2. 0 <= SendSpace
    BY LoopNumbers
  <2>3. AnsweredTo(c)' <= sent[c]
    BY <1>2, <1>5, <1>7
  <2> QED BY <1>1, <1>3, <1>7, <2>1, <2>2, <2>3 DEF BackInv
<1>9. \A a : Queued(c, a)' = Queued(c, a)
  BY <1>1 DEF Queued
<1>10. WaitingInv(c)'
  <2>1. AnsweredTo(c) = 0 => AnsweredTo(c)' = 0
    BY <1>2, <1>5
  <2> QED BY <1>1, <1>4, <1>9, <2>1 DEF StreamInv, WaitingInv
<1>11. \A f \in FD : fdTable'[f] = c => ServedInv(f)'
  BY <1>3 DEF ServedInv
<1> QED BY <1>6, <1>8, <1>10, <1>11 DEF StreamInv

\* An accepted connection starts with nothing answered and everything in front of it.
LEMMA AcceptKeepsStreams ==
    ASSUME LoopInv, StreamInv, Accept
    PROVE  StreamInv'
<1>1. UNCHANGED <<peer, sent, faulty, got, inbox, outbox>>
  BY DEF Accept, peerVars
<1>2. CASE UNCHANGED <<backlog, dropped, fdTable, interest, clients>>
  BY <1>1, <1>2, StreamsKept DEF LoopInv
<1>3. ASSUME NEW f \in FD, fdTable[f] = None, backlog # <<>>, NEW c, c = Head(backlog),
             \/ /\ fdTable' = [fdTable EXCEPT ![f] = c]
                /\ clients' = [clients EXCEPT ![f] = [rbuf |-> <<>>, wbuf |-> <<>>]]
                /\ UNCHANGED dropped
             \/ dropped' = dropped \cup {c} /\ UNCHANGED <<fdTable, clients>>
      PROVE  StreamInv'
  <2>1. backlog \in Seq(Conn) /\ 1 \in DOMAIN backlog /\ c = backlog[1]
    BY <1>3, HeadTailProperties, LenProperties, EmptySeq DEF LoopInv, LoopType
  <2>2. c \in Conn /\ c # None /\ c \notin Served \cup dropped
    BY <2>1, LoopNumbers DEF LoopInv, TableInv
  <2>3. \A g \in FD : fdTable[g] # c
    BY <2>2, ServedIs
  <2>4. /\ fdTable \in [FD -> Conn \cup {None}] /\ clients \in [FD -> ClientState \cup {None}]
    BY DEF LoopInv, LoopType, TypeOK
  <2>5. BackInv(c)' /\ AnsweredTo(c)' = AnsweredTo(c) /\ \A a : Queued(c, a)' = Queued(c, a)
    BY <1>1, <2>2 DEF StreamInv, BackInv, AnsweredTo, Queued
  <2>6. CASE /\ fdTable' = [fdTable EXCEPT ![f] = c]
             /\ clients' = [clients EXCEPT ![f] = [rbuf |-> <<>>, wbuf |-> <<>>]]
             /\ UNCHANGED dropped
    <3>1. Served' = Served \cup {c}
      BY <1>3, <2>2, <2>6, ServedChanges, ServedNext DEF LoopInv
    <3>2. \A g \in FD : g # f => fdTable'[g] = fdTable[g] /\ clients'[g] = clients[g]
      BY <2>4, <2>6
    <3>3. /\ \A d \in Conn : d # c => BackInv(d)' /\ WaitingInv(d)'
          /\ \A g \in FD : fdTable'[g] # c => ServedInv(g)'
      <4>1. \A g \in FD : fdTable'[g] \notin {None, c} =>
              fdTable'[g] = fdTable[g] /\ clients'[g] = clients[g]
        BY <2>4, <2>6, <3>2
      <4> QED BY <1>1, <2>6, <3>1, <4>1, OthersStay DEF LoopInv
    <3>4. WaitingInv(c)'
      BY <3>1 DEF WaitingInv
    <3>5. ASSUME NEW g \in FD, fdTable'[g] = c
          PROVE  ServedInv(g)'
      <4>1. /\ clients'[g].rbuf = <<>> /\ clients'[g].wbuf = <<>>
        BY <2>3, <2>4, <2>6, <3>2, <3>5
      <4>2. AnsweredTo(c) = 0 /\ Queued(c, 0)
        BY <2>2 DEF StreamInv, WaitingInv
      <4>3. Part(c, 0, 0) = <<>> /\ Len(<<>>) = 0 /\ 0 + 0 = 0 /\ 0 + 0 + 0 = 0
        BY PartEmpty
      <4>4. Queued(c, 0)' /\ AnsweredTo(c)' = 0
        BY <2>5, <4>2
      <4> QED BY <3>5, <4>1, <4>3, <4>4 DEF ServedInv
    <3> QED BY <2>5, <3>3, <3>4, <3>5 DEF StreamInv
  <2>7. CASE dropped' = dropped \cup {c} /\ UNCHANGED <<fdTable, clients>>
    <3>1. Served' = Served
      BY <2>7 DEF Served
    <3>2. /\ \A d \in Conn : d # c => BackInv(d)' /\ WaitingInv(d)'
          /\ \A g \in FD : fdTable'[g] # c => ServedInv(g)'
      BY <1>1, <2>7, <3>1, OthersStay DEF LoopInv
    <3>3. WaitingInv(c)'
      BY <2>7 DEF WaitingInv
    <3> QED BY <2>3, <2>5, <2>7, <3>2, <3>3 DEF StreamInv
  <2> QED BY <1>3, <2>6, <2>7
<1> QED BY <1>2, <1>3 DEF Accept

\* What a read takes of a queue is the next part, unless the malformed command is in it.
LEMMA ReadsQueued ==
    ASSUME LoopType, NEW c \in Conn, NEW a \in Nat, Queued(c, a),
           NEW n \in Nat, n <= Len(inbox[c]),
           inbox' = [inbox EXCEPT ![c] = Left(inbox[c], n)],
           UNCHANGED <<sent, faulty>>, NEW b \in Nat, Reaches(a, n, b)
    PROVE  \/ \E i \in 1..n : inbox[c][i] = Malformed
           \/ Taken(inbox[c], n) = Part(c, a, n) /\ Queued(c, b)'
<1>1. sent[c] \in Nat /\ sent[c] <= MaxSent /\ a <= sent[c] /\ n \in Nat /\ b = a + n
  BY StreamNumbers DEF Queued, Reaches
<1>2. PICK l \in Nat : l = sent[c] - a
  BY <1>1
<1>3. inbox'[c] = Left(inbox[c], n)
  BY DEF LoopType
<1>4. CASE inbox[c] = Part(c, a, l)
  <2>1. Len(inbox[c]) = l
    BY <1>2, <1>4, PartLength
  <2>2. n \in 0..l
    BY <2>1
  <2>3. PICK m \in Nat : Reaches(n, m, l)
    BY <1>1, <2>2 DEF Reaches
  <2>4. m = sent'[c] - b /\ b <= sent'[c]
    BY <1>1, <1>2, <2>2, <2>3 DEF Reaches
  <2>6. Taken(inbox[c], n) = Part(c, a, n) /\ Left(inbox[c], n) = Part(c, b, m)
    <3>1. PICK s : s = inbox[c]
      OBVIOUS
    <3>2. s = Part(c, a, l)
      BY <1>4, <3>1
    <3>3. Taken(s, n) = Part(c, a, n) /\ Left(s, n) = Part(c, b, m)
      BY ONLY <2>2, <2>3, <3>2, a \in Nat, b \in Nat, l \in Nat, m \in Nat,
              Reaches(a, n, b), PartTaken, PartLeft
    <3> QED BY <3>1, <3>3
  <2>5. inbox'[c] = Part(c, b, sent'[c] - b)
    BY <1>3, <2>4, <2>6
  <2> QED BY <2>4, <2>5, <2>6 DEF Queued
<1>5. ASSUME c \in faulty, NEW s, s = Part(c, a, l), inbox[c] = Append(s, Malformed)
      PROVE  \/ \E i \in 1..n : inbox[c][i] = Malformed
             \/ Taken(inbox[c], n) = Part(c, a, n) /\ Queued(c, b)'
  <2> DEFINE S == Units \cup {Malformed}
  <2>1. Len(s) = l /\ s \in Seq(Units)
    <3>1. a + l <= MaxSent
      BY <1>1, <1>2
    <3> QED BY <1>5, <3>1, PartUnits, PartLength
  <2>2. s \in Seq(S) /\ Malformed \in S
    BY <2>1, SeqMonotonic
  <2> HIDE DEF S
  <2>3. Len(inbox[c]) = l + 1 /\ inbox[c][l + 1] = Malformed
    BY <1>5, <2>1, <2>2, AppendProperties
  <2>4. CASE n = l + 1
    BY <2>3, <2>4
  <2>5. CASE n # l + 1
    <3>1. n \in 0..l
      BY <2>3, <2>5
    <3>2. /\ SubSeq(inbox[c], 1, n) = SubSeq(s, 1, n)
          /\ SubSeq(inbox[c], n + 1, l + 1) = Append(SubSeq(s, n + 1, l), Malformed)
      BY <1>5, <2>1, <2>2, <3>1, AppendCut
    <3>3. PICK m \in Nat : Reaches(n, m, l)
      BY <1>1, <3>1 DEF Reaches
    <3>4. m = sent'[c] - b /\ b <= sent'[c]
      BY <1>1, <1>2, <3>1, <3>3 DEF Reaches
    <3>5. Taken(s, n) = Part(c, a, n) /\ Left(s, n) = Part(c, b, m)
      <4>1. s = Part(c, a, l)
        BY <1>5
      <4> QED BY ONLY <3>1, <3>3, <4>1, a \in Nat, b \in Nat, l \in Nat, m \in Nat,
                      Reaches(a, n, b), PartTaken, PartLeft
    <3>6. inbox'[c] = Append(Part(c, b, sent'[c] - b), Malformed)
      BY <1>3, <2>1, <2>3, <3>2, <3>4, <3>5 DEF Left
    <3> QED BY <1>5, <3>2, <3>4, <3>5, <3>6 DEF Queued, Taken
  <2> QED BY <2>4, <2>5
<1> QED BY <1>2, <1>4, <1>5 DEF Queued

\* Removing a client after writing what was written to its socket.
LEMMA RemovalKeepsStreams ==
    ASSUME LoopInv, StreamInv, NEW f \in FD, NEW c, fdTable[f] = c, c # None,
           NEW written \in [Conn -> Seq(Units)], RemoveClient(f, written),
           UNCHANGED <<peer, sent, faulty, got>>,
           \A d \in Conn : d # c => inbox'[d] = inbox[d] /\ written[d] = outbox[d],
           NEW n \in Nat, written[c] = Part(c, Len(got[c]), n),
           n <= SendSpace, Len(got[c]) + n <= sent[c]
    PROVE  StreamInv'
<1>1. c \in Conn /\ clients \in [FD -> ClientState \cup {None}]
  BY DEF LoopInv, LoopType, TypeOK
<1>2. /\ fdTable' = [fdTable EXCEPT ![f] = None] /\ dropped' = dropped \cup {c}
      /\ \A g \in FD : g # f => clients'[g] = clients[g]
  BY <1>1 DEF RemoveClient
<1>3. outbox' = written \/ outbox' = [written EXCEPT ![c] = <<>>]
  BY DEF RemoveClient
<1>4. CASE outbox' = written
  <2>1. \A d \in Conn : d # c => inbox'[d] = inbox[d] /\ outbox'[d] = outbox[d]
    BY <1>4
  <2>2. outbox'[c] = Part(c, Len(got[c]), n)
    BY <1>4
  <2> QED BY <1>2, <2>1, <2>2, StreamsDropped
<1>5. CASE outbox' = [written EXCEPT ![c] = <<>>]
  <2>1. \A d \in Conn : d # c => inbox'[d] = inbox[d] /\ outbox'[d] = outbox[d]
    BY <1>5
  <2>2. Len(got[c]) \in Nat /\ sent[c] \in Nat
    BY <1>1, StreamNumbers DEF LoopInv
  <2>3. outbox'[c] = Part(c, Len(got[c]), 0)
    BY <1>1, <1>5, <2>2, PartEmpty
  <2>4. 0 \in Nat /\ 0 <= SendSpace /\ Len(got[c]) + 0 <= sent[c]
    BY <2>2, LoopNumbers
  <2> QED BY <1>2, <2>1, <2>3, <2>4, StreamsDropped
<1> QED BY <1>3, <1>4, <1>5

\* With nothing written before.
LEMMA EndKeepsStreams ==
    ASSUME LoopInv, StreamInv, NEW f \in FD, NEW c, fdTable[f] = c, c # None,
           RemoveClient(f, outbox), UNCHANGED <<peer, sent, faulty, got>>,
           \A d \in Conn : d # c => inbox'[d] = inbox[d]
    PROVE  StreamInv'
<1>1. c \in Conn /\ outbox \in [Conn -> Seq(Units)]
  BY DEF LoopInv, LoopType, TypeOK
<1>2. /\ outbox[c] = Part(c, Len(got[c]), Len(outbox[c])) /\ Len(outbox[c]) <= SendSpace
      /\ Len(got[c]) + Len(outbox[c]) <= sent[c]
  BY <1>1 DEF StreamInv, BackInv, AnsweredTo
<1>3. PICK n \in Nat : n = Len(outbox[c])
  BY <1>1, StreamNumbers DEF LoopInv
<1>4. /\ outbox[c] = Part(c, Len(got[c]), n) /\ n <= SendSpace
      /\ Len(got[c]) + n <= sent[c] /\ n \in Nat
  BY <1>2, <1>3
<1> QED BY <1>1, <1>4, RemovalKeepsStreams

\* What is on the way through a served connection, in numbers.
LEMMA ServedStream ==
    ASSUME LoopInv, StreamInv, NEW f \in FD, NEW c \in Conn, fdTable[f] = c, peer[c] # "reset"
    PROVE  \E a, b, d, i, j \in Nat :
             /\ a = AnsweredTo(c) /\ i = Len(clients[f].wbuf) /\ j = Len(clients[f].rbuf)
             /\ Reaches(a, i, b) /\ Reaches(b, j, d)
             /\ clients[f].wbuf = Part(c, a, i) /\ clients[f].rbuf = Part(c, b, j)
             /\ Queued(c, d)
<1>1. /\ AnsweredTo(c) \in Nat /\ Len(clients[f].wbuf) \in Nat /\ Len(clients[f].rbuf) \in Nat
  BY StreamNumbers, ServedNumbers, LoopNumbers DEF LoopInv
<1>2. /\ clients[f].wbuf = Part(c, AnsweredTo(c), Len(clients[f].wbuf))
      /\ clients[f].rbuf = Part(c, AnsweredTo(c) + Len(clients[f].wbuf), Len(clients[f].rbuf))
      /\ Queued(c, AnsweredTo(c) + Len(clients[f].wbuf) + Len(clients[f].rbuf))
  BY LoopNumbers DEF StreamInv, ServedInv
<1>3. PICK a, i, j \in Nat :
        a = AnsweredTo(c) /\ i = Len(clients[f].wbuf) /\ j = Len(clients[f].rbuf)
  BY <1>1
<1>4. PICK b, d \in Nat : b = a + i /\ d = b + j
  OBVIOUS
<1>5. clients[f].wbuf = Part(c, a, i) /\ clients[f].rbuf = Part(c, b, j) /\ Queued(c, d)
  BY <1>2, <1>3, <1>4
<1>6. Reaches(a, i, b) /\ Reaches(b, j, d)
  BY <1>4 DEF Reaches
<1> QED BY <1>3, <1>5, <1>6

\* And back, after a step.
LEMMA StreamServed ==
    ASSUME NEW f, NEW c, fdTable'[f] = c, NEW a \in Nat, NEW b \in Nat, NEW d \in Nat,
           NEW i \in Nat, NEW j \in Nat,
           a = AnsweredTo(c)', Reaches(a, i, b), Reaches(b, j, d),
           clients'[f].wbuf = Part(c, a, i), clients'[f].rbuf = Part(c, b, j), Queued(c, d)'
    PROVE  ServedInv(f)'
<1>1. Len(clients'[f].wbuf) = i /\ Len(clients'[f].rbuf) = j
  BY PartLength
<1>2. clients'[f].wbuf = Part(c, AnsweredTo(c)', Len(clients'[f].wbuf))
  BY <1>1
<1>0. b = a + i /\ d = b + j
  BY DEF Reaches
<1>3. clients'[f].rbuf = Part(c, AnsweredTo(c)' + Len(clients'[f].wbuf), Len(clients'[f].rbuf))
  BY <1>0, <1>1
<1>4. Queued(c, d)' /\ d = AnsweredTo(c)' + Len(clients'[f].wbuf) + Len(clients'[f].rbuf)
  BY <1>0, <1>1
<1> QED BY <1>2, <1>3, <1>4 DEF ServedInv

\* A read's bytes continue the buffer, and the answers of their commands the write buffer.
LEMMA ReadKeepsStreams ==
    ASSUME LoopInv, StreamInv, NEW f \in FD, NEW c \in Conn, fdTable[f] = c,
           UNCHANGED <<peer, sent, faulty, got, dropped, fdTable, outbox>>,
           inbox' = [inbox EXCEPT ![c] = Left(inbox[c], ReadLength(c))],
           NEW p, p = Parse(ReadBytes(f)), ~p.malformed,
           clients' = [clients EXCEPT ![f] = [rbuf |-> p.rest,
                                              wbuf |-> Join(clients[f].wbuf, p.answers)]]
    PROVE  StreamInv'
<1>1. c # None /\ Served' = Served /\ c \in Served
  BY LoopNumbers, ServedIs DEF Served
<1>2. /\ inbox \in [Conn -> Seq(Units \cup {Malformed})]
      /\ fdTable \in [FD -> Conn \cup {None}] /\ clients \in [FD -> ClientState \cup {None}]
      /\ outbox \in [Conn -> Seq(Units)]
  BY DEF LoopInv, LoopType, TypeOK
<1>3. \A g \in FD : fdTable[g] = c => g = f
  BY <1>1 DEF LoopInv, TableInv
<1>4. \A g \in FD : g # f => clients'[g] = clients[g]
  BY <1>2
<1>5. /\ \A d \in Conn : d # c => BackInv(d)' /\ WaitingInv(d)'
      /\ \A g \in FD : fdTable'[g] # c => ServedInv(g)'
  <2>1. \A d \in Conn : d # c => inbox'[d] = inbox[d]
    BY <1>2
  <2>2. \A g \in FD : fdTable'[g] \notin {None, c} =>
          fdTable'[g] = fdTable[g] /\ clients'[g] = clients[g]
    BY <1>4
  <2> QED BY <1>1, <2>1, <2>2, OthersStay DEF LoopInv
<1>6. BackInv(c)' /\ WaitingInv(c)' /\ AnsweredTo(c)' = AnsweredTo(c)
  BY <1>1 DEF StreamInv, BackInv, WaitingInv, AnsweredTo
<1>7. ASSUME peer[c] # "reset"
      PROVE  ServedInv(f)'
  <2>1. PICK a, b, d, i, j \in Nat :
          /\ a = AnsweredTo(c) /\ i = Len(clients[f].wbuf) /\ j = Len(clients[f].rbuf)
          /\ Reaches(a, i, b) /\ Reaches(b, j, d)
          /\ clients[f].wbuf = Part(c, a, i) /\ clients[f].rbuf = Part(c, b, j)
          /\ Queued(c, d)
    BY <1>7, ServedStream
  <2>2. PICK n \in Nat : n = ReadLength(c) /\ n \in 0..Len(inbox[c])
    BY <1>2, Reads DEF ReadLength
  <2>3. PICK q : /\ q \in Seq(Units \cup {Malformed})
                 /\ q = Taken(inbox[c], n) /\ Len(q) = n
                 /\ \A x \in 1..n : q[x] = inbox[c][x]
    <3>1. inbox[c] \in Seq(Units \cup {Malformed})
      BY <1>2
    <3>2. PICK s : s = inbox[c]
      OBVIOUS
    <3>3. /\ SubSeq(s, 1, n) \in Seq(Units \cup {Malformed}) /\ Len(SubSeq(s, 1, n)) = n
          /\ \A x \in 1..n : SubSeq(s, 1, n)[x] = s[x]
      BY <2>2, <3>1, <3>2, Reads DEF ReadLength
    <3> QED BY <3>2, <3>3 DEF Taken
  <2>4. PICK r : r \in Seq(Units) /\ r = clients[f].rbuf /\ Len(r) = j
    BY <2>1, <1>1, ServedNumbers DEF LoopInv
  <2>5. PICK bytes :
          /\ bytes \in Seq(Units \cup {Malformed})
          /\ bytes = Join(r, q) /\ p = Parse(bytes) /\ Len(bytes) = j + n
          /\ \A x \in 1..n : j + x \in 1..Len(bytes) /\ bytes[j + x] = q[x]
    <3>1. r \in Seq(Units \cup {Malformed}) /\ q \in Seq(Units \cup {Malformed})
      BY <2>3, <2>4, SeqMonotonic
    <3>2. /\ r \o q \in Seq(Units \cup {Malformed}) /\ Len(r \o q) = Len(r) + Len(q)
          /\ \A x \in 1..(Len(r) + Len(q)) :
                (r \o q)[x] = IF x <= Len(r) THEN r[x] ELSE q[x - Len(r)]
      BY ONLY <3>1, ConcatProperties
    <3>3. ASSUME NEW x \in 1..n
          PROVE  j + x \in 1..(j + n) /\ (r \o q)[j + x] = q[x]
      <4>1. j + x \in 1..(Len(r) + Len(q)) /\ ~(j + x <= Len(r)) /\ (j + x) - Len(r) = x
        BY <2>3, <2>4
      <4> QED BY <2>3, <2>4, <3>2, <4>1
    <3>4. p = Parse(r \o q)
      BY <2>2, <2>3, <2>4 DEF ReadBytes, Taken
    <3>5. Len(r \o q) = j + n /\ r \o q = Join(r, q)
      BY <2>3, <2>4, <3>2 DEF Join
    <3> QED BY ONLY <3>2, <3>3, <3>4, <3>5
  <2>6. \A x \in 1..Len(bytes) : bytes[x] # Malformed
    BY <2>5, Parsed
  <2>7. \A x \in 1..n : inbox[c][x] # Malformed
    BY <2>3, <2>5, <2>6
  <2>8. PICK e \in Nat : Reaches(d, n, e)
    BY <2>2 DEF Reaches
  <2>9. q = Part(c, d, n) /\ Queued(c, e)'
    <3>1. n <= Len(inbox[c]) /\ inbox' = [inbox EXCEPT ![c] = Left(inbox[c], n)]
      BY <2>2
    <3>2. Taken(inbox[c], n) = Part(c, d, n) /\ Queued(c, e)'
      <4>1. LoopType /\ Queued(c, d) /\ Reaches(d, n, e) /\ UNCHANGED <<sent, faulty>>
        BY <2>1, <2>8 DEF LoopInv
      <4> QED BY ONLY <2>7, <3>1, <4>1, c \in Conn, d \in Nat, e \in Nat, n \in Nat, ReadsQueued
    <3> QED BY <2>3, <3>2
  <2>10. PICK l \in Nat : l = j + n /\ Reaches(j, n, l)
    BY DEF Reaches
  <2>11. PICK k \in Nat : k <= l /\ p.answers = Taken(bytes, k) /\ p.rest = Left(bytes, k)
    <3>1. \E k \in 0..Len(bytes) : /\ p.answers = SubSeq(bytes, 1, k)
                                  /\ p.rest = SubSeq(bytes, k + 1, Len(bytes))
      BY <2>5, Parsed
    <3>2. \A k \in 0..Len(bytes) : k \in Nat /\ k <= l
      BY <2>5, <2>10
    <3> QED BY <3>1, <3>2 DEF Taken, Left
  <2>12. PICK x, y, m \in Nat :
           /\ Reaches(a, y, x) /\ Reaches(x, m, e)
           /\ Join(clients[f].wbuf, Taken(bytes, k)) = Part(c, a, y)
           /\ Left(bytes, k) = Part(c, x, m)
    <3>1. PICK w : w = clients[f].wbuf
      OBVIOUS
    <3>2. /\ w = Part(c, a, i) /\ r = Part(c, b, j) /\ q = Part(c, d, n) /\ bytes = Join(r, q)
          /\ Reaches(a, i, b) /\ Reaches(b, j, d) /\ Reaches(d, n, e) /\ Reaches(j, n, l)
          /\ k <= l
      BY <2>11, <2>1, <2>4, <2>5, <2>8, <2>9, <2>10, <3>1
    <3>3. PICK u, v, z \in Nat : Reaches(b, k, u) /\ Reaches(i, k, v) /\ Reaches(k, z, l)
      <4>1. b + k \in Nat /\ i + k \in Nat /\ l - k \in Nat /\ l = k + (l - k)
        BY ONLY <3>2, b \in Nat, i \in Nat, l \in Nat, k \in Nat
      <4> QED BY <4>1 DEF Reaches
    <3>4. Reaches(a, v, u) /\ Reaches(u, z, e)
      BY ONLY <3>2, <3>3, a \in Nat, b \in Nat, d \in Nat, e \in Nat, i \in Nat, j \in Nat,
              n \in Nat, l \in Nat, k \in Nat DEF Reaches
    <3>5. bytes = Part(c, b, l)
      BY ONLY <3>2, b \in Nat, d \in Nat, j \in Nat, n \in Nat, l \in Nat, PartJoin
    <3>6. Taken(bytes, k) = Part(c, b, k) /\ Left(bytes, k) = Part(c, u, z)
      <4>1. Reaches(b, k, u) /\ Reaches(k, z, l)
        BY ONLY <3>3
      <4>2. Taken(Part(c, b, l), k) = Part(c, b, k)
        BY ONLY <4>1, b \in Nat, k \in Nat, l \in Nat, u \in Nat, z \in Nat, PartTaken, PartLeft
      <4>3. Left(Part(c, b, l), k) = Part(c, u, z)
        BY ONLY <4>1, b \in Nat, k \in Nat, l \in Nat, u \in Nat, z \in Nat, PartTaken, PartLeft
      <4> QED BY ONLY <3>5, <4>2, <4>3
    <3>7. PICK t : t = Taken(bytes, k)
      OBVIOUS
    <3>8. Join(w, t) = Part(c, a, v)
      BY ONLY <3>2, <3>3, <3>6, <3>7, a \in Nat, b \in Nat, i \in Nat, k \in Nat, PartJoin
    <3> QED BY ONLY <3>1, <3>4, <3>6, <3>7, <3>8, u \in Nat, v \in Nat, z \in Nat
  <2>13. clients'[f].rbuf = Part(c, x, m) /\ clients'[f].wbuf = Part(c, a, y)
    BY <1>2, <2>11, <2>12
  <2>14. a = AnsweredTo(c)'
    BY <1>6, <2>1
  <2>15. Queued(c, e)' /\ Reaches(a, y, x) /\ Reaches(x, m, e) /\ fdTable'[f] = c
    BY <2>9, <2>12
  <2> QED BY <2>13, <2>14, <2>15, StreamServed
<1>8. \A g \in FD : fdTable'[g] = c => ServedInv(g)'
  BY <1>3, <1>7 DEF ServedInv
<1> QED BY <1>5, <1>6, <1>8 DEF StreamInv

LEMMA HandleReadKeepsStreams ==
    ASSUME LoopInv, StreamInv, HandleRead
    PROVE  StreamInv'
<1>1. PICK f \in FD, c \in Conn : f = event.fd /\ c = fdTable[f]
  BY AtHand DEF HandleRead
<1>2. PICK p : p = Parse(ReadBytes(f))
  OBVIOUS
<1>3. /\ UNCHANGED <<peer, sent, faulty, got, backlog, batch, event>>
      /\ inbox' = [inbox EXCEPT ![c] = Left(inbox[c], ReadLength(c))]
      /\ \/ inbox[c] = <<>> /\ UNCHANGED <<dropped, fdTable, interest, clients, outbox>>
         \/ RemoveClient(f, outbox)
         \/ /\ ~p.malformed
            /\ clients' = [clients EXCEPT ![f] = [rbuf |-> p.rest,
                                                  wbuf |-> Join(clients[f].wbuf, p.answers)]]
            /\ UNCHANGED <<dropped, fdTable, outbox>>
  BY <1>1, <1>2, ReadOutcomes DEF Left, Join
<1>4. c # None /\ fdTable[f] = c /\ inbox \in [Conn -> Seq(Units \cup {Malformed})]
  BY <1>1, LoopNumbers DEF LoopInv, LoopType
<1>5. CASE inbox[c] = <<>> /\ UNCHANGED <<dropped, fdTable, interest, clients, outbox>>
  <2>1. Left(inbox[c], ReadLength(c)) = <<>>
    <3>1. Left(inbox[c], ReadLength(c)) \in Seq(Units \cup {Malformed})
      BY <1>4, Reads DEF Left, ReadLength
    <3>2. ReadLength(c) = 0 /\ Len(inbox[c]) = 0
      BY <1>5, LoopNumbers DEF ReadLength
    <3>3. Len(SubSeq(<<>>, 0 + 1, 0)) = 0
      BY SubSeqProperties
    <3> QED BY <1>5, <3>1, <3>2, <3>3, EmptySeq DEF Left
  <2>2. inbox' = inbox
    BY <1>3, <1>4, <1>5, <2>1
  <2> QED BY <1>3, <1>5, <2>2, StreamsKept DEF LoopInv
<1>6. CASE RemoveClient(f, outbox)
  <2>1. \A d \in Conn : d # c => inbox'[d] = inbox[d]
    BY <1>3, <1>4
  <2> QED BY <1>3, <1>4, <1>6, <2>1, EndKeepsStreams
<1>7. CASE /\ ~p.malformed
           /\ clients' = [clients EXCEPT ![f] = [rbuf |-> p.rest,
                                                 wbuf |-> Join(clients[f].wbuf, p.answers)]]
           /\ UNCHANGED <<dropped, fdTable, outbox>>
  BY <1>2, <1>3, <1>4, <1>7, ReadKeepsStreams
<1> QED BY <1>3, <1>5, <1>6, <1>7

\* Two parts in a row, the second one cut and its first piece joined to the first.
LEMMA PartsWritten ==
    ASSUME NEW c, NEW g \in Nat, NEW a \in Nat, NEW b \in Nat,
           NEW h \in Nat, NEW i \in Nat, NEW n \in Nat, n <= i,
           Reaches(g, h, a), Reaches(a, i, b),
           NEW o, o = Part(c, g, h), NEW w, w = Part(c, a, i)
    PROVE  \E x, y, m \in Nat :
             /\ Reaches(h, n, y) /\ Reaches(g, y, x) /\ Reaches(a, n, x) /\ Reaches(x, m, b)
             /\ Join(o, Taken(w, n)) = Part(c, g, y) /\ Left(w, n) = Part(c, x, m)
<1>1. PICK m, x, y \in Nat : m = i - n /\ x = a + n /\ y = h + n
  OBVIOUS
<1>2. /\ Reaches(n, m, i) /\ Reaches(a, n, x) /\ Reaches(h, n, y)
      /\ Reaches(g, y, x) /\ Reaches(x, m, b)
  BY <1>1 DEF Reaches
<1>3. Taken(w, n) = Part(c, a, n) /\ Left(w, n) = Part(c, x, m)
  BY <1>2, PartTaken, PartLeft
<1>4. PICK t : t = Taken(w, n)
  OBVIOUS
<1>5. Join(o, t) = Part(c, g, y)
  BY <1>2, <1>3, <1>4, PartJoin
<1> QED BY <1>2, <1>3, <1>4, <1>5

\* What a write makes of the stream of a connection.
LEMMA WrittenStream ==
    ASSUME LoopInv, StreamInv, NEW f \in FD, NEW c \in Conn, fdTable[f] = c, peer[c] # "reset"
    PROVE  \E g, m, x, y \in Nat :
             /\ g = Len(got[c]) /\ y <= SendSpace /\ Reaches(g, y, x) /\ x <= sent[c]
             /\ Join(outbox[c], WriteBytes(f)) = Part(c, g, y)
             /\ WriteRest(f) = Part(c, x, m)
             /\ Reaches(x, m, AnsweredTo(c) + Len(clients[f].wbuf))
<1>1. PICK a, b, d, i, j \in Nat :
        /\ a = AnsweredTo(c) /\ i = Len(clients[f].wbuf) /\ j = Len(clients[f].rbuf)
        /\ Reaches(a, i, b) /\ Reaches(b, j, d)
        /\ clients[f].wbuf = Part(c, a, i) /\ clients[f].rbuf = Part(c, b, j)
        /\ Queued(c, d)
  BY ServedStream
<1>2. PICK g, h \in Nat : g = Len(got[c]) /\ h = Len(outbox[c])
  BY StreamNumbers DEF LoopInv
<1>3. Reaches(g, h, a) /\ outbox[c] = Part(c, g, h) /\ h <= SendSpace
  BY <1>1, <1>2 DEF Reaches, AnsweredTo, StreamInv, BackInv
<1>4. PICK n \in Nat : n = WriteLength(f) /\ n <= i /\ n <= SendSpace - h
  <2>1. fdTable[f] # None /\ Len(outbox[fdTable[f]]) <= SendSpace
    BY <1>2, <1>3, LoopNumbers
  <2>2. WriteLength(f) \in 0..Len(clients[f].wbuf) /\ WriteLength(f) <= SendSpace - Len(outbox[c])
    BY <2>1, Writes
  <2> QED BY <1>1, <1>2, <2>2
<1>5. PICK o, w : o = outbox[c] /\ w = clients[f].wbuf
  OBVIOUS
<1>6. o = Part(c, g, h) /\ w = Part(c, a, i)
  BY <1>1, <1>3, <1>5
<1>7. PICK x, y, m \in Nat :
         /\ Reaches(h, n, y) /\ Reaches(g, y, x) /\ Reaches(a, n, x) /\ Reaches(x, m, b)
         /\ Join(o, Taken(w, n)) = Part(c, g, y) /\ Left(w, n) = Part(c, x, m)
  <2>1. Reaches(g, h, a) /\ Reaches(a, i, b) /\ n <= i
    BY <1>1, <1>3, <1>4
  <2> QED BY ONLY <1>6, <2>1, g \in Nat, a \in Nat, b \in Nat, h \in Nat, i \in Nat, n \in Nat,
                  PartsWritten
<1>8. y <= SendSpace
  <2>1. y = h + n /\ n <= SendSpace - h /\ SendSpace \in Nat
    BY <1>4, <1>7, LoopNumbers DEF Reaches
  <2> QED BY <2>1
<1>9. x <= sent[c]
  <2>1. x <= b
    BY <1>7 DEF Reaches
  <2>2. b <= d
    BY <1>1 DEF Reaches
  <2>3. d <= sent[c] /\ sent[c] \in Nat
    BY <1>1, StreamNumbers DEF Queued, LoopInv
  <2> QED BY <2>1, <2>2, <2>3
<1>10. WriteBytes(f) = Taken(w, n) /\ WriteRest(f) = Left(w, n)
  BY <1>4, <1>5 DEF WriteBytes, WriteRest, Taken, Left
<1>11. Reaches(x, m, AnsweredTo(c) + Len(clients[f].wbuf))
  BY <1>1, <1>7 DEF Reaches
<1> QED BY <1>2, <1>5, <1>7, <1>8, <1>9, <1>10, <1>11

\* A write sends the beginning of the buffer and keeps the rest.
LEMMA WriteKeepsStreams ==
    ASSUME LoopInv, StreamInv, NEW f \in FD, NEW c \in Conn, fdTable[f] = c, peer[c] # "reset",
           UNCHANGED <<peer, sent, faulty, got, inbox, dropped, fdTable>>,
           outbox' = [outbox EXCEPT ![c] = Join(outbox[c], WriteBytes(f))],
           clients' = [clients EXCEPT ![f].wbuf = WriteRest(f)]
    PROVE  StreamInv'
<1>1. c # None /\ Served' = Served /\ c \in Served
  BY LoopNumbers, ServedIs DEF Served
<1>2. /\ fdTable \in [FD -> Conn \cup {None}] /\ clients \in [FD -> ClientState \cup {None}]
      /\ outbox \in [Conn -> Seq(Units)] /\ clients[f] \in ClientState
  BY <1>1 DEF LoopInv, LoopType, TypeOK
<1>3. \A g \in FD : fdTable[g] = c => g = f
  BY <1>1 DEF LoopInv, TableInv
<1>4. /\ clients'[f].wbuf = WriteRest(f) /\ clients'[f].rbuf = clients[f].rbuf
      /\ \A g \in FD : g # f => clients'[g] = clients[g]
  BY <1>2 DEF ClientState
<1>5. /\ \A d \in Conn : d # c => BackInv(d)' /\ WaitingInv(d)'
      /\ \A g \in FD : fdTable'[g] # c => ServedInv(g)'
  <2>1. \A d \in Conn : d # c => outbox'[d] = outbox[d]
    BY <1>2
  <2>2. \A g \in FD : fdTable'[g] \notin {None, c} =>
          fdTable'[g] = fdTable[g] /\ clients'[g] = clients[g]
    BY <1>4
  <2> QED BY <1>1, <2>1, <2>2, OthersStay DEF LoopInv
<1>6. PICK g, m, x, y \in Nat :
        /\ g = Len(got[c]) /\ y <= SendSpace /\ Reaches(g, y, x) /\ x <= sent[c]
        /\ Join(outbox[c], WriteBytes(f)) = Part(c, g, y)
        /\ WriteRest(f) = Part(c, x, m)
        /\ Reaches(x, m, AnsweredTo(c) + Len(clients[f].wbuf))
  BY WrittenStream
<1>7. outbox'[c] = Part(c, g, y) /\ Len(outbox'[c]) = y
  <2>1. outbox'[c] = Part(c, g, y)
    BY <1>2, <1>6
  <2> QED BY <2>1, PartLength
<1>8. x = AnsweredTo(c)'
  BY <1>6, <1>7 DEF Reaches, AnsweredTo
<1>9. BackInv(c)'
  <2>1. got'[c] = Part(c, 0, Len(got'[c]))
    BY DEF StreamInv, BackInv
  <2> QED BY <1>6, <1>7, <1>8, <2>1 DEF BackInv
<1>10. WaitingInv(c)'
  BY <1>1 DEF WaitingInv
<1>11. ServedInv(f)'
  <2>1. PICK a, b, d, i, j \in Nat :
          /\ a = AnsweredTo(c) /\ i = Len(clients[f].wbuf) /\ j = Len(clients[f].rbuf)
          /\ Reaches(a, i, b) /\ Reaches(b, j, d)
          /\ clients[f].wbuf = Part(c, a, i) /\ clients[f].rbuf = Part(c, b, j)
          /\ Queued(c, d)
    BY ServedStream
  <2>2. Queued(c, d)'
    BY <2>1 DEF Queued
  <2>3. Reaches(x, m, b)
    BY <1>6, <2>1 DEF Reaches
  <2>4. /\ fdTable'[f] = c /\ x = AnsweredTo(c)' /\ Reaches(x, m, b) /\ Reaches(b, j, d)
        /\ clients'[f].wbuf = Part(c, x, m) /\ clients'[f].rbuf = Part(c, b, j) /\ Queued(c, d)'
    BY <1>4, <1>6, <1>8, <2>1, <2>2, <2>3
  <2> QED BY ONLY <2>4, x \in Nat, m \in Nat, b \in Nat, j \in Nat, d \in Nat, StreamServed
<1>12. \A h \in FD : fdTable'[h] = c => ServedInv(h)'
  BY <1>3, <1>11
<1> QED BY <1>5, <1>9, <1>10, <1>12 DEF StreamInv

LEMMA HandleWriteKeepsStreams ==
    ASSUME LoopInv, StreamInv, HandleWrite
    PROVE  StreamInv'
<1>1. PICK f \in FD, c \in Conn : f = event.fd /\ c = fdTable[f]
  BY AtHand DEF HandleWrite
<1>2. c # None /\ fdTable[f] = c /\ outbox \in [Conn -> Seq(Units)]
  BY <1>1, LoopNumbers DEF LoopInv, LoopType
<1>3. PICK written : written = [outbox EXCEPT ![c] = Join(outbox[c], WriteBytes(f))]
  OBVIOUS
<1>4. /\ UNCHANGED <<peer, sent, faulty, got, inbox, backlog, batch, event>>
      /\ \/ RemoveClient(f, outbox)
         \/ peer[c] # "reset" /\ RemoveClient(f, written)
         \/ /\ peer[c] # "reset" /\ outbox' = written
            /\ clients' = [clients EXCEPT ![f].wbuf = WriteRest(f)]
            /\ UNCHANGED <<dropped, fdTable>>
  BY <1>1, <1>3, WriteOutcomes DEF Join
<1>5. CASE RemoveClient(f, outbox)
  BY <1>2, <1>4, <1>5, EndKeepsStreams
<1>6. CASE peer[c] # "reset" /\ RemoveClient(f, written)
  <2>1. PICK g, x, y \in Nat :
          /\ g = Len(got[c]) /\ y <= SendSpace /\ Reaches(g, y, x) /\ x <= sent[c]
          /\ Join(outbox[c], WriteBytes(f)) = Part(c, g, y)
    BY <1>2, <1>6, WrittenStream
  <2>2. written[c] = Part(c, Len(got[c]), y) /\ y <= SendSpace /\ Len(got[c]) + y <= sent[c]
    BY <1>2, <1>3, <2>1 DEF Reaches
  <2>3. written \in [Conn -> Seq(Units)]
    <3>1. Len(outbox[c]) <= SendSpace
      BY DEF StreamInv, BackInv
    <3>2. WriteBytes(f) \in Seq(Units)
      BY <1>2, <3>1, Writes
    <3>3. outbox[c] \o WriteBytes(f) \in Seq(Units)
      BY <1>2, <3>2, ConcatProperties
    <3> QED BY <1>2, <1>3, <3>3 DEF Join
  <2>4. \A d \in Conn : d # c => inbox'[d] = inbox[d] /\ written[d] = outbox[d]
    BY <1>2, <1>3, <1>4
  <2> QED BY <1>2, <1>4, <1>6, <2>2, <2>3, <2>4, RemovalKeepsStreams
<1>7. CASE /\ peer[c] # "reset" /\ outbox' = written
           /\ clients' = [clients EXCEPT ![f].wbuf = WriteRest(f)]
           /\ UNCHANGED <<dropped, fdTable>>
  BY <1>2, <1>3, <1>4, <1>7, WriteKeepsStreams
<1> QED BY <1>4, <1>5, <1>6, <1>7

LEMMA AfterWriteKeepsStreams ==
    ASSUME LoopInv, StreamInv, AfterWrite
    PROVE  StreamInv'
<1>1. UNCHANGED <<peer, sent, faulty, got, inbox>> /\ pc = "afterWrite"
  BY DEF AfterWrite, peerVars
<1>2. CASE UNCHANGED <<dropped, fdTable, interest, clients, outbox>>
  BY <1>1, <1>2, StreamsKept DEF LoopInv
<1>3. CASE clients[event.fd] # None /\ RemoveClient(event.fd, outbox)
  <2>1. event.fd \in FD
    BY <1>1 DEF LoopInv, EventInv, TrueEvent, ClientEvents, Handling
  <2>2. PICK f \in FD, c \in {fdTable[event.fd]} : f = event.fd /\ c = fdTable[f]
    BY <2>1
  <2>3. fdTable[f] = c /\ c # None /\ RemoveClient(f, outbox)
    BY <1>3, <2>2 DEF LoopInv, LoopType, TypeOK
  <2> QED BY <1>1, <2>3, EndKeepsStreams
<1> QED BY <1>2, <1>3 DEF AfterWrite

--------------------------------------------------------------------------------
(* The invariant. *)

LEMMA InitInv == Init => IInv
<1> SUFFICES ASSUME Init PROVE IInv
  OBVIOUS
<1>1. /\ \A c \in Conn : /\ peer[c] = "new" /\ sent[c] = 0
                         /\ inbox[c] = <<>> /\ outbox[c] = <<>> /\ got[c] = <<>>
      /\ \A f \in FD : fdTable[f] = None /\ interest[f] = {} /\ clients[f] = None
      /\ faulty = {} /\ backlog = <<>> /\ dropped = {} /\ pc = "wait" /\ batch = <<>>
  BY DEF Init
<1>2. \A S : <<>> \in Seq(S)
  OBVIOUS
<1>3. Served = {}
  BY <1>1 DEF Served
<1>4. LoopType
  <2>1. TypeOK
    BY LoopNumbers DEF Init, TypeOK
  <2> QED BY <1>2, <2>1 DEF Init, LoopType
<1>5. TableInv
  BY <1>1, <1>3 DEF TableInv
<1>6. EventInv
  BY <1>1, <1>2 DEF EventInv, Handling
<1>7. ArmedInv
  BY <1>1 DEF ArmedInv
<1>8. ASSUME NEW c \in Conn
      PROVE  BackInv(c) /\ WaitingInv(c)
  <2>1. Part(c, 0, 0) = <<>>
    BY PartEmpty
  <2>2. Len(got[c]) = 0 /\ Len(outbox[c]) = 0 /\ AnsweredTo(c) = 0
    <3>1. Len(<<>>) = 0 /\ 0 + 0 = 0
      OBVIOUS
    <3>2. Len(got[c]) = 0 /\ Len(outbox[c]) = 0
      BY <1>1, <3>1
    <3> QED BY <3>2 DEF AnsweredTo
  <2>3. BackInv(c)
    BY <1>1, <2>1, <2>2, LoopNumbers DEF BackInv
  <2>4. Queued(c, 0)
    <3>1. sent[c] - 0 = 0 /\ 0 <= sent[c]
      BY <1>1
    <3> QED BY <1>1, <2>1, <3>1 DEF Queued
  <2> QED BY <2>2, <2>3, <2>4 DEF WaitingInv
<1>9. \A f \in FD : ServedInv(f)
  BY <1>1 DEF ServedInv
<1> QED BY <1>4, <1>5, <1>6, <1>7, <1>8, <1>9 DEF IInv, StreamInv

\* A step that leaves the streams alone.
LEMMA LoopMovesOn ==
    ASSUME IInv, Wait \/ Dispatch \/ BatchDone \/ AfterRead
    PROVE  StreamInv'
<1>1. /\ UNCHANGED <<inbox, outbox, dropped, fdTable, clients>>
      /\ UNCHANGED <<peer, sent, faulty, got>>
  BY DEF Wait, Dispatch, BatchDone, AfterRead, peerVars
<1> QED BY <1>1, StreamsKept DEF IInv

LEMMA PeerKeepsStreams ==
    ASSUME IInv, NEW c \in Conn, PeerStep(c)
    PROVE  StreamInv'
<1>1. CASE PeerSend(c)
  BY <1>1, SendKeepsStreams DEF IInv
<1>2. CASE PeerReceive(c)
  BY <1>2, ReceiveKeepsStreams DEF IInv
<1>3. CASE PeerReset(c)
  BY <1>3, ResetKeepsStreams DEF IInv
<1>4. CASE Connect(c) \/ PeerShut(c)
  <2>1. UNCHANGED <<sent, faulty, inbox, outbox, got, dropped, fdTable, clients>>
    BY <1>4 DEF Connect, PeerShut
  <2>2. \A d \in Conn : peer'[d] # "reset" => peer[d] # "reset"
    BY <1>4 DEF Connect, PeerShut, IInv, LoopType, TypeOK
  <2> QED BY <2>1, <2>2, StreamsKept DEF IInv
<1> QED BY <1>1, <1>2, <1>3, <1>4 DEF PeerStep

LEMMA StepInv == IInv /\ [Next]_vars => IInv'
<1> SUFFICES ASSUME IInv, [Next]_vars PROVE IInv'
  OBVIOUS
<1>0. LoopInv /\ StreamInv
  BY DEF IInv, LoopInv
<1>1. CASE Wait
  BY <1>0, <1>1, WaitKeepsLoop, LoopMovesOn DEF IInv, LoopInv
<1>2. CASE Dispatch
  BY <1>0, <1>2, DispatchKeepsLoop, LoopMovesOn DEF IInv, LoopInv
<1>3. CASE BatchDone
  BY <1>0, <1>3, BatchDoneKeepsLoop, LoopMovesOn DEF IInv, LoopInv
<1>4. CASE Accept
  BY <1>0, <1>4, AcceptKeepsLoop, AcceptKeepsStreams DEF IInv, LoopInv
<1>5. CASE HandleRead
  BY <1>0, <1>5, HandleReadKeepsLoop, HandleReadKeepsStreams DEF IInv, LoopInv
<1>6. CASE AfterRead
  BY <1>0, <1>6, AfterReadKeepsLoop, LoopMovesOn DEF IInv, LoopInv
<1>7. CASE HandleWrite
  <2>1. \A c \in Conn : Len(outbox[c]) <= SendSpace
    BY <1>0 DEF StreamInv, BackInv
  <2> QED BY <1>0, <1>7, <2>1, HandleWriteKeepsLoop, HandleWriteKeepsStreams DEF IInv, LoopInv
<1>8. CASE AfterWrite
  BY <1>0, <1>8, AfterWriteKeepsLoop, AfterWriteKeepsStreams DEF IInv, LoopInv
<1>9. ASSUME NEW c \in Conn, PeerStep(c) PROVE IInv'
  BY <1>0, <1>9, PeerKeepsLoop, PeerKeepsStreams DEF IInv, LoopInv
<1>10. CASE UNCHANGED vars
  <2>1. pc \in Places
    BY <1>0 DEF LoopInv, LoopType, TypeOK, Places
  <2>2. LoopType' /\ TableInv' /\ ArmedInv'
    BY <1>0, <1>10, <2>1, TablesKept DEF vars
  <2>3. EventInv'
    BY <1>0, <1>10, EventsKept DEF vars, LoopInv
  <2>4. StreamInv'
    BY <1>0, <1>10, StreamsKept DEF vars, LoopInv
  <2> QED BY <2>2, <2>3, <2>4 DEF IInv
<1> QED BY <1>1, <1>2, <1>3, <1>4, <1>5, <1>6, <1>7, <1>8, <1>9, <1>10 DEF Next, LoopStep

\* The inductive invariant of the loop.
LEMMA Invariant == Spec => []IInv
<1>1. Init => IInv
  BY InitInv
<1>2. IInv /\ [Next]_vars => IInv'
  BY StepInv
<1> QED BY <1>1, <1>2, PTL DEF Spec

--------------------------------------------------------------------------------
(* The properties. *)

\* Types of the loop's tables, its clients and the kernel's queues, at every connection count.
THEOREM LoopTypes == Spec => []TypeOK
<1>1. IInv => TypeOK
  BY DEF IInv, LoopType
<1> QED BY <1>1, Invariant, PTL

\* No event of a batch is about a connection that its descriptor no longer has, however many
\* connections were closed and accepted since the wait (loop.go handles a batch in a row).
THEOREM EventsStayFresh == Spec => []EventsFresh
<1>1. IInv => EventsFresh
  BY DEF IInv, EventInv, EventsFresh
<1> QED BY <1>1, Invariant, PTL

\* Between events no answer waits without an interest in writable events, and no complete
\* command stays unanswered in a buffer.
THEOREM AnswersArmed == Spec => []WritableArmed
<1>1. IInv => WritableArmed
  BY DEF IInv, ArmedInv, WritableArmed
<1> QED BY <1>1, Invariant, PTL

\* The client of a served connection.
LEMMA ClientOf ==
    ASSUME LoopType, TableInv, NEW f \in FD, NEW c, fdTable[f] = c, c # None
    PROVE  Client(c) = clients[f]
<1>1. \A g \in FD : fdTable[g] = c <=> g = f
  BY DEF TableInv
<1>2. (CHOOSE g \in FD : fdTable[g] = c) = f
  BY <1>1
<1> QED BY <1>2 DEF Client

\* A beginning of a part is a prefix of it.
LEMMA PartPrefix ==
    ASSUME NEW c, NEW n \in Nat, NEW m \in Nat, n <= m, NEW s, s = Part(c, 0, n)
    PROVE  IsPrefix(s, Part(c, 0, m))
<1>1. PICK z \in Nat, l \in Nat, t \in {Part(c, 0, m)} : z = 0 /\ l = m - n /\ t = Part(c, z, m)
  OBVIOUS
<1>2. Reaches(z, n, n) /\ Reaches(n, l, m)
  BY <1>1 DEF Reaches
<1>3. Taken(t, n) = Part(c, z, n)
  <2>1. t = Part(c, z, m)
    BY <1>1
  <2> QED BY ONLY <1>2, <2>1, n <= m, n \in Nat, m \in Nat, z \in Nat, l \in Nat, PartTaken, PartLeft
<1>4. PICK k \in Nat : k = 0
  OBVIOUS
<1>5. Reaches(z, n, n) /\ Reaches(n, k, n)
  BY <1>1, <1>4 DEF Reaches
<1>6. Taken(s, n) = Part(c, z, n)
  <2>1. s = Part(c, z, n) /\ n <= n
    BY <1>1
  <2> QED BY ONLY <1>5, <2>1, n \in Nat, z \in Nat, k \in Nat, PartTaken, PartLeft
<1>7. Len(s) = n /\ Len(t) = m
  <2>1. s = Part(c, z, n) /\ t = Part(c, z, m)
    BY <1>1
  <2> QED BY <2>1, PartLength
<1>8. SubSeq(s, 1, Len(s)) = SubSeq(t, 1, Len(s)) /\ Len(s) <= Len(t)
  BY <1>3, <1>6, <1>7 DEF Taken
<1> QED BY <1>1, <1>8 DEF IsPrefix

\* What is to be sent to a connection follows what was sent, and is not more than it asked for.
LEMMA UnsentFollows ==
    ASSUME IInv, NEW c \in Conn
    PROVE  \E n, b \in Nat : /\ Unsent(c) = Part(c, AnsweredTo(c), n)
                             /\ Reaches(AnsweredTo(c), n, b) /\ b <= MaxSent
<1>1. AnsweredTo(c) \in Nat /\ sent[c] \in Nat /\ sent[c] <= MaxSent /\ MaxSent \in Nat
  BY StreamNumbers, LoopNumbers DEF IInv
<1>2. CASE c \in Served /\ peer[c] # "reset"
  <2>1. PICK f \in FD : fdTable[f] = c /\ c # None
    BY <1>2, ServedIs
  <2>2. PICK a, b, d, i, j \in Nat :
          /\ a = AnsweredTo(c) /\ i = Len(clients[f].wbuf) /\ j = Len(clients[f].rbuf)
          /\ Reaches(a, i, b) /\ Reaches(b, j, d)
          /\ clients[f].wbuf = Part(c, a, i) /\ clients[f].rbuf = Part(c, b, j)
          /\ Queued(c, d)
    BY <1>2, <2>1, ServedStream DEF IInv, LoopInv
  <2>3. b <= MaxSent
    <3>1. d <= sent[c] /\ d = b + j
      BY <2>2 DEF Queued, Reaches
    <3> QED BY <1>1, <3>1
  <2>4. Client(c) = clients[f]
    BY <2>1, ClientOf DEF IInv
  <2>5. Unsent(c) = Part(c, AnsweredTo(c), i) /\ Reaches(AnsweredTo(c), i, b)
    BY <1>2, <2>2, <2>4 DEF Unsent
  <2> QED BY <2>3, <2>5
<1>3. CASE ~(c \in Served /\ peer[c] # "reset")
  <2>1. Unsent(c) = Part(c, AnsweredTo(c), 0)
    BY <1>1, <1>3, PartEmpty DEF Unsent
  <2>2. Reaches(AnsweredTo(c), 0, AnsweredTo(c)) /\ AnsweredTo(c) <= MaxSent
    <3>1. AnsweredTo(c) <= sent[c]
      BY DEF IInv, StreamInv, BackInv
    <3> QED BY <1>1, <3>1 DEF Reaches
  <2> QED BY <1>1, <2>1, <2>2
<1> QED BY <1>2, <1>3

\* Every peer is sent the answers to its own commands in order, whatever the sizes of reads,
\* writes and socket queues, and whoever had its descriptor before.
THEOREM AnswersComeInOrder == Spec => []AnswersInOrder
<1>1. IInv => AnswersInOrder
  <2> SUFFICES ASSUME IInv, NEW c \in Conn
               PROVE  IsPrefix(got[c] \o outbox[c] \o Unsent(c), Answers(c))
    BY DEF AnswersInOrder
  <2>1. PICK n, b \in Nat : /\ Unsent(c) = Part(c, AnsweredTo(c), n)
                            /\ Reaches(AnsweredTo(c), n, b) /\ b <= MaxSent
    BY UnsentFollows
  <2>2. PICK g, h, a \in Nat : g = Len(got[c]) /\ h = Len(outbox[c]) /\ a = AnsweredTo(c)
    BY StreamNumbers DEF IInv
  <2>3. PICK o, t, u : o = got[c] /\ t = outbox[c] /\ u = Unsent(c)
    OBVIOUS
  <2>4. PICK z \in Nat : z = 0
    OBVIOUS
  <2>5. /\ o = Part(c, z, g) /\ t = Part(c, g, h) /\ u = Part(c, a, n)
        /\ Reaches(z, g, g) /\ Reaches(g, h, a) /\ Reaches(a, n, b) /\ Reaches(z, a, a)
    <3>1. got[c] = Part(c, 0, Len(got[c])) /\ outbox[c] = Part(c, Len(got[c]), Len(outbox[c]))
      BY DEF IInv, StreamInv, BackInv
    <3>2. o = Part(c, z, g) /\ t = Part(c, g, h)
      BY <2>2, <2>3, <2>4, <3>1
    <3>3. u = Part(c, a, n) /\ Reaches(a, n, b)
      BY <2>1, <2>2, <2>3
    <3>4. Reaches(z, g, g) /\ Reaches(z, a, a)
      BY <2>4 DEF Reaches
    <3>5. Reaches(g, h, a)
      BY <2>2 DEF Reaches, AnsweredTo
    <3> QED BY <3>2, <3>3, <3>4, <3>5
  <2>6. Join(o, t) = Part(c, z, a)
    BY ONLY <2>5, g \in Nat, h \in Nat, a \in Nat, z \in Nat, PartJoin
  <2>7. PICK v : v = Join(o, t)
    OBVIOUS
  <2>8. Join(v, u) = Part(c, z, b)
    BY ONLY <2>5, <2>6, <2>7, a \in Nat, n \in Nat, b \in Nat, z \in Nat, PartJoin
  <2>9. got[c] \o outbox[c] \o Unsent(c) = Part(c, 0, b)
    BY <2>3, <2>4, <2>7, <2>8 DEF Join
  <2>10. Answers(c) = Part(c, 0, MaxSent)
    BY LoopNumbers DEF Answers, Part
  <2> QED BY <2>1, <2>9, <2>10, PartPrefix, LoopNumbers
<1> QED BY <1>1, Invariant, PTL

\* All units of a part are of well-formed commands.
LEMMA AllWellFormed ==
    ASSUME NEW c \in Conn, NEW a \in Nat, NEW n \in Nat, a + n <= MaxSent,
           NEW s, s = Part(c, a, n)
    PROVE  WellFormed(s) = n /\ WellFormed(Append(s, Malformed)) = n
<1> DEFINE S == Units \cup {Malformed}
<1>1. Cardinality(1..n) = n
  BY FS_Interval
<1>2. /\ DOMAIN s = 1..n /\ Len(s) = n
      /\ \A i \in 1..n : s[i] = Unit(c, a + i)
  BY PartIs
<1>3. \A i \in 1..n : s[i] # Malformed
  BY <1>2, NotMalformed
<1>4. WellFormed(s) = n
  <2>1. {i \in DOMAIN s : s[i] # Malformed} = 1..n
    BY <1>2, <1>3
  <2> QED BY <1>1, <2>1 DEF WellFormed
<1>5. s \in Seq(S) /\ Malformed \in S
  <2>1. s \in Seq(Units)
    BY PartUnits
  <2> QED BY <2>1, SeqMonotonic
<1> HIDE DEF S
<1>6. PICK t \in Seq(S) : /\ t = Append(s, Malformed) /\ Len(t) = n + 1
                          /\ \A i \in 1..n : t[i] = s[i]
                          /\ t[n + 1] = Malformed
  <2>1. /\ Append(s, Malformed) \in Seq(S) /\ Len(Append(s, Malformed)) = n + 1
        /\ \A i \in 1..n : Append(s, Malformed)[i] = s[i]
        /\ Append(s, Malformed)[n + 1] = Malformed
    BY <1>2, <1>5, AppendProperties
  <2> QED BY <2>1
<1>7. DOMAIN t = 1..(n + 1)
  BY <1>6, LenProperties
<1>8. {i \in DOMAIN t : t[i] # Malformed} = 1..n
  <2>1. \A i \in 1..(n + 1) : i \in 1..n \/ i = n + 1
    OBVIOUS
  <2>2. \A i \in 1..n : i \in 1..(n + 1)
    OBVIOUS
  <2> QED BY <1>3, <1>6, <1>7, <2>1, <2>2
<1>9. WellFormed(t) = n
  BY <1>1, <1>8 DEF WellFormed
<1> QED BY <1>4, <1>6, <1>9

\* Every unit that the peer of a served connection has sent is somewhere: unread, in a buffer,
\* answered.
THEOREM NothingIsLost == Spec => []NothingLost
<1>1. IInv => NothingLost
  <2> SUFFICES ASSUME IInv, NEW c \in Served, peer[c] # "reset"
               PROVE  sent[c] = Len(got[c]) + Len(outbox[c]) + Len(Client(c).wbuf)
                                  + Len(Client(c).rbuf) + WellFormed(inbox[c])
    BY DEF NothingLost
  <2>1. PICK f \in FD : fdTable[f] = c /\ c # None
    BY ServedIs
  <2>2. c \in Conn
    BY <2>1 DEF IInv, LoopType, TypeOK
  <2>3. PICK a, b, d, i, j \in Nat :
          /\ a = AnsweredTo(c) /\ i = Len(clients[f].wbuf) /\ j = Len(clients[f].rbuf)
          /\ Reaches(a, i, b) /\ Reaches(b, j, d)
          /\ clients[f].wbuf = Part(c, a, i) /\ clients[f].rbuf = Part(c, b, j)
          /\ Queued(c, d)
    BY <2>1, <2>2, ServedStream DEF IInv, LoopInv
  <2>4. Client(c) = clients[f]
    BY <2>1, ClientOf DEF IInv
  <2>5. /\ sent[c] \in Nat /\ sent[c] <= MaxSent /\ MaxSent \in Nat
        /\ Len(got[c]) \in Nat /\ Len(outbox[c]) \in Nat
    BY <2>2, StreamNumbers, LoopNumbers DEF IInv
  <2>6. PICK n \in Nat : n = sent[c] - d /\ d + n <= MaxSent
    BY <2>3, <2>5 DEF Queued
  <2>7. PICK s : s = Part(c, d, n)
    OBVIOUS
  <2>8. inbox[c] = s \/ inbox[c] = Append(s, Malformed)
    BY <2>3, <2>6, <2>7 DEF Queued
  <2>9. WellFormed(inbox[c]) = n
    <3>1. WellFormed(s) = n /\ WellFormed(Append(s, Malformed)) = n
      BY <2>2, <2>6, <2>7, AllWellFormed
    <3> QED BY <2>8, <3>1
  <2>10. d = Len(got[c]) + Len(outbox[c]) + Len(Client(c).wbuf) + Len(Client(c).rbuf)
    BY <2>3, <2>4 DEF Reaches, AnsweredTo
  <2>11. sent[c] = d + n
    BY <2>5, <2>6
  <2> QED BY <2>9, <2>10, <2>11
<1> QED BY <1>1, Invariant, PTL

--------------------------------------------------------------------------------
(* Who is dropped. *)

\* The peer of c has ended the connection or has broken the protocol.
Ended(c) == peer[c] # "open" \/ c \in faulty

\* What was begun and has ended stays so.
LEMMA StaysEnded ==
    ASSUME LoopType, [Next]_vars, NEW c \in Conn, peer[c] # "new", Ended(c)
    PROVE  Ended(c)'
<1>1. CASE LoopStep \/ UNCHANGED vars
  <2>1. UNCHANGED <<peer, faulty>>
    BY <1>1 DEF LoopStep, Wait, Dispatch, BatchDone, Accept, HandleRead, AfterRead, HandleWrite,
                AfterWrite, peerVars, vars
  <2> QED BY <2>1 DEF Ended
<1>2. ASSUME NEW d \in Conn, PeerStep(d)
      PROVE  Ended(c)'
  <2>1. peer \in [Conn -> {"new", "open", "shut", "reset"}]
    BY DEF LoopType, TypeOK
  <2>2. CASE Connect(d)
    BY <2>1, <2>2 DEF Connect, Ended
  <2>3. CASE PeerSend(d)
    BY <2>1, <2>3 DEF PeerSend, Ended
  <2>4. CASE PeerReceive(d)
    BY <2>4 DEF PeerReceive, Ended
  <2>5. CASE PeerShut(d) \/ PeerReset(d)
    BY <2>1, <2>5 DEF PeerShut, PeerReset, Ended
  <2> QED BY <1>2, <2>2, <2>3, <2>4, <2>5 DEF PeerStep
<1> QED BY <1>1, <1>2 DEF Next

\* A malformed command in a read is the peer's: buffers hold units of well-formed ones.
LEMMA MalformedIsFault ==
    ASSUME IInv, NEW f \in FD, NEW c \in Conn, c = fdTable[f], peer[c] # "reset",
           Parse(ReadBytes(f)).malformed
    PROVE  c \in faulty
<1> DEFINE S == Units \cup {Malformed}
<1>1. c # None
  BY LoopNumbers
<1>2. clients[f] \in ClientState /\ inbox[c] \in Seq(S)
  BY <1>1 DEF IInv, LoopType, TypeOK
<1>3. PICK r \in Seq(Units) : r = clients[f].rbuf
  BY <1>2 DEF ClientState
<1>4. PICK n \in 0..Len(inbox[c]), t \in Seq(S) :
        /\ t = SubSeq(inbox[c], 1, ReadLength(c)) /\ n = ReadLength(c) /\ Len(t) = n
        /\ \A i \in 1..n : t[i] = inbox[c][i]
  <2> HIDE DEF S
  <2>1. /\ ReadLength(c) \in 0..Len(inbox[c])
        /\ SubSeq(inbox[c], 1, ReadLength(c)) \in Seq(S)
        /\ Len(SubSeq(inbox[c], 1, ReadLength(c))) = ReadLength(c)
        /\ \A i \in 1..ReadLength(c) : SubSeq(inbox[c], 1, ReadLength(c))[i] = inbox[c][i]
    BY <1>2, Reads DEF ReadLength
  <2> QED BY <2>1
<1>5. r \in Seq(S) /\ Len(r) \in Nat /\ n \in Nat /\ Len(inbox[c]) \in Nat
  BY <1>2, SeqMonotonic
<1>6. \A i \in 1..Len(r) : r[i] \in Units
  BY ElementOfSeq
<1> HIDE DEF S
<1>7. /\ r \o t \in Seq(S) /\ Len(r \o t) = Len(r) + n
      /\ \A i \in 1..(Len(r) + n) : (r \o t)[i] = IF i <= Len(r) THEN r[i] ELSE t[i - Len(r)]
  BY <1>4, <1>5, ConcatProperties
<1>8. PICK b \in Seq(S) : b = r \o t
  BY <1>7
<1>9. ReadBytes(f) = b
  BY <1>3, <1>4, <1>8 DEF ReadBytes
<1>10. PICK i \in 1..Len(b) : b[i] = Malformed
  <2>1. Parse(b).malformed
    BY <1>9
  <2> QED BY <2>1, Parsed DEF S
<1>11. i \in 1..(Len(r) + n) /\ b[i] = IF i <= Len(r) THEN r[i] ELSE t[i - Len(r)]
  BY <1>7, <1>8
<1>12. ~(i <= Len(r))
  <2>1. ASSUME i <= Len(r)
        PROVE  FALSE
    <3>1. i \in 1..Len(r)
      BY <1>5, <1>11, <2>1
    <3> QED BY <1>6, <1>10, <1>11, <2>1, <3>1, NotMalformed
  <2> QED BY <2>1
<1>13. PICK k \in 1..Len(inbox[c]) : inbox[c][k] = Malformed
  <2>1. i - Len(r) \in 1..n /\ i - Len(r) \in 1..Len(inbox[c])
    BY <1>4, <1>5, <1>11, <1>12
  <2> QED BY <1>4, <1>10, <1>11, <1>12, <2>1
<1>14. PICK a, m, d, x, y \in Nat :
         /\ a = AnsweredTo(c) /\ x = Len(clients[f].wbuf) /\ y = Len(clients[f].rbuf)
         /\ Reaches(a, x, m) /\ Reaches(m, y, d)
         /\ clients[f].wbuf = Part(c, a, x) /\ clients[f].rbuf = Part(c, m, y)
         /\ Queued(c, d)
  BY <1>1, ServedStream DEF IInv, LoopInv
<1>15. ASSUME c \notin faulty
       PROVE  FALSE
  <2>1. sent[c] \in Nat
    BY StreamNumbers DEF IInv
  <2>2. PICK z \in Nat : z = sent[c] - d
    BY <1>14, <2>1 DEF Queued
  <2>3. inbox[c] = Part(c, d, z)
    BY <1>14, <1>15, <2>2 DEF Queued
  <2>4. Len(inbox[c]) = z
    BY <2>3, PartLength
  <2>5. inbox[c][k] = Unit(c, d + k)
    <3>1. k \in 1..z
      BY <2>4
    <3>2. \A h \in 1..z : Part(c, d, z)[h] = Unit(c, d + h)
      BY ONLY d \in Nat, z \in Nat, PartIs
    <3> QED BY <2>3, <3>1, <3>2
  <2> QED BY <1>13, <2>5, NotMalformed
<1> QED BY <1>15

\* The loop drops a connection only when its peer has ended it, if no system call fails.
LEMMA DropsEnded ==
    ASSUME IInv, ~KernelFails, LoopStep, NEW c, c \in dropped', c \notin dropped
    PROVE  c \in Conn /\ peer[c] # "new" /\ Ended(c)
<1>0. LoopInv
  BY DEF IInv, LoopInv
<1>1. Outcome = {TRUE}
  BY DEF Outcome
<1>2. ASSUME NEW f \in FD, fdTable[f] # None, NEW written, RemoveClient(f, written), Ended(fdTable[f])
      PROVE  c \in Conn /\ peer[c] # "new" /\ Ended(c)
  <2>1. c = fdTable[f]
    BY <1>2 DEF RemoveClient
  <2>2. c \in Served /\ c \in Conn
    BY <1>2, <2>1, ServedIs DEF IInv, LoopType, TypeOK
  <2> QED BY <1>2, <2>1, <2>2 DEF IInv, TableInv
<1>3. CASE Wait \/ Dispatch \/ BatchDone \/ AfterRead
  BY <1>3 DEF Wait, Dispatch, BatchDone, AfterRead
<1>4. CASE Accept
  BY <1>1, <1>4 DEF Accept
<1>5. CASE HandleRead
  <2>1. PICK f \in FD, d \in Conn : f = event.fd /\ d = fdTable[f] /\ d # None
    BY <1>0, <1>5, AtHand DEF HandleRead
  <2>2. RemoveClient(f, outbox)
          /\ ((inbox[d] = <<>> /\ peer[d] # "open") \/ Parse(ReadBytes(f)).malformed)
    BY <1>0, <1>5, <2>1, ReadOutcomes
  <2>3. Ended(d)
    BY <2>1, <2>2, MalformedIsFault DEF Ended
  <2> QED BY <1>2, <2>1, <2>2, <2>3
<1>6. CASE HandleWrite
  <2>1. PICK f \in FD, d \in Conn : f = event.fd /\ d = fdTable[f] /\ d # None
    BY <1>0, <1>6, AtHand DEF HandleWrite
  <2>2. peer[d] = "reset" /\ RemoveClient(f, outbox)
    BY <1>0, <1>6, <2>1, WriteOutcomes
  <2>3. Ended(d)
    BY <2>2 DEF Ended
  <2> QED BY <1>2, <2>1, <2>2, <2>3
<1>7. CASE AfterWrite
  <2>1. PICK f \in FD : f = event.fd
    BY <1>7 DEF AfterWrite, IInv, EventInv, TrueEvent, ClientEvents, Handling
  <2>2. RemoveClient(f, outbox) /\ clients[f] # None /\ (event.error \/ event.hangup)
    BY <1>7, <2>1 DEF AfterWrite
  <2>3. fdTable[f] # None
    BY <2>2 DEF IInv, LoopType, TypeOK
  <2>4. fdTable[f] = event.conn /\ peer[event.conn] = "reset"
    BY <1>7, <2>1, <2>2, <2>3 DEF AfterWrite, IInv, EventInv, TrueEvent, Handling
  <2>5. Ended(fdTable[f])
    BY <2>4 DEF Ended
  <2> QED BY <1>2, <2>2, <2>3, <2>5
<1> QED BY <1>3, <1>4, <1>5, <1>6, <1>7 DEF LoopStep

\* A connection that waits to be accepted finds a descriptor when there are enough of them.
LEMMA DescriptorLeft ==
    ASSUME IInv, Cardinality(Conn) <= Cardinality(FD), backlog # <<>>
    PROVE  \E f \in FD : fdTable[f] = None
<1> DEFINE c == Head(backlog)  T == Conn \ {c}
<1> SUFFICES ASSUME \A f \in FD : fdTable[f] # None
             PROVE  FALSE
  OBVIOUS
<1>1. backlog \in Seq(Conn) /\ Len(backlog) \in Nat \ {0}
  BY EmptySeq, LenProperties DEF IInv, LoopType
<1>2. 1 \in DOMAIN backlog /\ c = backlog[1] /\ c \in Conn
  BY <1>1, HeadTailProperties, LenProperties
<1> HIDE DEF c
<1>3. c \notin Served
  BY <1>2 DEF IInv, TableInv
<1>4. \A f \in FD : fdTable[f] \in T
  BY <1>3, ServedIs DEF IInv, LoopType, TypeOK
<1>5. fdTable \in [FD -> T]
  BY <1>4 DEF IInv, LoopType, TypeOK
<1>6. fdTable \in Injection(FD, T)
  BY <1>5 DEF Injection, IsInjective, IInv, TableInv
<1>7. IsFiniteSet(Conn) /\ IsFiniteSet(FD)
  BY LoopAssumption
<1>8. IsFiniteSet(T) /\ Cardinality(T) = Cardinality(Conn) - 1
  BY <1>2, <1>7, FS_RemoveElement
<1> HIDE DEF T
<1>9. Cardinality(FD) <= Cardinality(T)
  BY <1>6, <1>8, FS_Injection
<1>10. Cardinality(FD) \in Nat /\ Cardinality(Conn) \in Nat
  BY <1>7, FS_CardinalityType
<1> QED BY <1>8, <1>9, <1>10

\* DropsOnlyEnded is kept by every step from a state of the invariant.
LEMMA DropsStayEnded == IInv /\ DropsOnlyEnded /\ [Next]_vars => DropsOnlyEnded'
<1> SUFFICES ASSUME IInv, DropsOnlyEnded, [Next]_vars, ~KernelFails
             PROVE  /\ \A c \in dropped' : Ended(c)'
                    /\ Cardinality(Conn) <= Cardinality(FD) => pc' # "stopped"
  BY DEF DropsOnlyEnded, Ended
<1>1. ASSUME NEW c \in dropped'
      PROVE  Ended(c)'
  <2>1. CASE c \in dropped
    <3>1. c \in Conn /\ peer[c] # "new"
      BY <2>1 DEF IInv, LoopType, TypeOK, TableInv
    <3>2. Ended(c)
      BY <2>1 DEF DropsOnlyEnded, Ended
    <3> QED BY <3>1, <3>2, StaysEnded DEF IInv
  <2>2. CASE c \notin dropped
    <3>1. LoopStep
      BY <1>1, <2>2 DEF Next, PeerStep, Connect, PeerSend, PeerReceive, PeerShut, PeerReset, vars
    <3> QED BY <1>1, <2>2, <3>1, DropsEnded, StaysEnded DEF IInv
  <2> QED BY <2>1, <2>2
<1>2. ASSUME Cardinality(Conn) <= Cardinality(FD)
      PROVE  pc' # "stopped"
  <2>1. pc # "stopped"
    BY <1>2 DEF DropsOnlyEnded
  <2>2. CASE Accept
    <3>1. Outcome = {TRUE}
      BY DEF Outcome
    <3> QED BY <1>2, <2>1, <2>2, <3>1, DescriptorLeft DEF Accept
  <2>3. CASE LoopStep /\ ~Accept
    BY <2>1, <2>3 DEF LoopStep, Wait, Dispatch, BatchDone, HandleRead, AfterRead, HandleWrite, AfterWrite
  <2>4. CASE ~LoopStep
    BY <2>1, <2>4 DEF Next, PeerStep, Connect, PeerSend, PeerReceive, PeerShut, PeerReset, vars, loopVars
  <2> QED BY <2>2, <2>3, <2>4
<1> QED BY <1>1, <1>2

\* Whatever the connections do, a server whose system calls do not fail closes only those that
\* have ended or broken the protocol, and does not stop while it has a descriptor for each.
THEOREM OnlyEndedDropped == Spec => []DropsOnlyEnded
<1>1. Init => DropsOnlyEnded
  BY DEF Init, DropsOnlyEnded
<1> QED BY <1>1, Invariant, DropsStayEnded, PTL DEF Spec

================================================================================
