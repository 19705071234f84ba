------------------------------- MODULE GodisLoop -------------------------------
(***************************************************************************)
(* The event loop of godis (internal/eventloop/loop.go and                 *)
(* poller_linux.go): one thread, non-blocking sockets, level-triggered     *)
(* epoll.  It accepts connections, reads commands that arrive in pieces,   *)
(* appends their answers to a write buffer and writes what the socket      *)
(* takes.                                                                  *)
(*                                                                         *)
(* A command is two units on the wire, so it can be cut in the middle, and *)
(* its answer is two units, so a write can be partial.  A malformed        *)
(* command is one unit.  Peers act between any two system calls of the     *)
(* loop.  The sockets, the descriptor table and epoll are the kernel's.    *)
(***************************************************************************)
EXTENDS Naturals, Sequences, FiniteSets, SequencesExt

CONSTANTS
    Conn,       \* connections that peers may make
    FD,         \* descriptors the process can have open for them
    Listener,   \* the listening socket's descriptor
    None,
    MaxSent,    \* units a peer sends at most
    MaxRead,    \* units one read takes at most (4096 bytes)
    MaxEvents,  \* events one epoll_wait returns at most (128)
    SendSpace,  \* units a socket's send buffer holds
    KernelFails \* whether accept4 and epoll_ctl may fail where the model sees no reason

\* The units of well-formed commands, and of their answers.
Units == Conn \X (1..MaxSent)

ASSUME LoopAssumption ==
    /\ MaxSent \in Nat /\ MaxRead \in Nat \ {0} /\ MaxEvents \in Nat \ {0}
    /\ SendSpace \in Nat \ {0} /\ KernelFails \in BOOLEAN
    /\ IsFiniteSet(Conn) /\ IsFiniteSet(FD)
    /\ Listener \notin FD /\ None \notin Conn \cup FD
    /\ None \notin [rbuf : Seq(Units), wbuf : Seq(Units)]

VARIABLES
    peer,       \* what the peer of each connection did last to it
    sent,       \* how many units each peer has sent
    faulty,     \* the peers that have sent a malformed command
    inbox,      \* per connection: received by the kernel, not read
    outbox,     \* per connection: written by the server, not received by the peer
    got,        \* per connection: received by the peer
    backlog,    \* connections waiting to be accepted
    dropped,    \* connections the server has closed
    fdTable,    \* the connection behind each descriptor
    interest,   \* epoll's interest in each descriptor; empty when not registered
    clients,    \* Loop.clients: read and write buffer of each descriptor's client
    pc,         \* where the loop is
    batch,      \* the events Wait returned that are still to be handled
    event       \* the event being handled

vars == <<peer, sent, faulty, inbox, outbox, got, backlog, dropped, fdTable, interest,
          clients, pc, batch, event>>

peerVars == <<peer, sent, faulty, got>>
loopVars == <<pc, batch, event>>

--------------------------------------------------------------------------------

\* The units of the n-th command of c, and of its answer.
Unit(c, i) == <<c, i>>
Malformed == <<"malformed">>

\* Everything the server may ever answer c.
Answers(c) == [i \in 1..MaxSent |-> Unit(c, i)]

Readable == "readable"
Writable == "writable"

Init ==
    /\ peer = [c \in Conn |-> "new"]
    /\ sent = [c \in Conn |-> 0]
    /\ faulty = {}
    /\ inbox = [c \in Conn |-> <<>>]
    /\ outbox = [c \in Conn |-> <<>>]
    /\ got = [c \in Conn |-> <<>>]
    /\ backlog = <<>>
    /\ dropped = {}
    /\ fdTable = [f \in FD |-> None]
    /\ interest = [f \in FD |-> {}]
    /\ clients = [f \in FD |-> None]
    /\ pc = "wait"
    /\ batch = <<>>
    /\ event = None

--------------------------------------------------------------------------------
(* The peers. *)

Connect(c) ==
    /\ peer[c] = "new"
    /\ peer' = [peer EXCEPT ![c] = "open"]
    /\ backlog' = Append(backlog, c)
    /\ UNCHANGED <<sent, faulty, inbox, outbox, got, dropped, fdTable, interest, clients>>
    /\ UNCHANGED loopVars

\* The next half of a command; at a command's start it may be a malformed one instead.
PeerSend(c) ==
    /\ peer[c] = "open" /\ c \notin dropped \cup faulty /\ sent[c] < MaxSent
    /\ \/ /\ inbox' = [inbox EXCEPT ![c] = Append(@, Unit(c, sent[c] + 1))]
          /\ sent' = [sent EXCEPT ![c] = @ + 1]
          /\ UNCHANGED faulty
       \/ /\ sent[c] % 2 = 0
          /\ inbox' = [inbox EXCEPT ![c] = Append(@, Malformed)]
          /\ faulty' = faulty \cup {c}
          /\ UNCHANGED sent
    /\ UNCHANGED <<peer, outbox, got, backlog, dropped, fdTable, interest, clients>>
    /\ UNCHANGED loopVars

PeerReceive(c) ==
    /\ peer[c] \in {"open", "shut"} /\ outbox[c] # <<>>
    /\ got' = [got EXCEPT ![c] = @ \o outbox[c]]
    /\ outbox' = [outbox EXCEPT ![c] = <<>>]
    /\ UNCHANGED <<peer, sent, faulty, inbox, backlog, dropped, fdTable, interest, clients>>
    /\ UNCHANGED loopVars

\* The peer closes its writing side, and may still read.
PeerShut(c) ==
    /\ peer[c] = "open"
    /\ peer' = [peer EXCEPT ![c] = "shut"]
    /\ UNCHANGED <<sent, faulty, inbox, outbox, got, backlog, dropped, fdTable, interest,
                   clients>>
    /\ UNCHANGED loopVars

\* The connection is reset: what was not delivered to the peer is gone.
PeerReset(c) ==
    /\ peer[c] \in {"open", "shut"}
    /\ peer' = [peer EXCEPT ![c] = "reset"]
    /\ outbox' = [outbox EXCEPT ![c] = <<>>]
    /\ UNCHANGED <<sent, faulty, inbox, got, backlog, dropped, fdTable, interest, clients>>
    /\ UNCHANGED loopVars

PeerStep(c) ==
    Connect(c) \/ PeerSend(c) \/ PeerReceive(c) \/ PeerShut(c) \/ PeerReset(c)

--------------------------------------------------------------------------------
(* epoll. *)

\* What epoll reports for a registered descriptor.
Event(f) ==
    LET c == fdTable[f] IN
    [fd |-> f,
     conn |-> c,
     readable |-> Readable \in interest[f]
                    /\ (inbox[c] # <<>> \/ peer[c] \in {"shut", "reset"}),
     writable |-> Writable \in interest[f]
                    /\ (Len(outbox[c]) < SendSpace \/ peer[c] = "reset"),
     error |-> peer[c] = "reset",
     hangup |-> peer[c] = "reset"]

ListenerEvent == [fd |-> Listener]

Ready ==
    {Event(f) : f \in {g \in FD : /\ interest[g] # {}
                                  /\ LET e == Event(g) IN e.readable \/ e.writable \/ e.error}}
      \cup IF backlog # <<>> THEN {ListenerEvent} ELSE {}

\* A wait that reports reading and writing as two events, as kqueue does.
WaitSplitsEvents ==
    /\ pc = "wait"
    /\ \E e \in Ready :
         batch' = IF e = ListenerEvent THEN <<e>>
                  ELSE << [e EXCEPT !.writable = FALSE], [e EXCEPT !.readable = FALSE] >>
    /\ pc' = "dispatch"
    /\ UNCHANGED <<inbox, outbox, backlog, dropped, fdTable, interest, clients, event>>
    /\ UNCHANGED peerVars

\* Poller.Wait: as many of the ready events as fit, in an order of epoll's choosing.  A
\* wait that times out returns no events and changes nothing here.
Wait ==
    /\ pc = "wait" /\ Ready # {}
    /\ \E some \in SUBSET Ready :
         /\ Cardinality(some) = IF Cardinality(Ready) < MaxEvents THEN Cardinality(Ready)
                                                                  ELSE MaxEvents
         /\ batch' \in SetToSeqs(some)
    /\ pc' = "dispatch"
    /\ UNCHANGED <<inbox, outbox, backlog, dropped, fdTable, interest, clients, event>>
    /\ UNCHANGED peerVars

--------------------------------------------------------------------------------
(* The loop. *)

\* Whether a system call succeeds.
Outcome == IF KernelFails THEN BOOLEAN ELSE {TRUE}

\* removeClient that closes the descriptor but keeps the client in the map.
RemoveClientKeepsEntry(f, written) ==
    /\ interest' = [interest EXCEPT ![f] = {}]
    /\ fdTable' = [fdTable EXCEPT ![f] = None]
    /\ dropped' = dropped \cup {fdTable[f]}
    /\ outbox' = written
    /\ UNCHANGED clients

\* removeClient, after a handler that wrote and read what it did.  Closing a socket with
\* unread input resets the connection, and then the peer may not get what was written last.
RemoveClient(f, written) ==
    LET c == fdTable[f] IN
    /\ interest' = [interest EXCEPT ![f] = {}]
    /\ fdTable' = [fdTable EXCEPT ![f] = None]
    /\ dropped' = dropped \cup {c}
    /\ clients' = [clients EXCEPT ![f] = None]
    /\ outbox' \in {written} \cup IF inbox'[c] = <<>> THEN {}
                                  ELSE {[written EXCEPT ![c] = <<>>]}

\* handleEvent begins: the listener's event, a client's event, or a client that is gone.
Dispatch ==
    /\ pc = "dispatch" /\ batch # <<>>
    /\ event' = Head(batch)
    /\ batch' = Tail(batch)
    /\ pc' = IF event'.fd = Listener THEN "accept"
             ELSE IF clients[event'.fd] = None THEN "dispatch"
             ELSE IF event'.readable THEN "read" ELSE "afterRead"
    /\ UNCHANGED <<inbox, outbox, backlog, dropped, fdTable, interest, clients>>
    /\ UNCHANGED peerVars

\* All events are handled: Run goes back to Wait.
BatchDone ==
    /\ pc = "dispatch" /\ batch = <<>>
    /\ pc' = "wait"
    /\ event' = None
    /\ UNCHANGED <<batch, inbox, outbox, backlog, dropped, fdTable, interest, clients>>
    /\ UNCHANGED peerVars

\* acceptConnections, one turn: accept until EAGAIN.  Any other error of accept4 (no
\* descriptor left, a connection aborted in the queue) or of Register ends Run.
Accept ==
    /\ pc = "accept"
    /\ IF backlog = <<>>
         THEN pc' = "dispatch" /\ UNCHANGED <<backlog, dropped, fdTable, interest, clients>>
         ELSE \E accepted, registered \in Outcome :
              IF ~accepted \/ \A f \in FD : fdTable[f] # None
                THEN pc' = "stopped" /\ UNCHANGED <<backlog, dropped, fdTable, interest, clients>>
                ELSE \E f \in {g \in FD : fdTable[g] = None} :
                  /\ backlog' = Tail(backlog)
                  /\ IF registered
                     THEN /\ fdTable' = [fdTable EXCEPT ![f] = Head(backlog)]
                          /\ interest' = [interest EXCEPT ![f] = {Readable}]
                          /\ clients' = [clients EXCEPT ![f] = [rbuf |-> <<>>, wbuf |-> <<>>]]
                          /\ UNCHANGED <<pc, dropped>>
                     ELSE /\ pc' = "stopped"
                          /\ dropped' = dropped \cup {Head(backlog)}
                          /\ UNCHANGED <<fdTable, interest, clients>>
    /\ UNCHANGED <<batch, event, inbox, outbox>>
    /\ UNCHANGED peerVars

\* The parse loop: the complete commands at the front of a read buffer are executed and
\* answered, up to an incomplete one.  A malformed command ends it, and then nothing is kept.
Parse(bytes) ==
    LET whole == Len(bytes) - (Len(bytes) % 2)
    IN  [answers |-> SubSeq(bytes, 1, whole),
         rest |-> SubSeq(bytes, whole + 1, Len(bytes)),
         malformed |-> Malformed \in ToSet(bytes)]

\* handleRead that forgets to keep the unfinished command.
HandleReadDropsRest ==
    LET f == event.fd  c == fdTable[f]
        parsed == Parse(clients[f].rbuf \o inbox[c])
    IN  /\ pc = "read" /\ inbox[c] # <<>> /\ ~parsed.malformed
        /\ inbox' = [inbox EXCEPT ![c] = <<>>]
        /\ clients' = [clients EXCEPT ![f] = [rbuf |-> <<>>, wbuf |-> @.wbuf \o parsed.answers]]
        /\ interest' = [interest EXCEPT ![f] = {Readable, Writable}]
        /\ pc' = "afterRead"
        /\ UNCHANGED <<dropped, fdTable, outbox, backlog, batch, event>>
        /\ UNCHANGED peerVars

\* handleRead that does not ask for writable events.
HandleReadForgetsWritable ==
    LET f == event.fd  c == fdTable[f]
        parsed == Parse(clients[f].rbuf \o inbox[c])
    IN  /\ pc = "read" /\ inbox[c] # <<>> /\ ~parsed.malformed
        /\ inbox' = [inbox EXCEPT ![c] = <<>>]
        /\ clients' = [clients EXCEPT ![f] = [rbuf |-> parsed.rest,
                                              wbuf |-> @.wbuf \o parsed.answers]]
        /\ pc' = "afterRead"
        /\ UNCHANGED <<interest, dropped, fdTable, outbox, backlog, batch, event>>
        /\ UNCHANGED peerVars

\* handleRead: end of input and errors drop the client, whatever its write buffer holds;
\* so does a malformed command, with the answers of the commands before it.
HandleRead ==
    LET f == event.fd
        c == fdTable[f]
        n == IF Len(inbox[c]) < MaxRead THEN Len(inbox[c]) ELSE MaxRead
        parsed == Parse(clients[f].rbuf \o SubSeq(inbox[c], 1, n))
    IN
    /\ pc = "read"
    /\ pc' = "afterRead"
    /\ inbox' = [inbox EXCEPT ![c] = SubSeq(@, n + 1, Len(@))]
    /\ \E modified \in Outcome :
         IF inbox[c] = <<>> /\ peer[c] = "open"                         \* EAGAIN
           THEN UNCHANGED <<dropped, fdTable, interest, clients, outbox>>
           ELSE IF inbox[c] = <<>> \/ parsed.malformed \/ ~modified
           THEN RemoveClient(f, outbox)
           ELSE /\ clients' = [clients EXCEPT ![f] = [rbuf |-> parsed.rest,
                                                      wbuf |-> @.wbuf \o parsed.answers]]
                /\ interest' = [interest EXCEPT ![f] = {Readable, Writable}]
                /\ UNCHANGED <<dropped, fdTable, outbox>>
    /\ UNCHANGED <<backlog, batch, event>>
    /\ UNCHANGED peerVars

\* handleEvent after handleRead: go on only if the client is still there.
AfterRead ==
    /\ pc = "afterRead"
    /\ pc' = IF clients[event.fd] = None THEN "dispatch"
             ELSE IF event.writable THEN "write" ELSE "afterWrite"
    /\ UNCHANGED <<inbox, outbox, backlog, dropped, fdTable, interest, clients, batch, event>>
    /\ UNCHANGED peerVars

\* handleWrite that takes a partial write for a complete one.
HandleWriteDropsRest ==
    LET f == event.fd  c == fdTable[f]  w == clients[f].wbuf
        n == IF Len(w) < SendSpace - Len(outbox[c]) THEN Len(w) ELSE SendSpace - Len(outbox[c])
    IN  /\ pc = "write" /\ peer[c] # "reset"
        /\ pc' = "afterWrite"
        /\ outbox' = [outbox EXCEPT ![c] = @ \o SubSeq(w, 1, n)]
        /\ clients' = [clients EXCEPT ![f].wbuf = <<>>]
        /\ interest' = [interest EXCEPT ![f] = {Readable}]
        /\ UNCHANGED <<dropped, fdTable, inbox, backlog, batch, event>>
        /\ UNCHANGED peerVars

\* handleWrite: write what the socket takes; nothing (EAGAIN) when it is full; stop asking
\* for writable events when the buffer is empty.
HandleWrite ==
    LET f == event.fd
        c == fdTable[f]
        w == clients[f].wbuf
        space == SendSpace - Len(outbox[c])
        n == IF Len(w) < space THEN Len(w) ELSE space
    IN
    /\ pc = "write"
    /\ pc' = "afterWrite"
    /\ UNCHANGED inbox
    /\ \E modified \in Outcome :
         LET written == [outbox EXCEPT ![c] = @ \o SubSeq(w, 1, n)] IN
         IF peer[c] = "reset" THEN RemoveClient(f, outbox)
         ELSE IF n = Len(w) /\ ~modified THEN RemoveClient(f, written)
         ELSE /\ outbox' = written
              /\ clients' = [clients EXCEPT ![f].wbuf = SubSeq(w, n + 1, Len(w))]
              /\ interest' = IF n = Len(w) THEN [interest EXCEPT ![f] = {Readable}]
                                           ELSE interest
              /\ UNCHANGED <<dropped, fdTable>>
    /\ UNCHANGED <<backlog, batch, event>>
    /\ UNCHANGED peerVars

\* handleEvent that drops a client as soon as it has nothing to write.
AfterWriteDropsIdle ==
    LET f == event.fd IN
    /\ pc = "afterWrite"
    /\ pc' = "dispatch"
    /\ UNCHANGED inbox
    /\ IF clients[f] # None /\ (event.error \/ clients[f].wbuf = <<>>)
         THEN RemoveClient(f, outbox)
         ELSE UNCHANGED <<dropped, fdTable, interest, clients, outbox>>
    /\ UNCHANGED <<backlog, batch, event>>
    /\ UNCHANGED peerVars

\* handleEvent ends: an error, or a hangup with nothing left to write, drops the client.
AfterWrite ==
    LET f == event.fd IN
    /\ pc = "afterWrite"
    /\ pc' = "dispatch"
    /\ UNCHANGED inbox
    /\ IF clients[f] # None /\ (event.error \/ (event.hangup /\ clients[f].wbuf = <<>>))
         THEN RemoveClient(f, outbox)
         ELSE UNCHANGED <<dropped, fdTable, interest, clients, outbox>>
    /\ UNCHANGED <<backlog, batch, event>>
    /\ UNCHANGED peerVars

LoopStep == \/ Wait \/ Dispatch \/ BatchDone \/ Accept \/ HandleRead \/ AfterRead
            \/ HandleWrite \/ AfterWrite

Next == LoopStep \/ \E c \in Conn : PeerStep(c)

Spec == Init /\ [][Next]_vars

\* The loop runs on, and peers read what they are sent.
FairSpec == Spec /\ WF_vars(LoopStep) /\ \A c \in Conn : WF_vars(PeerReceive(c))

--------------------------------------------------------------------------------
(* Properties. *)

\* Type correctness of the loop, its clients and the kernel's tables.
TypeOK ==
    /\ peer \in [Conn -> {"new", "open", "shut", "reset"}]
    /\ sent \in [Conn -> 0..MaxSent]
    /\ faulty \subseteq Conn /\ dropped \subseteq Conn
    /\ fdTable \in [FD -> Conn \cup {None}]
    /\ interest \in [FD -> SUBSET {Readable, Writable}]
    /\ \A f \in FD : (clients[f] = None) = (fdTable[f] = None)
    /\ pc \in {"wait", "dispatch", "accept", "read", "afterRead", "write", "afterWrite",
               "stopped"}

\* The connections the server has open, and what it holds for each.
Served == {fdTable[f] : f \in {g \in FD : fdTable[g] # None}}
Client(c) == clients[CHOOSE f \in FD : fdTable[f] = c]
Unsent(c) == IF c \in Served /\ peer[c] # "reset" THEN Client(c).wbuf ELSE <<>>

\* How many units of well-formed commands are among these.
WellFormed(units) == Cardinality({i \in DOMAIN units : units[i] # Malformed})

\* Each peer is sent the answers to its own commands, in the order of the commands, each
\* once, however reads and writes are cut (pipeline_test.go and fragmentation_test.go), and
\* also when its descriptor served another connection before.
AnswersInOrder ==
    \A c \in Conn : IsPrefix(got[c] \o outbox[c] \o Unsent(c), Answers(c))

\* As long as a connection is served nothing is lost on the way: every unit the peer has
\* sent waits to be read, is the start of an incomplete command, or has been answered.
NothingLost ==
    \A c \in Served : peer[c] # "reset" =>
        sent[c] = Len(got[c]) + Len(outbox[c]) + Len(Client(c).wbuf)
                    + Len(Client(c).rbuf) + WellFormed(inbox[c])

\* No answer is forgotten: whenever the loop is between two events, a client with something
\* to write is registered for writable events and no complete command is left unread.
WritableArmed ==
    \A f \in FD :
        pc \in {"wait", "dispatch"} /\ clients[f] # None =>
            /\ clients[f].wbuf # <<>> => Writable \in interest[f]
            /\ Len(clients[f].rbuf) < 2

\* A descriptor that was closed and reused while the batch is handled has no event of its
\* former connection left in the batch.
EventsFresh ==
    \A i \in DOMAIN batch : batch[i].fd # Listener => fdTable[batch[i].fd] = batch[i].conn

\* With no failing system calls the server drops only connections whose peer has ended them
\* or has sent a malformed command, and nothing that connected peers do stops the server as
\* long as there is a descriptor for each.
DropsOnlyEnded ==
    ~KernelFails =>
        /\ \A c \in dropped : peer[c] # "open" \/ c \in faulty
        /\ Cardinality(Conn) <= Cardinality(FD) => pc # "stopped"

\* A peer that stays, reads and sends only well-formed commands gets the answer to each
\* command it has sent completely, unless the server stops.
Answered ==
    \A c \in Conn : \A n \in 1..MaxSent :
        n % 2 = 0 /\ sent[c] >= n
            ~> \/ Len(got[c]) >= n
               \/ peer[c] # "open" \/ c \in faulty \/ pc = "stopped"
================================================================================
