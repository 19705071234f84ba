---------------------------------- MODULE Tui ----------------------------------
(***************************************************************************)
(* The terminal program of govis-jetstream: the Bubble Tea model of        *)
(* internal/tui (update.go, model.go and the state of animation.go) and    *)
(* the event channel of internal/observe/events.go.                        *)
(*                                                                         *)
(* Update handles one message at a time.  The commands it returns run in   *)
(* goroutines of their own, so their results arrive in any order, each     *)
(* after at most five seconds and possibly as an error, while the user     *)
(* moves the selection and the server's streams come and go.               *)
(*                                                                         *)
(* What is shown is kept as the stream it belongs to.                      *)
(***************************************************************************)
EXTENDS Naturals, Sequences, FiniteSets

CONSTANTS
    Stream,     \* stream names
    Lists,      \* the lists that ListStreams may return
    Subscribed, \* the streams that exist when the program starts and subscribes
    None,       \* no stream, or nothing shown
    MaxLate,    \* superseded loads in flight at most, for one stream and kind
    ChannelCap  \* EventHandler.Events' capacity (256)

ASSUME TuiAssumption ==
    /\ None \notin Stream /\ Subscribed \subseteq Stream /\ MaxLate \in Nat \ {0} /\ ChannelCap \in Nat \ {0}
    /\ \A l \in Lists : l \in Seq(Stream) /\ \A i, j \in DOMAIN l : l[i] = l[j] => i = j

VARIABLES
    m,          \* the Model
    lists,      \* loadStreams commands in flight
    fresh,      \* per kind: streams whose latest load is in flight
    late,       \* per kind and stream: earlier loads, superseded by a later one, in flight
    polls,      \* per stream: loadConsumerSnapshots commands in flight
    waits,      \* WaitForPublishEvents commands in flight
    events      \* EventHandler.Events

vars == <<m, lists, fresh, late, polls, waits, events>>

Kind == {"subjects", "consumers"}

\* Model.selectedStream.
SelectedStream(n) == IF n.selected + 1 \in DOMAIN n.streams THEN n.streams[n.selected + 1]
                                                            ELSE None
Selected == SelectedStream(m)

\* NewModel and Init.
Init ==
    /\ m = [streams |-> <<>>, selected |-> 0,
            streamsLoading |-> TRUE, streamsFetching |-> TRUE,
            subjects |-> None, subjectsLoading |-> FALSE,
            consumers |-> None, consumersLoading |-> FALSE,
            consumerPollFetching |-> FALSE,
            consumerSnapshots |-> None, consumerSnapshotsErr |-> None,
            publishParticles |-> {}, consumerParticles |-> {}, newEvent |-> None]
    /\ lists = 1
    /\ fresh = [k \in Kind |-> {}]
    /\ late = [k \in Kind |-> [s \in Stream |-> 0]]
    /\ polls = [s \in Stream |-> 0]
    /\ waits = 1
    /\ events = <<>>

--------------------------------------------------------------------------------
(* Commands. *)

\* loadSubjects(s), loadConsumers(s) for the kinds ks: the earlier load becomes a late one.
Load(ks, s) ==
    /\ late' = [k \in Kind |->
                  IF k \in ks /\ s \in fresh[k] THEN [late[k] EXCEPT ![s] = @ + 1] ELSE late[k]]
    /\ fresh' = [k \in Kind |-> IF k \in ks THEN fresh[k] \cup {s} ELSE fresh[k]]
    /\ \A k \in Kind : late'[k][s] <= MaxLate

NoLoad == UNCHANGED <<fresh, late>>

\* A load of kind k for s ends: the latest one, or an earlier one.
LoadEnds(k, s) ==
    /\ \/ s \in fresh[k] /\ fresh' = [fresh EXCEPT ![k] = @ \ {s}] /\ UNCHANGED late
       \/ late[k][s] > 0 /\ late' = [late EXCEPT ![k][s] = @ - 1] /\ UNCHANGED fresh
    /\ UNCHANGED <<lists, polls, waits, events>>

--------------------------------------------------------------------------------
(* Update. *)

\* resetFlow, and what selectStream and a changed selection clear with it.
Cleared(n) == [n EXCEPT !.publishParticles = {}, !.consumerParticles = {}, !.newEvent = None,
                        !.subjects = None, !.consumers = None,
                        !.consumerSnapshots = None, !.consumerSnapshotsErr = None]

\* animationTickMsg: some particles are over.
AnimationTick ==
    /\ \E p \in SUBSET m.publishParticles, c \in SUBSET m.consumerParticles :
         m' = [m EXCEPT !.publishParticles = p, !.consumerParticles = c]
    /\ UNCHANGED <<lists, fresh, late, polls, waits, events>>

\* refreshTickMsg: poll what is not being polled.
RefreshTick ==
    LET poll == ~m.consumerPollFetching /\ Selected # None /\ m.consumers # None IN
    /\ m' = [m EXCEPT !.streamsFetching = TRUE,
                      !.consumerPollFetching = @ \/ poll]
    /\ lists' = IF m.streamsFetching THEN lists ELSE lists + 1
    /\ polls' = IF poll THEN [polls EXCEPT ![Selected] = @ + 1] ELSE polls
    /\ UNCHANGED <<fresh, late, waits, events>>

\* A list that arrives as an error leaves streamsFetching set.
StreamsLoadedErrorKeepsFetching ==
    /\ lists > 0 /\ lists' = lists - 1
    /\ m' = [m EXCEPT !.streamsLoading = FALSE]
    /\ NoLoad /\ UNCHANGED <<polls, waits, events>>

\* The position of stream s in list l; the first one if it is not there.
Position(s, l) == IF \E i \in DOMAIN l : l[i] = s THEN (CHOOSE i \in DOMAIN l : l[i] = s) - 1
                                                  ELSE 0

\* A changed selection does not clear what was shown for the old one.
StreamsLoadedKeepsData ==
    /\ lists > 0 /\ lists' = lists - 1
    /\ \E l \in Lists :
         m' = [m EXCEPT !.streamsLoading = FALSE, !.streamsFetching = FALSE,
                        !.streams = l, !.selected = Position(Selected, l)]
    /\ NoLoad /\ UNCHANGED <<polls, waits, events>>

\* A changed selection keeps the loading flags of the old one.
StreamsLoadedKeepsFlags ==
    /\ lists > 0 /\ lists' = lists - 1
    /\ \E l \in Lists :
         LET n == [m EXCEPT !.streamsLoading = FALSE, !.streamsFetching = FALSE,
                            !.streams = l, !.selected = Position(Selected, l)]
             s == SelectedStream(n)
             kept == IF s # Selected THEN Cleared(n) ELSE n
         IN  IF s = None THEN m' = kept /\ NoLoad
             ELSE /\ m' = [kept EXCEPT !.subjectsLoading = TRUE, !.consumersLoading = TRUE]
                  /\ Load((IF kept.subjectsLoading THEN {} ELSE {"subjects"})
                            \cup (IF kept.consumersLoading THEN {} ELSE {"consumers"}), s)
    /\ UNCHANGED <<polls, waits, events>>

\* streamsLoadedMsg: the selection stays on its stream if the list still has it; its
\* subjects and consumers are loaded again unless they are being loaded.
StreamsLoaded ==
    /\ lists > 0 /\ lists' = lists - 1
    /\ LET done == [m EXCEPT !.streamsLoading = FALSE, !.streamsFetching = FALSE] IN
       \/ m' = done /\ NoLoad                                           \* msg.err
       \/ \E l \in Lists :
            LET n == [done EXCEPT !.streams = l, !.selected = Position(Selected, l)]
                s == SelectedStream(n)
                kept == IF s = Selected THEN n
                        ELSE [Cleared(n) EXCEPT !.subjectsLoading = FALSE,
                                                !.consumersLoading = FALSE]
                idle == (IF kept.subjectsLoading THEN {} ELSE {"subjects"})
                          \cup (IF kept.consumersLoading THEN {} ELSE {"consumers"})
            IN  IF s = None THEN m' = kept /\ NoLoad
                ELSE /\ m' = [kept EXCEPT !.subjectsLoading = TRUE, !.consumersLoading = TRUE]
                     /\ Load(idle, s)
    /\ UNCHANGED <<polls, waits, events>>

\* subjectsLoadedMsg; an error is shown like subjects are.
SubjectsLoaded(s) ==
    /\ LoadEnds("subjects", s)
    /\ m' = IF s # Selected THEN m
            ELSE [m EXCEPT !.subjectsLoading = FALSE, !.subjects = s]

\* consumersLoadedMsg: with an error, or without consumers, no snapshot is kept.
ConsumersLoaded(s) ==
    /\ LoadEnds("consumers", s)
    /\ IF s # Selected THEN UNCHANGED m
       ELSE \/ m' = [m EXCEPT !.consumersLoading = FALSE, !.consumers = s]
            \/ m' = [m EXCEPT !.consumersLoading = FALSE, !.consumers = None,
                              !.consumerSnapshots = None, !.consumerParticles = {}]

\* publishEventReceived that waits for the next event only if this one was shown.
PublishEventDropsWait ==
    LET s == Head(events) IN
    /\ waits > 0 /\ events # <<>>
    /\ events' = Tail(events)
    /\ m' = IF s # Selected THEN m
            ELSE [m EXCEPT !.publishParticles = @ \cup {s}, !.newEvent = s]
    /\ waits' = IF s # Selected THEN waits - 1 ELSE waits
    /\ UNCHANGED <<lists, fresh, late, polls>>

\* publishEventReceived: every branch waits for the next event.
PublishEvent ==
    LET s == Head(events) IN
    /\ waits > 0 /\ events # <<>>
    /\ events' = Tail(events)
    /\ m' = IF s # Selected THEN m
            ELSE [m EXCEPT !.publishParticles = @ \cup {s}, !.newEvent = s]
    /\ UNCHANGED <<lists, fresh, late, polls, waits>>

\* consumerSnapshotsLoadedMsg: an error keeps the last snapshots; a snapshot with more
\* deliveries than the last one of its consumer shows particles.
SnapshotsLoaded(s) ==
    /\ polls[s] > 0 /\ polls' = [polls EXCEPT ![s] = @ - 1]
    /\ LET done == [m EXCEPT !.consumerPollFetching = FALSE] IN
       IF s # Selected THEN m' = done
       ELSE \/ m' = [done EXCEPT !.consumerSnapshotsErr = s]
            \/ \E moved \in IF m.consumerSnapshots = None THEN {{}} ELSE {{}, {s}} :
                 m' = [done EXCEPT !.consumerSnapshotsErr = None, !.consumerSnapshots = s,
                                   !.consumerParticles = @ \cup moved]
    /\ UNCHANGED <<lists, fresh, late, waits, events>>

\* Key r.
RefreshKey ==
    /\ ~m.streamsFetching
    /\ m' = [m EXCEPT !.streamsFetching = TRUE]
    /\ lists' = lists + 1
    /\ UNCHANGED <<fresh, late, polls, waits, events>>

\* Key down at the end of the list.
MoveKeyPastEnd ==
    /\ m.selected + 1 <= Len(m.streams)
    /\ m' = [Cleared(m) EXCEPT !.selected = @ + 1]
    /\ NoLoad /\ UNCHANGED <<lists, polls, waits, events>>

\* Keys up and down, and selectStream.
MoveKey ==
    /\ \E i \in ({m.selected + 1} \cap 0..(Len(m.streams) - 1))
              \cup (IF m.selected > 0 THEN {m.selected - 1} ELSE {}) :
         LET n == [Cleared(m) EXCEPT !.selected = i,
                                     !.subjectsLoading = TRUE, !.consumersLoading = TRUE]
         IN  m' = n /\ Load(Kind, SelectedStream(n))
    /\ UNCHANGED <<lists, polls, waits, events>>

--------------------------------------------------------------------------------
(* The NATS callback. *)

\* publishEventCallBack, for the subjects of SubscribeForPublishEvents: an event that finds
\* the channel full is dropped.
PublishCallback(s) ==
    /\ s \in Subscribed
    /\ Len(events) < ChannelCap
    /\ events' = Append(events, s)
    /\ UNCHANGED <<m, lists, fresh, late, polls, waits>>

Next ==
    \/ AnimationTick \/ RefreshTick \/ StreamsLoaded \/ PublishEvent
    \/ RefreshKey \/ MoveKey
    \/ \E s \in Stream : \/ SubjectsLoaded(s) \/ ConsumersLoaded(s) \/ SnapshotsLoaded(s)
                         \/ PublishCallback(s)

Spec == Init /\ [][Next]_vars

\* Every NATS request returns, after five seconds at most: no kind of load is left for ever.
FairSpec ==
    /\ Spec
    /\ WF_vars(StreamsLoaded) /\ WF_vars(\E s \in Stream : SubjectsLoaded(s))
    /\ WF_vars(\E s \in Stream : ConsumersLoaded(s)) /\ WF_vars(\E s \in Stream : SnapshotsLoaded(s))

--------------------------------------------------------------------------------
(* Properties. *)

\* Type correctness; the selection is in the list, or the list is empty.
TypeOK ==
    /\ m.streams \in Lists \cup {<<>>}
    /\ m.selected \in 0..(IF m.streams = <<>> THEN 0 ELSE Len(m.streams) - 1)
    /\ {m.streamsLoading, m.streamsFetching, m.subjectsLoading, m.consumersLoading,
        m.consumerPollFetching} \subseteq BOOLEAN
    /\ fresh \in [Kind -> SUBSET Stream] /\ late \in [Kind -> [Stream -> 0..MaxLate]]
    /\ lists \in Nat /\ polls \in [Stream -> Nat] /\ waits \in Nat
    /\ events \in Seq(Subscribed) /\ Len(events) <= ChannelCap

\* Whatever is on the screen belongs to the selected stream: a result or an event that
\* arrives after the selection has moved, by a key or by a new list, never shows up.
ShowsSelected ==
    LET shown == {m.subjects, m.consumers, m.consumerSnapshots, m.consumerSnapshotsErr,
                  m.newEvent} \cup m.publishParticles \cup m.consumerParticles
    IN  shown \subseteq {Selected, None}

\* "Poll each resource only when its previous request has finished" (update.go:17): one
\* list and one poll at a time, none forgotten, also when the selection moves meanwhile;
\* and exactly one command waits on the event channel.
OneAtATime ==
    /\ lists = IF m.streamsFetching THEN 1 ELSE 0
    /\ IF m.consumerPollFetching
         THEN \E s \in Stream : polls = [t \in Stream |-> IF t = s THEN 1 ELSE 0]
         ELSE polls = [t \in Stream |-> 0]
    /\ waits = 1

\* A list that says it is loading is being loaded, for the stream that is selected.
LoadingIsLoading ==
    LET inFlight(k) == Selected # None /\ (Selected \in fresh[k] \/ late[k][Selected] > 0) IN
    /\ m.subjectsLoading => inFlight("subjects")
    /\ m.consumersLoading => inFlight("consumers")

\* Loading ends, whatever the results: for the list, and for what belongs to a stream unless
\* the selection leaves it.
LoadingEnds ==
    /\ m.streamsFetching ~> ~m.streamsFetching
    /\ m.consumerPollFetching ~> ~m.consumerPollFetching
    /\ \A s \in Stream :
         /\ Selected = s /\ m.subjectsLoading ~> Selected # s \/ ~m.subjectsLoading
         /\ Selected = s /\ m.consumersLoading ~> Selected # s \/ ~m.consumersLoading
================================================================================
