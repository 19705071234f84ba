------------------------------- MODULE TuiProofs -------------------------------
(***************************************************************************)
(* Proofs about Tui for any streams, lists, numbers of late loads and      *)
(* channel capacities: only the selected stream is shown, each resource is *)
(* polled by one request at a time, and what says it is loading is.        *)
(***************************************************************************)
EXTENDS Tui, SequenceTheorems, TLAPS

Shown == Stream \cup {None}

ModelType ==
    [streams : Seq(Stream), selected : Nat,
     streamsLoading : BOOLEAN, streamsFetching : BOOLEAN,
     subjects : Shown, subjectsLoading : BOOLEAN,
     consumers : Shown, consumersLoading : BOOLEAN,
     consumerPollFetching : BOOLEAN,
     consumerSnapshots : Shown, consumerSnapshotsErr : Shown,
     publishParticles : SUBSET Stream, consumerParticles : SUBSET Stream, newEvent : Shown]

\* The selection of model n is in its list, or at the head of an empty one.
InList(n) ==
    /\ n.streams \in Lists \cup {<<>>}
    /\ n.selected = 0 \/ n.selected < Len(n.streams)

\* The types the other invariants need.
ShapeInv ==
    /\ m \in ModelType
    /\ fresh \in [Kind -> SUBSET Stream] /\ late \in [Kind -> [Stream -> Nat]]
    /\ lists \in Nat /\ polls \in [Stream -> Nat] /\ waits \in Nat
    /\ events \in Seq(Subscribed)

\* The bounds that go with them.
BoundInv ==
    /\ InList(m)
    /\ \A k \in Kind, s \in Stream : late[k][s] <= MaxLate
    /\ Len(events) <= ChannelCap

\* Everything that model n has on the screen.
Screen(n) == {n.subjects, n.consumers, n.consumerSnapshots, n.consumerSnapshotsErr,
              n.newEvent} \cup n.publishParticles \cup n.consumerParticles

\* The selected stream of a well-formed model is a stream or none.
LEMMA SelectedType ==
    ASSUME NEW n \in ModelType
    PROVE  SelectedStream(n) \in Shown
<1>1. n.streams \in Seq(Stream) /\ n.selected \in Nat
  BY DEF ModelType
<1>2. CASE n.selected + 1 \in DOMAIN n.streams
  BY <1>1, <1>2 DEF SelectedStream, Shown
<1>3. CASE n.selected + 1 \notin DOMAIN n.streams
  BY <1>3 DEF SelectedStream, Shown
<1> QED BY <1>2, <1>3

\* What Cleared clears, and what it keeps.
LEMMA Clearing ==
    ASSUME NEW n \in ModelType
    PROVE  /\ Cleared(n) \in ModelType
           /\ Screen(Cleared(n)) = {None}
           /\ SelectedStream(Cleared(n)) = SelectedStream(n)
           /\ Cleared(n).streams = n.streams /\ Cleared(n).selected = n.selected
           /\ Cleared(n).streamsFetching = n.streamsFetching
           /\ Cleared(n).consumerPollFetching = n.consumerPollFetching
           /\ Cleared(n).subjectsLoading = n.subjectsLoading
           /\ Cleared(n).consumersLoading = n.consumersLoading
BY DEF ModelType, Cleared, Screen, Shown, SelectedStream

\* A load adds to what is in flight and takes nothing away.
LEMMA Loading ==
    ASSUME ShapeInv, NEW ks \in SUBSET Kind, NEW s \in Stream, Load(ks, s)
    PROVE  /\ fresh' \in [Kind -> SUBSET Stream] /\ late' \in [Kind -> [Stream -> Nat]]
           /\ \A k \in Kind : /\ fresh[k] \subseteq fresh'[k]
                              /\ k \in ks => s \in fresh'[k]
                              /\ \A t \in Stream : late[k][t] > 0 => late'[k][t] > 0
                              /\ \A t \in Stream :
                                   late'[k][t] <= MaxLate \/ late'[k][t] = late[k][t]
BY DEF ShapeInv, Load

\* The end of a load for one stream leaves those of the others in flight.
LEMMA Ending ==
    ASSUME ShapeInv, NEW k \in Kind, NEW s \in Stream, LoadEnds(k, s)
    PROVE  /\ fresh' \in [Kind -> SUBSET Stream] /\ late' \in [Kind -> [Stream -> Nat]]
           /\ \A j \in Kind, t \in Stream : j # k \/ t # s =>
                /\ t \in fresh[j] => t \in fresh'[j]
                /\ late'[j][t] = late[j][t]
           /\ \A j \in Kind, t \in Stream : late'[j][t] <= late[j][t]
<1>1. fresh \in [Kind -> SUBSET Stream] /\ late \in [Kind -> [Stream -> Nat]]
  BY DEF ShapeInv
<1>2. CASE s \in fresh[k] /\ fresh' = [fresh EXCEPT ![k] = @ \ {s}] /\ UNCHANGED late
  BY <1>1, <1>2
<1>3. CASE late[k][s] > 0 /\ late' = [late EXCEPT ![k][s] = @ - 1] /\ UNCHANGED fresh
  <2>1. late[k] \in [Stream -> Nat] /\ late[k][s] - 1 \in Nat
    BY <1>1, <1>3
  <2>2. late' = [late EXCEPT ![k] = [late[k] EXCEPT ![s] = late[k][s] - 1]]
    BY <1>1, <1>3
  <2>3. [late[k] EXCEPT ![s] = late[k][s] - 1] \in [Stream -> Nat]
    BY <2>1
  <2>4. /\ late' \in [Kind -> [Stream -> Nat]]
        /\ \A j \in Kind : j # k => late'[j] = late[j]
        /\ late'[k] = [late[k] EXCEPT ![s] = late[k][s] - 1]
    BY <1>1, <2>2, <2>3
  <2>5. /\ \A t \in Stream : t # s => late'[k][t] = late[k][t]
        /\ late'[k][s] <= late[k][s]
    BY <2>1, <2>4
  <2> QED BY <1>1, <1>3, <2>4, <2>5
<1> QED BY <1>2, <1>3 DEF LoadEnds

\* The position of a stream in a list is one of the list's.
LEMMA PositionType ==
    ASSUME NEW s, NEW l \in Seq(Stream)
    PROVE  /\ Position(s, l) \in Nat
           /\ Position(s, l) = 0 \/ Position(s, l) < Len(l)
<1>1. CASE \E i \in DOMAIN l : l[i] = s
  <2>1. (CHOOSE i \in DOMAIN l : l[i] = s) \in DOMAIN l
    BY <1>1
  <2>2. DOMAIN l = 1..Len(l) /\ Len(l) \in Nat
    BY LenProperties
  <2>3. /\ (CHOOSE i \in DOMAIN l : l[i] = s) - 1 \in Nat
        /\ (CHOOSE i \in DOMAIN l : l[i] = s) - 1 < Len(l)
    BY <2>1, <2>2
  <2> QED BY <1>1, <2>3 DEF Position
<1>2. CASE ~\E i \in DOMAIN l : l[i] = s
  BY <1>2 DEF Position
<1> QED BY <1>1, <1>2

\* What a list of streams does: the screen is kept with the selection, or cleared; nothing
\* in flight is lost; and what is marked as loading has been, or is now, loaded.
LEMMA ListArrives ==
    ASSUME ShapeInv, BoundInv, StreamsLoaded
    PROVE  /\ m' \in ModelType
           /\ InList(m')
           /\ ~m'.streamsFetching /\ m'.consumerPollFetching = m.consumerPollFetching
           /\ Screen(m') = {None} \/ (Selected' = Selected /\ Screen(m') = Screen(m))
           /\ fresh' \in [Kind -> SUBSET Stream] /\ late' \in [Kind -> [Stream -> Nat]]
           /\ \A k \in Kind : /\ fresh[k] \subseteq fresh'[k]
                              /\ \A t \in Stream : late[k][t] > 0 => late'[k][t] > 0
                              /\ \A t \in Stream :
                                   late'[k][t] <= MaxLate \/ late'[k][t] = late[k][t]
           /\ m'.subjectsLoading => \/ Selected' = Selected /\ m.subjectsLoading
                                    \/ Selected' \in Stream /\ Selected' \in fresh'["subjects"]
           /\ m'.consumersLoading => \/ Selected' = Selected /\ m.consumersLoading
                                     \/ Selected' \in Stream /\ Selected' \in fresh'["consumers"]
<1> DEFINE done == [m EXCEPT !.streamsLoading = FALSE, !.streamsFetching = FALSE]
<1>1. /\ done \in ModelType /\ InList(done) /\ Screen(done) = Screen(m)
      /\ SelectedStream(done) = Selected
      /\ ~done.streamsFetching /\ done.consumerPollFetching = m.consumerPollFetching
      /\ done.subjectsLoading = m.subjectsLoading
      /\ done.consumersLoading = m.consumersLoading
  BY DEF ShapeInv, BoundInv, InList, ModelType, Screen, SelectedStream, Selected
<1>2. fresh \in [Kind -> SUBSET Stream] /\ late \in [Kind -> [Stream -> Nat]]
  BY DEF ShapeInv
<1>3. CASE m' = done /\ NoLoad
  BY <1>1, <1>2, <1>3 DEF NoLoad, Selected
<1>4. ASSUME NEW l \in Lists,
             LET n == [done EXCEPT !.streams = l, !.selected = Position(Selected, l)]
                 s == SelectedStream(n)
                 kept == IF s = Selected THEN n
                         ELSE [Cleared(n) EXCEPT !.subjectsLoading = FALSE,
                                                 !.consumersLoading = FALSE]
                 idle == (IF kept.subjectsLoading THEN {} ELSE {"subjects"})
                           \cup (IF kept.consumersLoading THEN {} ELSE {"consumers"})
             IN  IF s = None THEN m' = kept /\ NoLoad
                 ELSE /\ m' = [kept EXCEPT !.subjectsLoading = TRUE, !.consumersLoading = TRUE]
                      /\ Load(idle, s)
      PROVE  /\ m' \in ModelType
             /\ InList(m')
             /\ ~m'.streamsFetching /\ m'.consumerPollFetching = m.consumerPollFetching
             /\ Screen(m') = {None} \/ (Selected' = Selected /\ Screen(m') = Screen(m))
             /\ fresh' \in [Kind -> SUBSET Stream] /\ late' \in [Kind -> [Stream -> Nat]]
             /\ \A k \in Kind : /\ fresh[k] \subseteq fresh'[k]
                                /\ \A t \in Stream : late[k][t] > 0 => late'[k][t] > 0
                                /\ \A t \in Stream :
                                     late'[k][t] <= MaxLate \/ late'[k][t] = late[k][t]
             /\ m'.subjectsLoading => \/ Selected' = Selected /\ m.subjectsLoading
                                      \/ Selected' \in Stream /\ Selected' \in fresh'["subjects"]
             /\ m'.consumersLoading => \/ Selected' = Selected /\ m.consumersLoading
                                       \/ Selected' \in Stream /\ Selected' \in fresh'["consumers"]
  <2> DEFINE n == [done EXCEPT !.streams = l, !.selected = Position(Selected, l)]
             s == SelectedStream(n)
             cleared == [Cleared(n) EXCEPT !.subjectsLoading = FALSE,
                                           !.consumersLoading = FALSE]
             kept == IF s = Selected THEN n ELSE cleared
             idle == (IF kept.subjectsLoading THEN {} ELSE {"subjects"})
                       \cup (IF kept.consumersLoading THEN {} ELSE {"consumers"})
  <2>1. /\ l \in Seq(Stream) /\ Position(Selected, l) \in Nat
        /\ Position(Selected, l) = 0 \/ Position(Selected, l) < Len(l)
    BY TuiAssumption, PositionType
  <2>2. /\ n \in ModelType /\ InList(n) /\ Screen(n) = Screen(m)
        /\ ~n.streamsFetching /\ n.consumerPollFetching = m.consumerPollFetching
        /\ n.subjectsLoading = m.subjectsLoading /\ n.consumersLoading = m.consumersLoading
    <3> HIDE DEF done
    <3> QED BY <1>1, <2>1 DEF ModelType, Screen, InList
  <2>3. s \in Shown
    BY <2>2, SelectedType
  <2>4. /\ cleared \in ModelType /\ InList(cleared) /\ Screen(cleared) = {None}
        /\ SelectedStream(cleared) = s
        /\ ~cleared.streamsFetching /\ cleared.consumerPollFetching = m.consumerPollFetching
        /\ ~cleared.subjectsLoading /\ ~cleared.consumersLoading
    <3> HIDE DEF n
    <3> DEFINE c == Cleared(n)
    <3>1. /\ c \in ModelType /\ Screen(c) = {None} /\ SelectedStream(c) = SelectedStream(n)
          /\ c.streamsFetching = n.streamsFetching
          /\ c.consumerPollFetching = n.consumerPollFetching
          /\ c.streams = n.streams /\ c.selected = n.selected
      BY <2>2, Clearing
    <3>2. cleared = [c EXCEPT !.subjectsLoading = FALSE, !.consumersLoading = FALSE]
      OBVIOUS
    <3> HIDE DEF c, cleared
    <3> QED BY <2>2, <3>1, <3>2 DEF ModelType, Screen, SelectedStream, InList
  <2>5. /\ kept \in ModelType /\ InList(kept) /\ SelectedStream(kept) = s
        /\ Screen(kept) = {None} \/ (s = Selected /\ Screen(kept) = Screen(m))
        /\ ~kept.streamsFetching /\ kept.consumerPollFetching = m.consumerPollFetching
        /\ kept.subjectsLoading => s = Selected /\ m.subjectsLoading
        /\ kept.consumersLoading => s = Selected /\ m.consumersLoading
    <3> HIDE DEF n, cleared
    <3>1. CASE s = Selected
      BY <2>2, <3>1
    <3>2. CASE s # Selected
      BY <2>4, <3>2
    <3> QED BY <3>1, <3>2
  <2>6. CASE s = None
    <3> HIDE DEF kept, s
    <3>1. m' = kept /\ NoLoad
      BY <1>4, <2>6 DEF kept, s
    <3> QED BY <1>2, <2>5, <3>1 DEF NoLoad, Selected
  <2>7. CASE s # None
    <3>1. /\ m' = [kept EXCEPT !.subjectsLoading = TRUE, !.consumersLoading = TRUE]
          /\ Load(idle, s)
      BY <1>4, <2>7
    <3> HIDE DEF kept, s
    <3>2. s \in Stream
      BY <2>3, <2>7 DEF Shown
    <3>3. /\ m' \in ModelType /\ InList(m') /\ Screen(m') = Screen(kept) /\ Selected' = s
          /\ ~m'.streamsFetching /\ m'.consumerPollFetching = m.consumerPollFetching
      BY <2>5, <3>1 DEF ModelType, Screen, SelectedStream, Selected, InList
    <3>4. idle \in SUBSET Kind
      BY DEF Kind
    <3>5. /\ fresh' \in [Kind -> SUBSET Stream] /\ late' \in [Kind -> [Stream -> Nat]]
          /\ \A k \in Kind : /\ fresh[k] \subseteq fresh'[k]
                             /\ k \in idle => s \in fresh'[k]
                             /\ \A t \in Stream : late[k][t] > 0 => late'[k][t] > 0
                             /\ \A t \in Stream :
                                  late'[k][t] <= MaxLate \/ late'[k][t] = late[k][t]
      BY <3>1, <3>2, <3>4, Loading
    <3>6. /\ kept.subjectsLoading \/ s \in fresh'["subjects"]
          /\ kept.consumersLoading \/ s \in fresh'["consumers"]
      BY <3>5 DEF Kind
    <3> QED BY <2>5, <3>2, <3>3, <3>5, <3>6
  <2> QED BY <2>6, <2>7
<1> QED BY <1>3, <1>4 DEF StreamsLoaded

\* What a move of the selection does: everything is cleared and loaded again.
LEMMA SelectionMoves ==
    ASSUME ShapeInv, BoundInv, MoveKey
    PROVE  /\ m' \in ModelType /\ InList(m') /\ Screen(m') = {None}
           /\ m'.streamsFetching = m.streamsFetching
           /\ m'.consumerPollFetching = m.consumerPollFetching
           /\ fresh' \in [Kind -> SUBSET Stream] /\ late' \in [Kind -> [Stream -> Nat]]
           /\ Selected' \in Stream
           /\ \A k \in Kind : /\ Selected' \in fresh'[k]
                              /\ \A t \in Stream :
                                   late'[k][t] <= MaxLate \/ late'[k][t] = late[k][t]
<1>1. PICK i \in ({m.selected + 1} \cap 0..(Len(m.streams) - 1))
                   \cup (IF m.selected > 0 THEN {m.selected - 1} ELSE {}) :
        LET n == [Cleared(m) EXCEPT !.selected = i,
                                    !.subjectsLoading = TRUE, !.consumersLoading = TRUE]
        IN  m' = n /\ Load(Kind, SelectedStream(n))
  BY DEF MoveKey
<1> DEFINE c == Cleared(m)
<1>2. /\ c \in ModelType /\ Screen(c) = {None}
      /\ c.streamsFetching = m.streamsFetching
      /\ c.consumerPollFetching = m.consumerPollFetching
      /\ c.streams = m.streams
  BY Clearing DEF ShapeInv
<1>3. /\ m' = [c EXCEPT !.selected = i, !.subjectsLoading = TRUE, !.consumersLoading = TRUE]
      /\ Load(Kind, SelectedStream(m'))
  BY <1>1
<1> HIDE DEF c
<1>4. /\ m.streams \in Seq(Stream) /\ m.selected \in Nat
      /\ m.selected = 0 \/ m.selected < Len(m.streams)
      /\ m.streams \in Lists \cup {<<>>}
  BY DEF ShapeInv, BoundInv, InList, ModelType
<1>5. /\ Len(m.streams) \in Nat /\ DOMAIN m.streams = 1..Len(m.streams)
      /\ i \in Nat /\ i < Len(m.streams)
  BY <1>4, LenProperties
<1>6. /\ m' \in ModelType /\ InList(m') /\ Screen(m') = {None}
      /\ m'.streamsFetching = m.streamsFetching
      /\ m'.consumerPollFetching = m.consumerPollFetching
      /\ Selected' = SelectedStream(m')
      /\ m'.streams = m.streams /\ m'.selected = i
  BY <1>2, <1>3, <1>4, <1>5 DEF ModelType, InList, Screen, Selected, SelectedStream
<1>7. Selected' = m.streams[i + 1] /\ m.streams[i + 1] \in Stream
  BY <1>4, <1>5, <1>6 DEF SelectedStream
<1> QED BY <1>3, <1>6, <1>7, Loading

IInv == ShapeInv /\ BoundInv /\ ShowsSelected /\ OneAtATime /\ LoadingIsLoading

\* What is on the screen is the selected stream's.
LEMMA ScreenShown == ShowsSelected <=> Screen(m) \subseteq {Selected, None}
BY DEF ShowsSelected, Screen

\* The program starts with nothing on the screen, one list in flight and one command waiting.
LEMMA InitIInv == Init => IInv
<1> SUFFICES ASSUME Init PROVE IInv
  OBVIOUS
<1>1. ShapeInv /\ BoundInv
  <2>1. m \in ModelType /\ InList(m)
    BY EmptySeq DEF Init, ModelType, Shown, InList
  <2>2. /\ fresh \in [Kind -> SUBSET Stream] /\ late \in [Kind -> [Stream -> Nat]]
        /\ \A k \in Kind, s \in Stream : late[k][s] <= MaxLate
        /\ lists \in Nat /\ polls \in [Stream -> Nat] /\ waits \in Nat
    BY TuiAssumption DEF Init
  <2>3. events \in Seq(Subscribed) /\ Len(events) <= ChannelCap
    BY TuiAssumption, EmptySeq DEF Init
  <2> QED BY <2>1, <2>2, <2>3 DEF ShapeInv, BoundInv
<1>2. ShowsSelected
  BY DEF Init, ShowsSelected
<1>3. OneAtATime /\ LoadingIsLoading
  BY DEF Init, OneAtATime, LoadingIsLoading
<1> QED BY <1>1, <1>2, <1>3 DEF IInv

\* Timers, the refresh key, and events that arrive or are shown.
LEMMA TimerAndEventSteps ==
    ASSUME IInv,
           \/ AnimationTick \/ RefreshTick \/ RefreshKey \/ PublishEvent
           \/ \E s \in Stream : PublishCallback(s)
    PROVE  IInv'
<1> USE DEF IInv
<1>1. Selected \in Shown
  BY SelectedType DEF Selected, ShapeInv
<1>2. CASE AnimationTick
  <2>1. /\ m' \in ModelType /\ InList(m') /\ Selected' = Selected
        /\ Screen(m') \subseteq Screen(m)
        /\ m'.streamsFetching = m.streamsFetching
        /\ m'.consumerPollFetching = m.consumerPollFetching
        /\ m'.subjectsLoading = m.subjectsLoading /\ m'.consumersLoading = m.consumersLoading
    BY ZenonT(60), <1>2 DEF AnimationTick, ShapeInv, BoundInv, InList, ModelType, Screen,
                            Selected, SelectedStream
  <2>2. UNCHANGED <<lists, fresh, late, polls, waits, events>>
    BY <1>2 DEF AnimationTick
  <2>3. ShowsSelected'
    BY <2>1, ScreenShown DEF Screen, ShowsSelected
  <2> QED BY <2>1, <2>2, <2>3 DEF ShapeInv, BoundInv, OneAtATime, LoadingIsLoading
<1>3. CASE RefreshTick
  <2> DEFINE poll == ~m.consumerPollFetching /\ Selected # None /\ m.consumers # None
  <2>1. /\ m' \in ModelType /\ InList(m') /\ Selected' = Selected
        /\ Screen(m') = Screen(m)
        /\ m'.streamsFetching
        /\ m'.consumerPollFetching <=> m.consumerPollFetching \/ poll
        /\ m'.subjectsLoading = m.subjectsLoading /\ m'.consumersLoading = m.consumersLoading
    BY <1>3 DEF RefreshTick, ShapeInv, BoundInv, InList, ModelType, Screen, Selected,
                SelectedStream
  <2>2. /\ UNCHANGED <<fresh, late, waits, events>>
        /\ lists' = IF m.streamsFetching THEN lists ELSE lists + 1
        /\ polls' = IF poll THEN [polls EXCEPT ![Selected] = @ + 1] ELSE polls
    BY <1>3 DEF RefreshTick
  <2>3. ShowsSelected'
    BY <2>1, ScreenShown DEF Screen, ShowsSelected
  <2>4. lists' = 1
    BY <2>2 DEF OneAtATime
  <2>5. /\ polls' \in [Stream -> Nat]
        /\ IF m'.consumerPollFetching
             THEN \E s \in Stream : polls' = [t \in Stream |-> IF t = s THEN 1 ELSE 0]
             ELSE polls' = [t \in Stream |-> 0]
    <3>1. CASE poll
      <4>1. Selected \in Stream /\ polls = [t \in Stream |-> 0]
        BY <1>1, <3>1 DEF OneAtATime, Shown
      <4>2. polls' = [t \in Stream |-> IF t = Selected THEN 1 ELSE 0]
        BY <2>2, <3>1, <4>1
      <4> QED BY <2>1, <3>1, <4>1, <4>2
    <3>2. CASE ~poll
      BY <2>1, <2>2, <3>2 DEF OneAtATime, ShapeInv
    <3> QED BY <3>1, <3>2
  <2> QED BY <2>1, <2>2, <2>3, <2>4, <2>5 DEF ShapeInv, BoundInv, OneAtATime, LoadingIsLoading
<1>4. CASE RefreshKey
  <2>1. /\ m' \in ModelType /\ InList(m') /\ Selected' = Selected
        /\ Screen(m') = Screen(m)
        /\ ~m.streamsFetching /\ m'.streamsFetching
        /\ m'.consumerPollFetching = m.consumerPollFetching
        /\ m'.subjectsLoading = m.subjectsLoading /\ m'.consumersLoading = m.consumersLoading
    BY <1>4 DEF RefreshKey, ShapeInv, BoundInv, InList, ModelType, Screen, Selected,
                SelectedStream
  <2>2. UNCHANGED <<fresh, late, polls, waits, events>> /\ lists' = 1
    BY <1>4 DEF RefreshKey, OneAtATime
  <2>3. ShowsSelected'
    BY <2>1, ScreenShown DEF Screen, ShowsSelected
  <2> QED BY <2>1, <2>2, <2>3 DEF ShapeInv, BoundInv, OneAtATime, LoadingIsLoading
<1>5. CASE PublishEvent
  <2> DEFINE s == Head(events)
  <2>1. /\ events # <<>> /\ events' = Tail(events)
        /\ UNCHANGED <<lists, fresh, late, polls, waits>>
        /\ m' = IF s # Selected THEN m
                ELSE [m EXCEPT !.publishParticles = @ \cup {s}, !.newEvent = s]
    BY <1>5 DEF PublishEvent
  <2>2. /\ s \in Stream /\ events' \in Seq(Subscribed) /\ Len(events') <= ChannelCap
    <3>1. events \in Seq(Subscribed) /\ Len(events) <= ChannelCap /\ ChannelCap \in Nat
      BY TuiAssumption DEF ShapeInv, BoundInv
    <3>2. /\ Head(events) \in Subscribed /\ Tail(events) \in Seq(Subscribed)
          /\ Len(Tail(events)) = Len(events) - 1 /\ Len(events) \in Nat
      BY <2>1, <3>1, HeadTailProperties, LenProperties
    <3> QED BY <2>1, <3>1, <3>2, TuiAssumption
  <2> HIDE DEF s
  <2>3. /\ m' \in ModelType /\ InList(m') /\ Selected' = Selected
        /\ Screen(m') \subseteq Screen(m) \cup {Selected}
        /\ m'.streamsFetching = m.streamsFetching
        /\ m'.consumerPollFetching = m.consumerPollFetching
        /\ m'.subjectsLoading = m.subjectsLoading /\ m'.consumersLoading = m.consumersLoading
    <3>1. CASE s # Selected
      BY <2>1, <3>1 DEF ShapeInv, BoundInv, Selected
    <3>2. CASE s = Selected
      <4>1. m' = [m EXCEPT !.publishParticles = m.publishParticles \cup {s}, !.newEvent = s]
        BY <2>1, <3>2
      <4>2. /\ m' \in ModelType /\ InList(m') /\ Selected' = Selected
            /\ Screen(m') \subseteq Screen(m) \cup {s}
        BY <2>2, <4>1 DEF ShapeInv, BoundInv, InList, ModelType, Shown, Screen, Selected,
                          SelectedStream
      <4>3. /\ m'.streamsFetching = m.streamsFetching
            /\ m'.consumerPollFetching = m.consumerPollFetching
            /\ m'.subjectsLoading = m.subjectsLoading
            /\ m'.consumersLoading = m.consumersLoading
        BY <4>1 DEF ShapeInv, ModelType
      <4> QED BY <3>2, <4>2, <4>3
    <3> QED BY <3>1, <3>2
  <2>4. ShowsSelected'
    BY <2>3, ScreenShown DEF Screen, ShowsSelected
  <2> QED BY <2>1, <2>2, <2>3, <2>4 DEF ShapeInv, BoundInv, OneAtATime, LoadingIsLoading
<1>6. ASSUME NEW s \in Stream, PublishCallback(s) PROVE IInv'
  <2>1. /\ UNCHANGED <<m, lists, fresh, late, polls, waits>>
        /\ s \in Subscribed /\ Len(events) < ChannelCap /\ events' = Append(events, s)
    BY <1>6 DEF PublishCallback
  <2>2. events' \in Seq(Subscribed) /\ Len(events') <= ChannelCap
    <3>1. events \in Seq(Subscribed) /\ Len(events) \in Nat /\ ChannelCap \in Nat
      BY TuiAssumption, LenProperties DEF ShapeInv
    <3>2. Append(events, s) \in Seq(Subscribed) /\ Len(Append(events, s)) = Len(events) + 1
      BY <2>1, <3>1
    <3> QED BY <2>1, <3>1, <3>2
  <2> QED BY <2>1, <2>2 DEF ShapeInv, BoundInv, InList, ShowsSelected, OneAtATime,
                            LoadingIsLoading, Selected
<1> QED BY <1>2, <1>3, <1>4, <1>5, <1>6

\* Results of loads and polls, for the selected stream or for another.
LEMMA ResultSteps ==
    ASSUME IInv, NEW s \in Stream,
           SubjectsLoaded(s) \/ ConsumersLoaded(s) \/ SnapshotsLoaded(s)
    PROVE  IInv'
<1> USE DEF IInv
<1>1. CASE SubjectsLoaded(s)
  <2>1. /\ LoadEnds("subjects", s) /\ UNCHANGED <<lists, polls, waits, events>>
        /\ s # Selected => m' = m
        /\ s = Selected => m' = [m EXCEPT !.subjectsLoading = FALSE, !.subjects = s]
    BY <1>1 DEF SubjectsLoaded, LoadEnds
  <2>2. /\ fresh' \in [Kind -> SUBSET Stream] /\ late' \in [Kind -> [Stream -> Nat]]
        /\ \A j \in Kind, t \in Stream : j # "subjects" \/ t # s =>
             (t \in fresh[j] => t \in fresh'[j]) /\ late'[j][t] = late[j][t]
        /\ \A j \in Kind, t \in Stream : late'[j][t] <= late[j][t]
    BY <2>1, Ending DEF Kind
  <2>3. /\ m' \in ModelType /\ InList(m') /\ Selected' = Selected
        /\ Screen(m') \subseteq Screen(m) \cup {Selected}
        /\ m'.streamsFetching = m.streamsFetching
        /\ m'.consumerPollFetching = m.consumerPollFetching
        /\ m'.subjectsLoading => m.subjectsLoading /\ Selected # s
        /\ m'.consumersLoading = m.consumersLoading
    <3>1. CASE s # Selected
      BY <2>1, <3>1 DEF ShapeInv, BoundInv, Selected
    <3>2. CASE s = Selected
      BY ZenonT(60), <2>1, <3>2 DEF ShapeInv, BoundInv, InList, ModelType, Shown, Screen,
                                    Selected, SelectedStream
    <3> QED BY <3>1, <3>2
  <2>4. ShowsSelected'
    BY <2>3, ScreenShown DEF Screen, ShowsSelected
  <2>5. \A k \in Kind, t \in Stream : late'[k][t] <= MaxLate
    BY <2>2, TuiAssumption DEF ShapeInv, BoundInv
  <2>6. LoadingIsLoading'
    BY <2>2, <2>3, SelectedType DEF LoadingIsLoading, Kind, Selected, Shown
  <2> QED BY <2>1, <2>2, <2>3, <2>4, <2>5, <2>6 DEF ShapeInv, BoundInv, OneAtATime
<1>2. CASE ConsumersLoaded(s)
  <2>1. /\ LoadEnds("consumers", s) /\ UNCHANGED <<lists, polls, waits, events>>
        /\ s # Selected => m' = m
        /\ s = Selected =>
             \/ m' = [m EXCEPT !.consumersLoading = FALSE, !.consumers = s]
             \/ m' = [m EXCEPT !.consumersLoading = FALSE, !.consumers = None,
                               !.consumerSnapshots = None, !.consumerParticles = {}]
    BY <1>2 DEF ConsumersLoaded, LoadEnds
  <2>2. /\ fresh' \in [Kind -> SUBSET Stream] /\ late' \in [Kind -> [Stream -> Nat]]
        /\ \A j \in Kind, t \in Stream : j # "consumers" \/ t # s =>
             (t \in fresh[j] => t \in fresh'[j]) /\ late'[j][t] = late[j][t]
        /\ \A j \in Kind, t \in Stream : late'[j][t] <= late[j][t]
    BY <2>1, Ending DEF Kind
  <2>3. /\ m' \in ModelType /\ InList(m') /\ Selected' = Selected
        /\ Screen(m') \subseteq Screen(m) \cup {Selected, None}
        /\ m'.streamsFetching = m.streamsFetching
        /\ m'.consumerPollFetching = m.consumerPollFetching
        /\ m'.consumersLoading => m.consumersLoading /\ Selected # s
        /\ m'.subjectsLoading = m.subjectsLoading
    <3>1. CASE s # Selected
      BY <2>1, <3>1 DEF ShapeInv, BoundInv, Selected
    <3>2. CASE s = Selected
      BY ZenonT(60), <2>1, <3>2 DEF ShapeInv, BoundInv, InList, ModelType, Shown, Screen,
                                    Selected, SelectedStream
    <3> QED BY <3>1, <3>2
  <2>4. ShowsSelected'
    BY <2>3, ScreenShown DEF Screen, ShowsSelected
  <2>5. \A k \in Kind, t \in Stream : late'[k][t] <= MaxLate
    BY <2>2, TuiAssumption DEF ShapeInv, BoundInv
  <2>6. LoadingIsLoading'
    BY <2>2, <2>3, SelectedType DEF LoadingIsLoading, Kind, Selected, Shown
  <2> QED BY <2>1, <2>2, <2>3, <2>4, <2>5, <2>6 DEF ShapeInv, BoundInv, OneAtATime
<1>3. CASE SnapshotsLoaded(s)
  <2> DEFINE done == [m EXCEPT !.consumerPollFetching = FALSE]
  <2>1. /\ UNCHANGED <<lists, fresh, late, waits, events>>
        /\ polls[s] > 0 /\ polls' = [polls EXCEPT ![s] = @ - 1]
        /\ \/ m' = done
           \/ s = Selected /\ m' = [done EXCEPT !.consumerSnapshotsErr = s]
           \/ /\ s = Selected
              /\ \E moved \in {{}, {s}} :
                   m' = [done EXCEPT !.consumerSnapshotsErr = None, !.consumerSnapshots = s,
                                     !.consumerParticles = @ \cup moved]
    BY <1>3 DEF SnapshotsLoaded
  <2>2. /\ m' \in ModelType /\ InList(m') /\ Selected' = Selected
        /\ Screen(m') \subseteq Screen(m) \cup {Selected, None}
        /\ m'.streamsFetching = m.streamsFetching
        /\ ~m'.consumerPollFetching
        /\ m'.consumersLoading = m.consumersLoading
        /\ m'.subjectsLoading = m.subjectsLoading
    <3>1. CASE m' = done
      BY <3>1 DEF ShapeInv, BoundInv, InList, ModelType, Shown, Screen, Selected,
                  SelectedStream
    <3>2. CASE s = Selected /\ m' = [done EXCEPT !.consumerSnapshotsErr = s]
      BY ZenonT(60), <3>2 DEF ShapeInv, BoundInv, InList, ModelType, Shown, Screen, Selected,
                           SelectedStream
    <3>3. ASSUME NEW moved \in {{}, {s}}, s = Selected,
                 m' = [done EXCEPT !.consumerSnapshotsErr = None, !.consumerSnapshots = s,
                                   !.consumerParticles = @ \cup moved]
          PROVE  /\ m' \in ModelType /\ InList(m') /\ Selected' = Selected
                 /\ Screen(m') \subseteq Screen(m) \cup {Selected, None}
                 /\ m'.streamsFetching = m.streamsFetching
                 /\ ~m'.consumerPollFetching
                 /\ m'.consumersLoading = m.consumersLoading
                 /\ m'.subjectsLoading = m.subjectsLoading
      BY ZenonT(60), <3>3 DEF ShapeInv, BoundInv, InList, ModelType, Shown, Screen, Selected,
                           SelectedStream
    <3> QED BY <2>1, <3>1, <3>2, <3>3
  <2>3. ShowsSelected'
    BY <2>2, ScreenShown DEF Screen, ShowsSelected
  <2>4. polls' = [t \in Stream |-> 0]
    <3>1. PICK t \in Stream : polls = [x \in Stream |-> IF x = t THEN 1 ELSE 0]
      BY <2>1 DEF OneAtATime
    <3>2. t = s
      BY <2>1, <3>1
    <3> QED BY <2>1, <3>1, <3>2
  <2>5. polls' \in [Stream -> Nat]
    BY <2>4
  <2>6. ShapeInv' /\ BoundInv'
    BY <2>1, <2>2, <2>5 DEF ShapeInv, BoundInv
  <2>7. OneAtATime'
    BY <2>1, <2>2, <2>4 DEF OneAtATime
  <2>8. LoadingIsLoading'
    BY <2>1, <2>2 DEF LoadingIsLoading
  <2> QED BY <2>3, <2>6, <2>7, <2>8
<1> QED BY <1>1, <1>2, <1>3

\* A list, and a move of the selection.
LEMMA SelectionSteps ==
    ASSUME IInv, StreamsLoaded \/ MoveKey
    PROVE  IInv'
<1> USE DEF IInv
<1>1. CASE StreamsLoaded
  <2>1. lists > 0 /\ lists' = lists - 1 /\ UNCHANGED <<polls, waits, events>>
    BY <1>1 DEF StreamsLoaded
  <2>2. /\ m' \in ModelType /\ InList(m')
        /\ ~m'.streamsFetching /\ m'.consumerPollFetching = m.consumerPollFetching
        /\ Screen(m') = {None} \/ (Selected' = Selected /\ Screen(m') = Screen(m))
        /\ fresh' \in [Kind -> SUBSET Stream] /\ late' \in [Kind -> [Stream -> Nat]]
        /\ \A k \in Kind, t \in Stream : late'[k][t] <= MaxLate \/ late'[k][t] = late[k][t]
    BY <1>1, ListArrives
  <2>3. ShowsSelected'
    BY <2>2, ScreenShown DEF Screen, ShowsSelected
  <2>4. LoadingIsLoading'
    <3>1. Selected \in Shown
      BY SelectedType DEF ShapeInv, Selected
    <3>2. /\ fresh["subjects"] \subseteq fresh'["subjects"]
          /\ fresh["consumers"] \subseteq fresh'["consumers"]
          /\ \A t \in Stream : /\ late["subjects"][t] > 0 => late'["subjects"][t] > 0
                               /\ late["consumers"][t] > 0 => late'["consumers"][t] > 0
      BY <1>1, ListArrives DEF Kind
    <3>3. /\ m'.subjectsLoading => \/ Selected' = Selected /\ m.subjectsLoading
                                   \/ Selected' \in Stream /\ Selected' \in fresh'["subjects"]
          /\ m'.consumersLoading => \/ Selected' = Selected /\ m.consumersLoading
                                    \/ Selected' \in Stream /\ Selected' \in fresh'["consumers"]
      BY <1>1, ListArrives
    <3> QED BY <3>1, <3>2, <3>3, TuiAssumption DEF LoadingIsLoading, Shown
  <2>5. \A k \in Kind, t \in Stream : late'[k][t] <= MaxLate
    BY <2>2 DEF BoundInv
  <2>6. lists' = 0
    BY <2>1 DEF OneAtATime
  <2> QED BY <2>1, <2>2, <2>3, <2>4, <2>5, <2>6 DEF ShapeInv, BoundInv, OneAtATime
<1>2. CASE MoveKey
  <2>1. UNCHANGED <<lists, polls, waits, events>>
    BY <1>2 DEF MoveKey
  <2>2. /\ m' \in ModelType /\ InList(m') /\ Screen(m') = {None}
        /\ m'.streamsFetching = m.streamsFetching
        /\ m'.consumerPollFetching = m.consumerPollFetching
        /\ fresh' \in [Kind -> SUBSET Stream] /\ late' \in [Kind -> [Stream -> Nat]]
        /\ Selected' \in Stream
        /\ Selected' \in fresh'["subjects"] /\ Selected' \in fresh'["consumers"]
        /\ \A k \in Kind, t \in Stream : late'[k][t] <= MaxLate \/ late'[k][t] = late[k][t]
    BY <1>2, SelectionMoves DEF Kind
  <2>3. ShowsSelected'
    BY <2>2, ScreenShown DEF Screen, ShowsSelected
  <2>4. LoadingIsLoading'
    BY <2>2, TuiAssumption DEF LoadingIsLoading
  <2>5. \A k \in Kind, t \in Stream : late'[k][t] <= MaxLate
    BY <2>2 DEF BoundInv
  <2> QED BY <2>1, <2>2, <2>3, <2>4, <2>5 DEF ShapeInv, BoundInv, OneAtATime
<1> QED BY <1>1, <1>2

\* The inductive invariant holds in every reachable state.
THEOREM TuiInductive == Spec => []IInv
<1>1. IInv /\ [Next]_vars => IInv'
  <2> SUFFICES ASSUME IInv, [Next]_vars PROVE IInv'
    OBVIOUS
  <2>1. CASE Next
    BY <2>1, TimerAndEventSteps, ResultSteps, SelectionSteps DEF Next
  <2>2. CASE UNCHANGED vars
    BY <2>2 DEF vars, IInv, ShapeInv, BoundInv, InList, ShowsSelected, OneAtATime,
                LoadingIsLoading, Selected
  <2> QED BY <2>1, <2>2
<1> QED BY <1>1, InitIInv, PTL DEF Spec

\* The model and what is in flight keep their types, and the selection is in the list.
THEOREM TuiTypeCorrect == Spec => []TypeOK
<1>1. IInv => TypeOK
  <2> SUFFICES ASSUME ShapeInv, BoundInv PROVE TypeOK
    BY DEF IInv
  <2>1. /\ m.streams \in Lists \cup {<<>>}
        /\ m.selected \in 0..(IF m.streams = <<>> THEN 0 ELSE Len(m.streams) - 1)
    <3>1. /\ m.streams \in Seq(Stream) /\ m.selected \in Nat
          /\ m.selected = 0 \/ m.selected < Len(m.streams)
          /\ m.streams \in Lists \cup {<<>>}
      BY DEF ShapeInv, BoundInv, InList, ModelType
    <3>2. m.streams # <<>> => Len(m.streams) \in Nat \ {0}
      BY <3>1, EmptySeq
    <3>3. m.streams = <<>> => Len(m.streams) = 0
      BY EmptySeq
    <3> QED BY <3>1, <3>2, <3>3
  <2>2. {m.streamsLoading, m.streamsFetching, m.subjectsLoading, m.consumersLoading,
         m.consumerPollFetching} \subseteq BOOLEAN
    BY DEF ShapeInv, ModelType
  <2>3. late \in [Kind -> [Stream -> 0..MaxLate]]
    <3>1. \A k \in Kind : late[k] \in [Stream -> 0..MaxLate]
      <4> SUFFICES ASSUME NEW k \in Kind PROVE late[k] \in [Stream -> 0..MaxLate]
        OBVIOUS
      <4>1. late[k] \in [Stream -> Nat] /\ \A s \in Stream : late[k][s] <= MaxLate
        BY DEF ShapeInv, BoundInv
      <4> QED BY <4>1, TuiAssumption
    <3> QED BY <3>1 DEF ShapeInv
  <2> QED BY <2>1, <2>2, <2>3 DEF ShapeInv, BoundInv, TypeOK
<1> QED BY <1>1, TuiInductive, PTL

\* Whatever the order of results and events, the screen shows the selected stream only.
THEOREM OnlySelectedShown == Spec => []ShowsSelected
<1>1. IInv => ShowsSelected
  BY DEF IInv
<1> QED BY <1>1, TuiInductive, PTL

\* One list and one poll are in flight when they are marked, none otherwise, and one
\* command waits for events.
THEOREM PolledOneAtATime == Spec => []OneAtATime
<1>1. IInv => OneAtATime
  BY DEF IInv
<1> QED BY <1>1, TuiInductive, PTL

\* What is marked as loading is being loaded for the selected stream.
THEOREM LoadingMarksTrue == Spec => []LoadingIsLoading
<1>1. IInv => LoadingIsLoading
  BY DEF IInv
<1> QED BY <1>1, TuiInductive, PTL
================================================================================
