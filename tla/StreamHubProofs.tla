-------------------------- MODULE StreamHubProofs --------------------------
(* What holds of StreamHub for any number of subscribers, topics, breaks. *)
EXTENDS StreamHub, TLAPS

\* Every step of the hub keeps TypeOK.
LEMMA TypeStep == TypeOK /\ [Next]_vars => TypeOK'
<1> SUFFICES ASSUME TypeOK, [Next]_vars
             PROVE  TypeOK'
  OBVIOUS
<1> USE StreamHubAssumption DEF connVars
<1>1. ASSUME NEW s \in Sub, NEW t \in Topic, Subscribe(s, t)
      PROVE  TypeOK'
  <2>1. topic[s] = NoTopic
    BY <1>1 DEF Subscribe, TypeOK
  <2>2. \A u \in Topic : _queues'[u] = {r \in Sub : topic'[r] = u}
    BY <1>1, <2>1 DEF Subscribe, TypeOK
  <2>3. \A r \in Sub : topic'[r] = NoTopic <=> sub'[r] \in {"idle", "leaving"}
    BY <1>1 DEF Subscribe, TypeOK
  <2>4. /\ _queues' \in [Topic -> SUBSET Sub]
        /\ topic' \in [Sub -> Topic \union {NoTopic}]
        /\ sub' \in [Sub -> SubState]
        /\ run' \in RunState
    BY <1>1 DEF Subscribe, TypeOK, SubState, RunState
  <2> QED
    BY <1>1, <2>2, <2>3, <2>4 DEF Subscribe, TypeOK
<1>2. ASSUME NEW s \in Sub, EnterWait(s) \/ SubscribeReturns(s) \/ SubscribeTimesOut(s)
                            \/ SubscribeCancelled(s) \/ UnsubscribeReturns(s)
      PROVE  TypeOK'
  BY <1>2 DEF EnterWait, SubscribeReturns, SubscribeTimesOut, SubscribeCancelled,
     UnsubscribeReturns, TypeOK, SubState
<1>3. ASSUME NEW s \in Sub, SubscribeResumes(s)
      PROVE  TypeOK'
  <2>1. topic[s] \in Topic
    BY <1>3 DEF SubscribeResumes, TypeOK
  <2> QED
    BY <1>3, <2>1 DEF SubscribeResumes, TypeOK, SubState
<1>4. ASSUME NEW s \in Sub, Unsubscribe(s)
      PROVE  TypeOK'
  <2>1. topic[s] \in Topic
    BY <1>4 DEF Unsubscribe, TypeOK
  <2>2. \A u \in Topic : _queues'[u] = {r \in Sub : topic'[r] = u}
    BY <1>4, <2>1 DEF Unsubscribe, WithoutQueue, TypeOK
  <2>3. \A r \in Sub : topic'[r] = NoTopic <=> sub'[r] \in {"idle", "leaving"}
    BY <1>4 DEF Unsubscribe, TypeOK
  <2>4. /\ _queues' \in [Topic -> SUBSET Sub]
        /\ topic' \in [Sub -> Topic \union {NoTopic}]
        /\ sub' \in [Sub -> SubState]
    BY <1>4, <2>1 DEF Unsubscribe, WithoutQueue, TypeOK, SubState
  <2>5. _subscribed_topics' \subseteq Topic /\ upstream' \subseteq Topic
    BY <1>4 DEF Unsubscribe, Discard, TypeOK
  <2> QED
    BY <1>4, <2>2, <2>3, <2>4, <2>5 DEF Unsubscribe, TypeOK
<1>5. CASE Connects \/ Connected
  <2>1. WakeAll \in [Sub -> SubState]
    BY DEF WakeAll, TypeOK, SubState
  <2>2. \A s \in Sub : topic[s] = NoTopic <=> WakeAll[s] \in {"idle", "leaving"}
    BY DEF WakeAll, TypeOK
  <2>3. Topics \subseteq Topic
    BY DEF Topics
  <2>4. _connected' \in BOOLEAN
    BY <1>5 DEF Connects, Connected, TypeOK
  <2>5. /\ run' \in RunState /\ _ws' \in {"none", "open", "broken"}
        /\ sub' = WakeAll \/ sub' = sub
        /\ UNCHANGED <<_queues, _closed, cancelled, topic, breaks>>
    BY <1>5 DEF Connects, Connected, TypeOK, RunState
  <2>6. upstream' \subseteq Topic /\ pending' \subseteq Topic /\ _subscribed_topics' \subseteq Topic
    BY <1>5, <2>3 DEF Connects, Connected, TypeOK
  <2> QED
    BY <2>1, <2>2, <2>4, <2>5, <2>6 DEF TypeOK
<1>6. CASE Resubscribes
  BY <1>6 DEF Resubscribes, TypeOK
<1>7. CASE ConnectFails \/ ReadEnds \/ SocketClosed \/ Reconnects \/ RunCancelled
  <2>1. _connected' \in BOOLEAN
    BY <1>7 DEF ConnectFails, ReadEnds, SocketClosed, Reconnects, RunCancelled, TypeOK
  <2>2. /\ run' \in RunState /\ _ws' \in {"none", "open", "broken"}
        /\ pending' \subseteq Topic /\ upstream' \subseteq Topic
        /\ UNCHANGED <<_queues, _subscribed_topics, _closed, cancelled, sub, topic, breaks>>
    BY <1>7 DEF ConnectFails, ReadEnds, SocketClosed, Retries, Reconnects, RunCancelled,
       TypeOK, RunState
  <2> QED
    BY <2>1, <2>2 DEF TypeOK
<1>8. CASE Breaks
  BY <1>8 DEF Breaks, TypeOK
<1>9. CASE Close
  BY <1>9 DEF Close, CancelsRun, TypeOK
<1>10. CASE UNCHANGED vars
  BY <1>10 DEF vars, TypeOK
<1> QED
  BY <1>1, <1>2, <1>3, <1>4, <1>5, <1>6, <1>7, <1>8, <1>9, <1>10
  DEF Next, SubStep, RunStep

\* TypeOK holds initially.
LEMMA TypeInit == Init => TypeOK
<1> SUFFICES ASSUME Init
             PROVE  TypeOK
  OBVIOUS
<1>1. _connected \in BOOLEAN /\ _closed \in BOOLEAN /\ cancelled \in BOOLEAN
  BY DEF Init
<1>2. /\ _queues \in [Topic -> SUBSET Sub]
      /\ sub \in [Sub -> SubState]
      /\ topic \in [Sub -> Topic \union {NoTopic}]
      /\ breaks \in 0..MaxBreaks
      /\ run \in RunState /\ _ws \in {"none", "open", "broken"}
  BY StreamHubAssumption DEF Init, SubState, RunState
<1>3. /\ \A t \in Topic : _queues[t] = {s \in Sub : topic[s] = t}
      /\ \A s \in Sub : topic[s] = NoTopic <=> sub[s] \in {"idle", "leaving"}
  BY StreamHubAssumption DEF Init
<1> QED
  BY <1>1, <1>2, <1>3 DEF Init, TypeOK

\* TypeOK holds in every state of the hub: among others, a topic's queues are
\* exactly those of the generators that hold it.
THEOREM TypeCorrect == Spec => []TypeOK
<1> QED
  BY TypeInit, TypeStep, PTL DEF Spec

-----------------------------------------------------------------------------
(* The connection invariant *)

\* The event is set exactly while _run reads, and a socket is in use only from
\* its opening to the end of the read loop.
EventAndSocket ==
    /\ _connected <=> run = "reading"
    /\ _ws # "none" => run \in {"resubscribing", "reading"}

\* The exchange streams nothing without a connection; on an intact one it
\* streams, or _run is about to request, all the hub believes in.
Promises ==
    /\ _ws # "open" => upstream = {}
    /\ _ws = "open" => _subscribed_topics \subseteq upstream \union pending
    /\ run # "resubscribing" => pending = {}

\* Once the hub is closed its task is cancelled, if it ever had one.
ClosedMeansCancelled == _closed => run = "none" \/ cancelled

HubInv ==
    /\ TypeOK
    /\ _subscribed_topics \subseteq Topics
    /\ EventAndSocket
    /\ Promises
    /\ ClosedMeansCancelled

\* Every step of the hub keeps the connection invariant.
LEMMA HubStep == HubInv /\ [Next]_vars => HubInv'
<1> SUFFICES ASSUME HubInv, [Next]_vars
             PROVE  HubInv'
  OBVIOUS
<1> USE StreamHubAssumption DEF connVars
<1>0. TypeOK /\ TypeOK'
  BY TypeStep DEF HubInv
<1>1. ASSUME NEW s \in Sub, NEW t \in Topic, Subscribe(s, t)
      PROVE  HubInv'
  <2>1. Topics \subseteq Topics'
    BY <1>0, <1>1 DEF Subscribe, Topics, TypeOK
  <2>2. _subscribed_topics' \subseteq Topics'
    BY <1>1, <2>1 DEF Subscribe, HubInv
  <2>3. EventAndSocket' /\ Promises' /\ ClosedMeansCancelled'
    BY <1>1 DEF Subscribe, StartsRun, HubInv, EventAndSocket, Promises, ClosedMeansCancelled
  <2> QED
    BY <1>0, <2>2, <2>3 DEF HubInv
<1>2. ASSUME NEW s \in Sub, EnterWait(s) \/ SubscribeReturns(s) \/ SubscribeTimesOut(s)
                            \/ SubscribeCancelled(s) \/ UnsubscribeReturns(s)
      PROVE  HubInv'
  <2>1. UNCHANGED <<connVars, _queues, _subscribed_topics, _closed, run, cancelled>>
    BY <1>2 DEF EnterWait, SubscribeReturns, SubscribeTimesOut, SubscribeCancelled,
       UnsubscribeReturns
  <2> QED
    BY <1>0, <2>1 DEF HubInv, Topics, EventAndSocket, Promises, ClosedMeansCancelled
<1>3. ASSUME NEW s \in Sub, SubscribeResumes(s)
      PROVE  HubInv'
  <2>1. topic[s] \in Topics
    BY <1>0, <1>3 DEF SubscribeResumes, Topics, TypeOK
  <2>2. _subscribed_topics' \subseteq Topics'
    BY <1>3, <2>1 DEF SubscribeResumes, HubInv, Topics
  <2>3. EventAndSocket' /\ ClosedMeansCancelled'
    BY <1>3 DEF SubscribeResumes, HubInv, EventAndSocket, ClosedMeansCancelled
  <2>4. Promises'
    BY <1>3 DEF SubscribeResumes, SendNow, HubInv, Promises
  <2> QED
    BY <1>0, <2>2, <2>3, <2>4 DEF HubInv
<1>4. ASSUME NEW s \in Sub, Unsubscribe(s)
      PROVE  HubInv'
  <2>1. topic[s] \in Topic
    BY <1>0, <1>4 DEF Unsubscribe, TypeOK
  <2>2. _subscribed_topics' \subseteq Topics'
    BY <1>0, <1>4, <2>1 DEF Unsubscribe, Discard, WithoutQueue, HubInv, Topics, TypeOK
  <2>3. EventAndSocket' /\ ClosedMeansCancelled'
    BY <1>4 DEF Unsubscribe, HubInv, EventAndSocket, ClosedMeansCancelled
  <2>4. Promises'
    BY <1>4 DEF Unsubscribe, SendsUnsubscribe, Discard, HubInv, Promises
  <2> QED
    BY <1>0, <2>2, <2>3, <2>4 DEF HubInv
<1>5. CASE Connects
  <2>1. Topics' = Topics
    BY <1>5 DEF Connects, Topics
  <2> QED
    BY <1>0, <1>5, <2>1 DEF Connects, HubInv, EventAndSocket, Promises, ClosedMeansCancelled
<1>6. CASE Resubscribes \/ Connected
  <2>1. Topics' = Topics
    BY <1>6 DEF Resubscribes, Connected, Topics
  <2> QED
    BY <1>0, <1>6, <2>1 DEF Resubscribes, Connected, HubInv, EventAndSocket, Promises,
       ClosedMeansCancelled
<1>7. CASE ConnectFails \/ ReadEnds \/ SocketClosed \/ Reconnects \/ RunCancelled
  <2>1. Topics' = Topics
    BY <1>7 DEF ConnectFails, ReadEnds, SocketClosed, Reconnects, RunCancelled, Topics
  <2> QED
    BY <1>0, <1>7, <2>1 DEF ConnectFails, ReadEnds, SocketClosed, Retries, Reconnects,
       RunCancelled, HubInv, EventAndSocket, Promises, ClosedMeansCancelled
<1>8. CASE Breaks \/ Close \/ UNCHANGED vars
  <2>1. Topics' = Topics
    BY <1>8 DEF Breaks, Close, vars, Topics
  <2>2. EventAndSocket' /\ Promises' /\ _subscribed_topics' \subseteq Topics'
    BY <1>8, <2>1 DEF Breaks, Close, vars, HubInv, EventAndSocket, Promises
  <2>3. ClosedMeansCancelled'
    BY <1>8 DEF Breaks, Close, CancelsRun, vars, HubInv, ClosedMeansCancelled
  <2> QED
    BY <1>0, <2>2, <2>3 DEF HubInv
<1> QED
  BY <1>1, <1>2, <1>3, <1>4, <1>5, <1>6, <1>7, <1>8 DEF Next, SubStep, RunStep

\* The connection invariant holds in every reachable state.
LEMMA HubHolds == Spec => []HubInv
<1>1. Init => HubInv
  BY TypeInit DEF Init, HubInv, EventAndSocket, Promises, ClosedMeansCancelled
<1> QED
  BY <1>1, HubStep, PTL DEF Spec

\* What the hub believes it has subscribed to is a live topic, and on a set
\* and intact connection the exchange really streams it, whatever subscribe,
\* unsubscribe, timeouts, cancellations and reconnects came before.
THEOREM HubBeliefsAreTrue == Spec => []SubscriptionBookkeeping
<1>1. HubInv => SubscriptionBookkeeping
  BY DEF HubInv, SubscriptionBookkeeping, EventAndSocket, Promises
<1> QED
  BY <1>1, HubHolds, PTL

\* A hub that was closed and has no connection never opens one again.
THEOREM ClosedForGood == Spec => ClosedHubStaysDown
<1>1. ASSUME HubInv, [Next]_vars
      PROVE  [_closed /\ _ws = "none" => _ws' = "none"]_vars
  <2>1. _ws' = "open" /\ _ws # "open" => Connects
    BY <1>1 DEF Next, vars, connVars, SubStep, RunStep, Subscribe, EnterWait, SubscribeResumes,
       SubscribeReturns, SubscribeTimesOut, SubscribeCancelled, Unsubscribe,
       UnsubscribeReturns, Resubscribes, Connected, ConnectFails, Breaks, ReadEnds,
       SocketClosed, Reconnects, RunCancelled, Close
  <2>2. Connects => ~_closed
    BY <1>1 DEF Connects, HubInv, ClosedMeansCancelled
  <2>3. _ws' = "broken" => _ws # "none"
    BY <1>1 DEF Next, vars, connVars, SubStep, RunStep, Subscribe, EnterWait, SubscribeResumes,
       SubscribeReturns, SubscribeTimesOut, SubscribeCancelled, Unsubscribe,
       UnsubscribeReturns, Connects, Resubscribes, Connected, ConnectFails, Breaks, ReadEnds,
       SocketClosed, Reconnects, RunCancelled, Close
  <2>4. _ws' \in {"none", "open", "broken"}
    BY <1>1, HubStep DEF HubInv, TypeOK
  <2> QED
    BY <2>1, <2>2, <2>3, <2>4
<1> QED
  BY <1>1, HubHolds, PTL DEF Spec, ClosedHubStaysDown

\* While the event stays set no step leaves a topic streamed that nobody has a
\* queue for: an upstream subscription can leak only around a reconnect.
THEOREM NoLeakOnASetConnection == Spec => LeaksOnlyWhileResubscribing
<1>1. ASSUME HubInv, [Next]_vars
      PROVE  [_connected /\ _connected' /\ upstream \subseteq Topics
                 => upstream' \subseteq Topics']_vars
  <2> SUFFICES ASSUME _connected, _connected', upstream \subseteq Topics
               PROVE  upstream' \subseteq Topics'
    OBVIOUS
  <2> USE StreamHubAssumption DEF connVars
  <2>0. TypeOK /\ run = "reading"
    BY <1>1 DEF HubInv, EventAndSocket
  <2>1. ASSUME NEW s \in Sub, NEW t \in Topic, Subscribe(s, t)
        PROVE  upstream' \subseteq Topics'
    BY <2>0, <2>1 DEF Subscribe, Topics, TypeOK
  <2>2. ASSUME NEW s \in Sub, SubscribeResumes(s)
        PROVE  upstream' \subseteq Topics'
    BY <2>0, <2>2 DEF SubscribeResumes, Topics, TypeOK
  <2>3. ASSUME NEW s \in Sub, Unsubscribe(s)
        PROVE  upstream' \subseteq Topics'
    <3>1. topic[s] \in Topic
      BY <2>0, <2>3 DEF Unsubscribe, TypeOK
    <3>2. CASE _ws = "open"
      BY <2>0, <2>3, <3>1, <3>2
      DEF Unsubscribe, SendsUnsubscribe, WithoutQueue, Topics, TypeOK
    <3>3. CASE _ws # "open"
      BY <1>1, <2>3, <3>3 DEF Unsubscribe, SendsUnsubscribe, HubInv, Promises
    <3> QED
      BY <3>2, <3>3
  <2>4. UNCHANGED <<upstream, _queues>> \/ upstream' = {}
        \/ \E s \in Sub : SubscribeResumes(s) \/ Unsubscribe(s) \/ \E t \in Topic : Subscribe(s, t)
    BY <1>1, <2>0 DEF Next, vars, SubStep, RunStep, EnterWait, SubscribeReturns,
       SubscribeTimesOut, SubscribeCancelled, UnsubscribeReturns, Connects, Resubscribes,
       Connected, ConnectFails, Breaks, ReadEnds, SocketClosed, Reconnects, RunCancelled,
       Close
  <2> QED
    BY <2>1, <2>2, <2>3, <2>4 DEF Topics
<1> QED
  BY <1>1, HubHolds, PTL DEF Spec, LeaksOnlyWhileResubscribing

-----------------------------------------------------------------------------
(* Readers *)

\* A subscribe() is still working on the topic.
InSubscribe(t) == \E r \in _queues[t] : sub[r] \in {"entering", "waiting", "woken"}

\* Every live topic is one the hub has subscribed to, or a subscribe() that
\* will do so is on its way; a closed hub that is not connected owes nothing.
TopicsAreSeenTo ==
    \A t \in Topics : \/ t \in _subscribed_topics
                      \/ InSubscribe(t)
                      \/ _closed /\ ~_connected

\* Nobody waits for an event that is set.
NobodyWaitsForNothing == _connected => \A s \in Sub : sub[s] # "waiting"

FedInv == HubInv /\ TopicsAreSeenTo /\ NobodyWaitsForNothing

\* Where no pending subscribe() is timed out or cancelled, every step keeps
\* the topics seen to.
LEMMA FedStep == ASSUME Interrupts = {}, FedInv, [Next]_vars PROVE FedInv'
<1> USE StreamHubAssumption DEF connVars
<1>0. HubInv /\ HubInv' /\ TypeOK /\ TypeOK'
  BY HubStep DEF FedInv, HubInv
<1>1. ASSUME NEW s \in Sub, NEW t \in Topic, Subscribe(s, t)
      PROVE  FedInv'
  <2>1. /\ \A u \in Topic \ {t} : _queues'[u] = _queues[u]
        /\ _queues'[t] = _queues[t] \union {s}
        /\ \A r \in Sub \ {s} : sub'[r] = sub[r]
        /\ sub'[s] = IF t \in Topics THEN "reading" ELSE "entering"
    BY <1>0, <1>1 DEF Subscribe, TypeOK
  <2>2. \A u \in Topic : s \notin _queues[u]
    BY <1>0, <1>1 DEF Subscribe, TypeOK
  <2>3. \A u \in Topic : InSubscribe(u) => InSubscribe(u)'
    BY <1>0, <2>1, <2>2 DEF InSubscribe, TypeOK
  <2>4. t \notin Topics => InSubscribe(t)'
    BY <2>1 DEF InSubscribe
  <2>5. Topics' \subseteq Topics \union {t}
    BY <2>1 DEF Topics
  <2>6. UNCHANGED <<_subscribed_topics, _closed, _connected>>
    BY <1>1 DEF Subscribe
  <2>7. TopicsAreSeenTo'
    BY <2>3, <2>4, <2>5, <2>6 DEF FedInv, TopicsAreSeenTo, Topics
  <2>8. NobodyWaitsForNothing'
    BY <2>1, <2>6 DEF FedInv, NobodyWaitsForNothing
  <2> QED
    BY <1>0, <2>7, <2>8 DEF FedInv
<1>2. ASSUME NEW s \in Sub, EnterWait(s)
      PROVE  FedInv'
  <2>1. /\ UNCHANGED <<_queues, _subscribed_topics, _closed, _connected>>
        /\ \A r \in Sub \ {s} : sub'[r] = sub[r]
        /\ sub'[s] = IF _connected THEN "woken" ELSE "waiting"
    BY <1>0, <1>2 DEF EnterWait, TypeOK
  <2>2. \A u \in Topic : InSubscribe(u) => InSubscribe(u)'
    BY <1>0, <2>1 DEF InSubscribe, TypeOK
  <2>3. TopicsAreSeenTo' /\ NobodyWaitsForNothing'
    BY <2>1, <2>2 DEF FedInv, TopicsAreSeenTo, NobodyWaitsForNothing, Topics
  <2> QED
    BY <1>0, <2>3 DEF FedInv
<1>3. ASSUME NEW s \in Sub, SubscribeResumes(s)
      PROVE  FedInv'
  <2>1. /\ UNCHANGED <<_queues, topic, _closed, _connected>>
        /\ \A r \in Sub \ {s} : sub'[r] = sub[r]
        /\ sub'[s] \in {"sending", "reading"}
        /\ _subscribed_topics' = _subscribed_topics \union {topic[s]}
    BY <1>0, <1>3 DEF SubscribeResumes, TypeOK
  <2>2. \A u \in Topic : u # topic[s] /\ InSubscribe(u) => InSubscribe(u)'
    BY <1>0, <2>1 DEF InSubscribe, TypeOK
  <2>3. TopicsAreSeenTo' /\ NobodyWaitsForNothing'
    BY <2>1, <2>2 DEF FedInv, TopicsAreSeenTo, NobodyWaitsForNothing, Topics
  <2> QED
    BY <1>0, <2>3 DEF FedInv
<1>4. ASSUME NEW s \in Sub, SubscribeReturns(s) \/ UnsubscribeReturns(s)
      PROVE  FedInv'
  <2>1. /\ UNCHANGED <<_queues, _subscribed_topics, _closed, _connected>>
        /\ \A r \in Sub \ {s} : sub'[r] = sub[r]
        /\ sub[s] \in {"sending", "leaving"} /\ sub'[s] \in {"reading", "idle"}
    BY <1>0, <1>4 DEF SubscribeReturns, UnsubscribeReturns, TypeOK
  <2>2. \A u \in Topic : InSubscribe(u) => InSubscribe(u)'
    BY <1>0, <2>1 DEF InSubscribe, TypeOK
  <2>3. TopicsAreSeenTo' /\ NobodyWaitsForNothing'
    BY <2>1, <2>2 DEF FedInv, TopicsAreSeenTo, NobodyWaitsForNothing, Topics
  <2> QED
    BY <1>0, <2>3 DEF FedInv
<1>5. ASSUME NEW s \in Sub, SubscribeTimesOut(s)
      PROVE  FedInv'
  <2>1. /\ UNCHANGED <<_closed, _connected>>
        /\ \A r \in Sub \ {s} : sub'[r] = sub[r]
        /\ sub[s] = "waiting" /\ sub'[s] = "reading"
        /\ _closed
    BY <1>0, <1>5 DEF SubscribeTimesOut, TypeOK
  <2>2. ~_connected
    BY <2>1 DEF FedInv, NobodyWaitsForNothing
  <2> QED
    BY <1>0, <2>1, <2>2 DEF FedInv, TopicsAreSeenTo, NobodyWaitsForNothing
<1>6. ASSUME NEW s \in Sub, Unsubscribe(s)
      PROVE  FedInv'
  <2> DEFINE t == topic[s]
  <2>1. /\ t \in Topic /\ sub[s] = "reading"
        /\ UNCHANGED <<_closed, _connected>>
        /\ \A u \in Topic \ {t} : _queues'[u] = _queues[u]
        /\ _queues'[t] = _queues[t] \ {s}
        /\ \A r \in Sub \ {s} : sub'[r] = sub[r]
        /\ sub'[s] \in {"leaving", "idle"}
    BY <1>0, <1>6 DEF Unsubscribe, WithoutQueue, TypeOK
  <2>2. \A u \in Topic : InSubscribe(u) => InSubscribe(u)'
    BY <1>0, <2>1 DEF InSubscribe, TypeOK
  <2>3. \A u \in Topics' : u \in _subscribed_topics => u \in _subscribed_topics'
    BY <1>6, <2>1 DEF Unsubscribe, WithoutQueue, Discard, Topics
  <2>4. Topics' \subseteq Topics
    BY <2>1 DEF Topics
  <2>5. TopicsAreSeenTo' /\ NobodyWaitsForNothing'
    BY <2>1, <2>2, <2>3, <2>4 DEF FedInv, TopicsAreSeenTo, NobodyWaitsForNothing, Topics
  <2> QED
    BY <1>0, <2>5 DEF FedInv
<1>7. CASE Connects
  <2>1. _subscribed_topics' = Topics /\ Topics' = Topics
    BY <1>7 DEF Connects, Topics
  <2>2. TopicsAreSeenTo'
    BY <2>1 DEF TopicsAreSeenTo
  <2>3. NobodyWaitsForNothing'
    BY <1>7 DEF Connects, WakeAll, FedInv, NobodyWaitsForNothing
  <2> QED
    BY <1>0, <2>2, <2>3 DEF FedInv
<1>8. CASE Connected
  <2>1. /\ UNCHANGED <<_queues, _subscribed_topics, _closed>> /\ ~_closed
        /\ sub' = WakeAll
    BY <1>0, <1>8 DEF Connected, HubInv, ClosedMeansCancelled
  <2>2. \A u \in Topic : InSubscribe(u) => InSubscribe(u)'
    BY <1>0, <2>1 DEF InSubscribe, WakeAll, TypeOK
  <2>3. TopicsAreSeenTo' /\ NobodyWaitsForNothing'
    BY <2>1, <2>2 DEF FedInv, TopicsAreSeenTo, NobodyWaitsForNothing, WakeAll, Topics
  <2> QED
    BY <1>0, <2>3 DEF FedInv
<1>9. CASE \/ Resubscribes \/ ConnectFails \/ ReadEnds \/ SocketClosed \/ Reconnects
           \/ RunCancelled \/ Breaks \/ Close \/ UNCHANGED vars
  <2>1. UNCHANGED <<_queues, _subscribed_topics, sub>>
    BY <1>9 DEF Resubscribes, ConnectFails, ReadEnds, SocketClosed, Reconnects,
       RunCancelled, Breaks, Close, vars
  <2>2. (_closed => _closed') /\ (~_connected => ~_connected')
    BY <1>9 DEF Resubscribes, ConnectFails, ReadEnds, SocketClosed, Reconnects,
       RunCancelled, Breaks, Close, vars
  <2>3. TopicsAreSeenTo' /\ NobodyWaitsForNothing'
    BY <2>1, <2>2 DEF FedInv, TopicsAreSeenTo, NobodyWaitsForNothing, InSubscribe, Topics
  <2> QED
    BY <1>0, <2>3 DEF FedInv
<1>10. \A s \in Sub : ~SubscribeCancelled(s)
  BY DEF SubscribeCancelled
<1> QED
  BY <1>1, <1>2, <1>3, <1>4, <1>5, <1>6, <1>7, <1>8, <1>9, <1>10 DEF Next, SubStep, RunStep

\* As long as no pending subscribe() is timed out or cancelled, every topic
\* somebody reads on a set and intact connection is streamed by the exchange,
\* or a subscribe() is about to ask for it: for any number of readers and
\* topics, through unsubscribes, reconnects and a close.  A cancelled
\* subscribe() breaks it (the run hub_cancelled_subscribe).
THEOREM UninterruptedReadersAreFed == (Interrupts = {}) => (Spec => []ReadersAreFed)
<1> SUFFICES ASSUME Interrupts = {}
             PROVE  Spec => []ReadersAreFed
  OBVIOUS
<1>1. Init => FedInv
  <2>1. Init => HubInv
    BY TypeInit DEF Init, HubInv, EventAndSocket, Promises, ClosedMeansCancelled
  <2> QED
    BY <2>1 DEF Init, FedInv, TopicsAreSeenTo, NobodyWaitsForNothing, Topics
<1>2. FedInv /\ [Next]_vars => FedInv'
  BY FedStep
<1>3. FedInv => ReadersAreFed
  <2> SUFFICES ASSUME FedInv, _connected, _ws = "open", NEW s \in Sub, sub[s] = "reading"
               PROVE  topic[s] \in upstream \/ InSubscribe(topic[s])
    BY DEF ReadersAreFed, InSubscribe
  <2>1. topic[s] \in Topic /\ s \in _queues[topic[s]]
    BY DEF FedInv, HubInv, TypeOK
  <2>2. topic[s] \in Topics
    BY <2>1 DEF Topics
  <2>3. _subscribed_topics \subseteq upstream
    BY DEF FedInv, HubInv, EventAndSocket, Promises
  <2> QED
    BY <2>2, <2>3 DEF FedInv, TopicsAreSeenTo
<1> QED
  BY <1>1, <1>2, <1>3, PTL DEF Spec

=============================================================================
