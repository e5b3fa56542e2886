----------------------------- MODULE StreamHub -----------------------------
(***************************************************************************)
(* StreamHub of exchanges/base.py: one upstream WebSocket of an exchange   *)
(* shared by every subscription of an adapter, together with the           *)
(* _ws_connect generators of the adapters that subscribe to it.            *)
(*                                                                         *)
(* A step is one uninterrupted stretch of a coroutine on the event loop.   *)
(* The critical sections of StreamHub._lock contain no await, so they      *)
(* never suspend, and the frame of a ws.send() made right after one is     *)
(* buffered in the same stretch: only what follows the write can be        *)
(* overtaken.  The exchange keeps, for each connection, the set of topics  *)
(* it was sent SUBSCRIBE and not UNSUBSCRIBE for: that set is `upstream`.  *)
(***************************************************************************)
EXTENDS Naturals, FiniteSets

CONSTANTS
    Sub,         \* the _ws_connect generators that may run at the same time
    Topic,       \* upstream topics
    NoTopic,     \* the topic of a generator that is not running
    Interrupts,  \* what may cut a pending subscribe() short: "timeout", "cancel"
    MaxBreaks    \* bound: how often the network breaks the connection

ASSUME StreamHubAssumption ==
    /\ NoTopic \notin Topic
    /\ Interrupts \subseteq {"timeout", "cancel"}
    /\ MaxBreaks \in Nat

VARIABLES
    _queues,             \* Topic -> the generators whose queue is registered
    _subscribed_topics,  \* topics the hub believes it has subscribed to
    _connected,          \* the asyncio.Event
    _ws,                 \* self._ws: "none", "open", or "broken" by the network
    _closed,             \* close() was called
    run,                 \* where the _run task stands
    cancelled,           \* close() cancelled the _run task
    pending,             \* topics of _run's snapshot not yet sent
    upstream,            \* topics the exchange streams on this connection
    sub,                 \* where each generator stands
    topic,               \* its topic
    breaks               \* connections broken so far

vars == <<_queues, _subscribed_topics, _connected, _ws, _closed, run,
          cancelled, pending, upstream, sub, topic, breaks>>

SubState == {"idle", "entering", "waiting", "woken", "sending", "reading",
             "leaving", "leaked"}
RunState == {"none", "connecting", "resubscribing", "reading", "closing",
             "sleeping", "ended"}

\* self._queues.keys(): a topic is a key exactly while it has a queue.
Topics == {t \in Topic : _queues[t] # {}}

\* asyncio.Event.set(): every coroutine in connected.wait() is resumed.
WakeAll == [s \in Sub |-> IF sub[s] = "waiting" THEN "woken" ELSE sub[s]]

Init ==
    /\ _queues = [t \in Topic |-> {}]
    /\ _subscribed_topics = {}
    /\ _connected = FALSE
    /\ _ws = "none"
    /\ _closed = FALSE
    /\ run = "none"
    /\ cancelled = FALSE
    /\ pending = {}
    /\ upstream = {}
    /\ sub = [s \in Sub |-> "idle"]
    /\ topic = [s \in Sub |-> NoTopic]
    /\ breaks = 0

connVars == <<_connected, _ws, pending, upstream>>

-----------------------------------------------------------------------------
(* StreamHub.subscribe, called by an adapter's _ws_connect *)

\* Slip: a closed hub starts its task again.
StartsRunAlways == run \in {"none", "ended"}

\* The hub needs its _run task started.
StartsRun == ~_closed /\ run \in {"none", "ended"}

\* Slip: the wrong map is consulted, the one every queue is already in.
SendNowByQueues(t) == t \notin Topics

\* Nobody has subscribed to the topic while subscribe() was waiting.
SendNow(t) == t \notin _subscribed_topics

\* The queue is registered, the _run task started if there is none.  Only the
\* first queue of a topic goes on to wait for the connection.
Subscribe(s, t) ==
    /\ sub[s] = "idle"
    /\ _queues' = [_queues EXCEPT ![t] = @ \union {s}]
    /\ topic' = [topic EXCEPT ![s] = t]
    /\ sub' = [sub EXCEPT ![s] = IF t \in Topics THEN "reading" ELSE "entering"]
    /\ run' = IF StartsRun THEN "connecting" ELSE run
    /\ UNCHANGED <<connVars, _subscribed_topics, _closed, cancelled, breaks>>

\* wait_for() starts connected.wait() as a task of its own; it passes at once
\* if the event is set by then.
EnterWait(s) ==
    /\ sub[s] = "entering"
    /\ sub' = [sub EXCEPT ![s] = IF _connected THEN "woken" ELSE "waiting"]
    /\ UNCHANGED <<connVars, _queues, _subscribed_topics, _closed, run,
                   cancelled, topic, breaks>>

\* subscribe() resumes after the wait, by which time the connection may be
\* another one or gone: the topic is marked, and SUBSCRIBE sent, only if the
\* hub has not subscribed to it meanwhile.
SubscribeResumes(s) ==
    LET t == topic[s]
        sent == SendNow(t) /\ _ws = "open"
    IN /\ sub[s] = "woken"
       /\ _subscribed_topics' = _subscribed_topics \union {t}
       /\ upstream' = IF sent THEN upstream \union {t} ELSE upstream
       /\ sub' = [sub EXCEPT ![s] = IF sent THEN "sending" ELSE "reading"]
       /\ UNCHANGED <<_queues, _connected, _ws, pending, _closed, run,
                      cancelled, topic, breaks>>

\* The send has drained or failed; subscribe() returns the queue.
SubscribeReturns(s) ==
    /\ sub[s] = "sending"
    /\ sub' = [sub EXCEPT ![s] = "reading"]
    /\ UNCHANGED <<connVars, _queues, _subscribed_topics, _closed, run,
                   cancelled, topic, breaks>>

\* The thirty-second wait expires: the queue is returned, nothing is sent.  On
\* a closed hub this is the only way out of the wait.
SubscribeTimesOut(s) ==
    /\ "timeout" \in Interrupts \/ _closed
    /\ sub[s] = "waiting"
    /\ sub' = [sub EXCEPT ![s] = "reading"]
    /\ UNCHANGED <<connVars, _queues, _subscribed_topics, _closed, run,
                   cancelled, topic, breaks>>

\* The generator is cancelled inside subscribe().  Every adapter calls it
\* before the try whose finally unsubscribes, so the queue stays registered.
SubscribeCancelled(s) ==
    /\ "cancel" \in Interrupts
    /\ sub[s] \in {"entering", "waiting", "woken", "sending"}
    /\ sub' = [sub EXCEPT ![s] = "leaked"]
    /\ UNCHANGED <<connVars, _queues, _subscribed_topics, _closed, run,
                   cancelled, topic, breaks>>

-----------------------------------------------------------------------------
(* StreamHub.unsubscribe, from the finally clause of _ws_connect *)

\* Slip: the queue is not filtered out.
QueueKept(t, s) == _queues[t]

\* [x for x in qs if x is not q].
WithoutQueue(t, s) == _queues[t] \ {s}

\* Slip: the topic stays marked as subscribed.
MarkKept(t) == _subscribed_topics

\* _subscribed_topics.discard(topic).
Discard(t) == _subscribed_topics \ {t}

\* Slip: the topic is dropped without telling the exchange.
NeverUnsubscribes(drop_topic) == FALSE

\* UNSUBSCRIBE is sent for a dropped topic when the event is set.
SendsUnsubscribe(drop_topic) == drop_topic /\ _connected /\ _ws = "open"

\* The last queue of a topic drops it and, on a set connection, UNSUBSCRIBEs.
Unsubscribe(s) ==
    LET t == topic[s]
        drop_topic == WithoutQueue(t, s) = {}
        sent == SendsUnsubscribe(drop_topic)
    IN /\ sub[s] = "reading"
       /\ _queues' = [_queues EXCEPT ![t] = WithoutQueue(t, s)]
       /\ _subscribed_topics' = IF drop_topic THEN Discard(t)
                                              ELSE _subscribed_topics
       /\ upstream' = IF sent THEN upstream \ {t} ELSE upstream
       /\ sub' = [sub EXCEPT ![s] = IF sent THEN "leaving" ELSE "idle"]
       /\ topic' = [topic EXCEPT ![s] = NoTopic]
       /\ UNCHANGED <<_connected, _ws, pending, _closed, run, cancelled, breaks>>

\* The UNSUBSCRIBE has drained, failed or been cancelled.
UnsubscribeReturns(s) ==
    /\ sub[s] = "leaving"
    /\ sub' = [sub EXCEPT ![s] = "idle"]
    /\ UNCHANGED <<connVars, _queues, _subscribed_topics, _closed, run,
                   cancelled, topic, breaks>>

-----------------------------------------------------------------------------
(* StreamHub._run *)

\* The connection is up and the topics of the moment are snapshot; the first
\* payload is written in the same stretch (an adapter puts one, some or all
\* topics in a payload), the others after a suspension each.
Connects ==
    /\ run = "connecting"
    /\ ~cancelled
    /\ _ws' = "open"
    /\ _subscribed_topics' = Topics
    /\ IF Topics = {}
       THEN /\ upstream' = {}
            /\ pending' = {}
            /\ _connected' = TRUE
            /\ run' = "reading"
            /\ sub' = WakeAll
       ELSE /\ \E first \in (SUBSET Topics) \ {{}} :
                  /\ upstream' = first
                  /\ pending' = Topics \ first
            /\ run' = "resubscribing"
            /\ UNCHANGED <<_connected, sub>>
    /\ UNCHANGED <<_queues, _closed, cancelled, topic, breaks>>

\* The next payload of the snapshot; a failed send abandons the rest.
Resubscribes ==
    /\ run = "resubscribing"
    /\ ~cancelled
    /\ pending # {}
    /\ \/ /\ _ws = "open"
          /\ \E part \in (SUBSET pending) \ {{}} :
                /\ upstream' = upstream \union part
                /\ pending' = pending \ part
       \/ /\ _ws = "broken"
          /\ pending' = {}
          /\ UNCHANGED upstream
    /\ UNCHANGED <<_queues, _subscribed_topics, _connected, _ws, _closed, run,
                   cancelled, sub, topic, breaks>>

\* connected.set(), after the last payload.
Connected ==
    /\ run = "resubscribing"
    /\ ~cancelled
    /\ pending = {}
    /\ _connected' = TRUE
    /\ run' = "reading"
    /\ sub' = WakeAll
    /\ UNCHANGED <<_queues, _subscribed_topics, _ws, pending, upstream, _closed,
                   cancelled, topic, breaks>>

\* _connect() raises: the finally clause has no socket to close.
ConnectFails ==
    /\ run = "connecting"
    /\ ~cancelled
    /\ _connected' = FALSE
    /\ run' = "sleeping"
    /\ UNCHANGED <<_queues, _subscribed_topics, _ws, pending, upstream, _closed,
                   cancelled, sub, topic, breaks>>

\* The network breaks the connection (or a message the adapter cannot route
\* makes it unusable); nobody has noticed yet.
Breaks ==
    /\ _ws = "open"
    /\ breaks < MaxBreaks
    /\ breaks' = breaks + 1
    /\ _ws' = "broken"
    /\ upstream' = {}
    /\ UNCHANGED <<_queues, _subscribed_topics, _connected, pending, _closed, run,
                   cancelled, sub, topic>>

\* `async for raw in ws` ends or raises, and the finally clause clears the
\* event and self._ws before it awaits the close of the socket.
ReadEnds ==
    /\ run = "reading"
    /\ ~cancelled
    /\ _ws = "broken"
    /\ _connected' = FALSE
    /\ _ws' = "none"
    /\ run' = "closing"
    /\ UNCHANGED <<_queues, _subscribed_topics, pending, upstream, _closed,
                   cancelled, sub, topic, breaks>>

\* Slip: the loop is left after a disconnection.
GivesUp == "ended"

\* The loop goes on to sleep before the next attempt.
Retries == "sleeping"

SocketClosed ==
    /\ run = "closing"
    /\ ~cancelled
    /\ run' = Retries
    /\ UNCHANGED <<connVars, _queues, _subscribed_topics, _closed, cancelled, sub,
                   topic, breaks>>

\* The reconnect delay, of a second at least, is over: the loop has by then run
\* every coroutine that was ready when it began.
Reconnects ==
    /\ run = "sleeping"
    /\ ~cancelled
    /\ \A s \in Sub : sub[s] \notin {"entering", "woken"}
    /\ run' = "connecting"
    /\ UNCHANGED <<connVars, _queues, _subscribed_topics, _closed, cancelled, sub,
                   topic, breaks>>

\* The CancelledError of close() ends the task wherever it stands; the finally
\* clause clears the event and drops the socket.
RunCancelled ==
    /\ cancelled
    /\ run \notin {"none", "ended"}
    /\ run' = "ended"
    /\ _connected' = FALSE
    /\ _ws' = "none"
    /\ pending' = {}
    /\ upstream' = {}
    /\ UNCHANGED <<_queues, _subscribed_topics, _closed, cancelled, sub, topic,
                   breaks>>

\* Slip: close() forgets the task.
CancelsNothing == FALSE

\* There is a task for close() to cancel.
CancelsRun == run # "none"

\* StreamHub.close: mark closed and cancel the task, in one stretch.
Close ==
    /\ ~_closed
    /\ _closed' = TRUE
    /\ cancelled' = CancelsRun
    /\ UNCHANGED <<connVars, _queues, _subscribed_topics, run, sub, topic, breaks>>

-----------------------------------------------------------------------------
SubStep(s) ==
    \/ \E t \in Topic : Subscribe(s, t)
    \/ EnterWait(s)
    \/ SubscribeResumes(s)
    \/ SubscribeReturns(s)
    \/ SubscribeTimesOut(s)
    \/ SubscribeCancelled(s)
    \/ Unsubscribe(s)
    \/ UnsubscribeReturns(s)

RunStep ==
    \/ Connects
    \/ Resubscribes
    \/ Connected
    \/ ConnectFails
    \/ ReadEnds
    \/ SocketClosed
    \/ Reconnects
    \/ RunCancelled

Next ==
    \/ \E s \in Sub : SubStep(s)
    \/ RunStep
    \/ Breaks
    \/ Close

Spec == Init /\ [][Next]_vars

\* The event loop runs ready coroutines, sends and closes end, sleeps elapse,
\* and an exchange that is tried again and again is reached in the end.
Fairness ==
    /\ \A s \in Sub : /\ WF_vars(EnterWait(s))
                      /\ WF_vars(SubscribeResumes(s))
                      /\ WF_vars(SubscribeReturns(s))
                      /\ WF_vars(SubscribeTimesOut(s))
                      /\ WF_vars(UnsubscribeReturns(s))
    /\ WF_vars(RunStep)
    /\ SF_vars(Connects)

FairSpec == Spec /\ Fairness

-----------------------------------------------------------------------------
(* Properties *)

\* Every variable holds what its declaration says, and the queues of a topic
\* are those of the generators that hold it.
TypeOK ==
    /\ _queues \in [Topic -> SUBSET Sub]
    /\ _subscribed_topics \subseteq Topic
    /\ _connected \in BOOLEAN
    /\ _ws \in {"none", "open", "broken"}
    /\ _closed \in BOOLEAN
    /\ run \in RunState
    /\ cancelled \in BOOLEAN
    /\ pending \subseteq Topic
    /\ upstream \subseteq Topic
    /\ sub \in [Sub -> SubState]
    /\ topic \in [Sub -> Topic \union {NoTopic}]
    /\ breaks \in 0..MaxBreaks
    /\ \A t \in Topic : _queues[t] = {s \in Sub : topic[s] = t}
    /\ \A s \in Sub : topic[s] = NoTopic <=> sub[s] \in {"idle", "leaving"}

\* The set the hub keeps of the topics it subscribed to holds live topics
\* only, and while the connection is set and intact the exchange really does
\* stream every one of them: no interleaving of subscribe, unsubscribe and
\* reconnect makes the hub believe in a subscription it never sent.
SubscriptionBookkeeping ==
    /\ _subscribed_topics \subseteq Topics
    /\ _connected /\ _ws = "open" => _subscribed_topics \subseteq upstream

\* On a set and intact connection, a topic somebody reads, and that no
\* subscribe() is still working on, is streamed by the exchange
\* (Adapter_Guide.md:509: SUBSCRIBE is sent when the refcount goes 0 to 1).
ReadersAreFed ==
    _connected /\ _ws = "open" =>
        \A s \in Sub : sub[s] = "reading" =>
            \/ topic[s] \in upstream
            \/ \E r \in _queues[topic[s]] : sub[r] \in {"entering", "waiting", "woken"}

\* A topic the exchange streams although nobody reads it can only have been
\* dropped while a reconnect was re-subscribing: no unsubscribe() on a set
\* connection leaves one behind.
LeaksOnlyWhileResubscribing ==
    [][ _connected /\ _connected' /\ upstream \subseteq Topics
            => upstream' \subseteq Topics' ]_vars

\* A closed hub opens no connection again, whoever still calls subscribe().
ClosedHubStaysDown ==
    [][ _closed /\ _ws = "none" => _ws' = "none" ]_vars

\* A reader gets its topic streamed once the network holds, whatever breaks
\* and reconnects happen on the way.
ReaderEventuallyFed ==
    \A s \in Sub : sub[s] = "reading"
        ~> topic[s] \in upstream \/ sub[s] # "reading" \/ _closed

\* close() gets the connection task to end.
CloseEndsTheTask == _closed ~> run \in {"none", "ended"}

=============================================================================
