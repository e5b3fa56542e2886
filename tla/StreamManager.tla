--------------------------- MODULE StreamManager ---------------------------
(***************************************************************************)
(* The WebSocket fan-out of the service: StreamManager                     *)
(* (service/stream_manager.py) and the endpoint coroutine that drives it   *)
(* (websocket_endpoint of service/main.py).                                *)
(*                                                                         *)
(* Everything runs on one asyncio event loop, so a step of this model is   *)
(* one uninterrupted stretch of a coroutine, from one suspending await to  *)
(* the next.  No critical section of StreamManager._lock contains an       *)
(* await, hence the lock is never contended and taking it never suspends.  *)
(*                                                                         *)
(* A connection makes at most one subscription, and a subscription starts  *)
(* at most one upstream task, so a client's identity also serves as its    *)
(* client_id and as the identity of the task its subscribe() created.      *)
(***************************************************************************)
EXTENDS Naturals, FiniteSets

CONSTANTS
    Client,       \* WebSocket connections that may arrive
    Key,          \* "exchange:market_type:channel:symbol" strings
    Absent,       \* what dict.get returns for a missing key
    LossyCancel,  \* the interpreter's wait_for may absorb a cancellation
    MaxItems      \* bound: items one upstream stream produces

ASSUME StreamManagerAssumption ==
    /\ Absent \notin Client
    /\ Absent \notin Key
    /\ \A S \in SUBSET Client : S # Absent
    /\ LossyCancel \in BOOLEAN
    /\ MaxItems \in Nat

VARIABLES
    active_streams,   \* Key -> the bucket of clients, or Absent
    upstream_tasks,   \* Key -> the registered task, or Absent
    endpoint,         \* Client -> where its websocket_endpoint stands
    key,              \* Client -> the key it subscribed to, or Absent
    awaiting,         \* Client -> the task its unsubscribe() awaits, or Absent
    handler,          \* task -> where its _upstream_handler stands
    cancelled,        \* task -> a CancelledError is pending
    batch,            \* task -> clients whose send (or close) it awaits
    seq,              \* task -> items its stream has produced
    closing,          \* Client -> progress of the server-side close
    phase,            \* progress of shutdown()
    draining,         \* tasks, then clients, shutdown() awaits
    seen,             \* history: the last item a client was sent
    feeder            \* history: the task registered when a client joined

vars == <<active_streams, upstream_tasks, endpoint, key, awaiting, handler,
          cancelled, batch, seq, closing, phase, draining, seen, feeder>>

EndpointState == {"idle", "handshake", "streaming", "leaving", "closed"}
HandlerState  == {"none", "created", "opening", "iterating", "sending", "closing",
                  "done"}
CloseState    == {"none", "spawned", "owed", "done"}
Phase         == {"up", "stopping", "draining", "down"}

\* active_streams.get(key), an absent bucket read as an empty one.
Bucket(k) == IF active_streams[k] = Absent THEN {} ELSE active_streams[k]

\* A task that is running and that nobody has cancelled.
Active(t) == /\ handler[t] \in {"created", "opening", "iterating", "sending"}
             /\ ~cancelled[t]

Init ==
    /\ active_streams = [k \in Key |-> Absent]
    /\ upstream_tasks = [k \in Key |-> Absent]
    /\ endpoint  = [c \in Client |-> "idle"]
    /\ key       = [c \in Client |-> Absent]
    /\ awaiting  = [c \in Client |-> Absent]
    /\ handler   = [c \in Client |-> "none"]
    /\ cancelled = [c \in Client |-> FALSE]
    /\ batch     = [c \in Client |-> {}]
    /\ seq       = [c \in Client |-> 0]
    /\ closing   = [c \in Client |-> "none"]
    /\ phase     = "up"
    /\ draining  = {}
    /\ seen      = [c \in Client |-> 0]
    /\ feeder    = [c \in Client |-> Absent]

handlerVars == <<handler, cancelled, batch, seq>>
mapVars     == <<active_streams, upstream_tasks>>

-----------------------------------------------------------------------------
(* websocket_endpoint *)

\* An unknown exchange or market type is closed with 1008; otherwise the
\* connection is accepted and its first message awaited.
Connect(c) ==
    /\ phase = "up"
    /\ endpoint[c] = "idle"
    /\ \E next \in {"handshake", "closed"} :
          endpoint' = [endpoint EXCEPT ![c] = next]
    /\ UNCHANGED <<mapVars, handlerVars, key, awaiting, closing, phase,
                   draining, seen, feeder>>

\* The handshake ends without a subscription: 1008 after the ten-second
\* timeout, 1003 for a missing, unknown or unsupported channel, or the peer
\* went away.  key and client_id are still unset, so nothing is unsubscribed.
HandshakeFails(c) ==
    /\ endpoint[c] = "handshake"
    /\ endpoint' = [endpoint EXCEPT ![c] = "closed"]
    /\ UNCHANGED <<mapVars, handlerVars, key, awaiting, closing, phase,
                   draining, seen, feeder>>

-----------------------------------------------------------------------------
(* StreamManager.subscribe and unsubscribe *)

\* Slip: the endpoint subscribes without keeping the key it subscribed to.
KeyForgotten(c, k) == key

\* The endpoint's local variable key, which its finally clause reads.
KeyKept(c, k) == [key EXCEPT ![c] = k]

\* Slip: the last client leaves without cancelling the upstream task.
CancelForgotten(t) == cancelled

\* task.cancel().
Cancel(t) == [cancelled EXCEPT ![t] = TRUE]

\* The first client of a key creates the bucket and the upstream task.
Subscribe(c, k) ==
    /\ phase = "up"
    /\ endpoint[c] = "handshake"
    /\ endpoint' = [endpoint EXCEPT ![c] = "streaming"]
    /\ key' = KeyKept(c, k)
    /\ active_streams' = [active_streams EXCEPT ![k] = Bucket(k) \union {c}]
    /\ IF active_streams[k] = Absent
       THEN /\ upstream_tasks' = [upstream_tasks EXCEPT ![k] = c]
            /\ handler' = [handler EXCEPT ![c] = "created"]
       ELSE UNCHANGED <<upstream_tasks, handler>>
    /\ feeder' = [feeder EXCEPT ![c] = upstream_tasks'[k]]
    /\ UNCHANGED <<awaiting, cancelled, batch, seq, closing, phase, draining,
                   seen>>

\* The receive loop ended (the peer disconnected, or the server closed the
\* socket): the finally clause takes the client out of its bucket; the last
\* client out unregisters the task, cancels it and waits for it.
Unsubscribe(c) ==
    LET k == key[c]
        t == upstream_tasks[k]
        last == active_streams[k] # Absent /\ Bucket(k) \ {c} = {}
    IN /\ endpoint[c] = "streaming"
       /\ active_streams' =
             [active_streams EXCEPT
                ![k] = IF @ = Absent \/ last THEN Absent ELSE Bucket(k) \ {c}]
       /\ upstream_tasks' =
             [upstream_tasks EXCEPT ![k] = IF last THEN Absent ELSE @]
       /\ IF last /\ t # Absent
          THEN /\ cancelled' = Cancel(t)
               /\ awaiting' = [awaiting EXCEPT ![c] = t]
               /\ endpoint' = [endpoint EXCEPT ![c] = "leaving"]
          ELSE /\ endpoint' = [endpoint EXCEPT ![c] = "closed"]
               /\ UNCHANGED <<cancelled, awaiting>>
       /\ UNCHANGED <<key, handler, batch, seq, closing, phase, draining,
                      seen, feeder>>

\* wait_for(task, 2.0) expires: it cancels the task again and keeps waiting.
UnsubscribeTimesOut(c) ==
    /\ endpoint[c] = "leaving"
    /\ Active(awaiting[c])
    /\ cancelled' = Cancel(awaiting[c])
    /\ UNCHANGED <<mapVars, endpoint, key, awaiting, handler, batch, seq, closing,
                   phase, draining, seen, feeder>>

\* The awaited task has finished, and so has unsubscribe().
Unsubscribed(c) ==
    /\ endpoint[c] = "leaving"
    /\ handler[awaiting[c]] = "done"
    /\ endpoint' = [endpoint EXCEPT ![c] = "closed"]
    /\ awaiting' = [awaiting EXCEPT ![c] = Absent]
    /\ UNCHANGED <<mapVars, handlerVars, key, closing, phase, draining, seen,
                   feeder>>

-----------------------------------------------------------------------------
(* StreamManager._upstream_handler *)

\* Slip: the clean-up does not ask whose registration it removes.
AnyRegistration(t) == TRUE

\* The registered task of the key is the current one.
StillRegistered(t) == upstream_tasks[key[t]] = t

\* Slip: the bucket is popped and its clients are forgotten.
NobodyLeft(t) == {}

\* The clients the finally clause has to close.
LeftBehind(t) == IF StillRegistered(t) THEN Bucket(key[t]) ELSE {}

\* The handler's finally clause: a task that is still the registered one
\* unregisters its key and closes every client left in the bucket.
Finally(t) ==
    LET k == key[t]
        left == LeftBehind(t)
    IN /\ upstream_tasks' =
             [upstream_tasks EXCEPT ![k] = IF StillRegistered(t) THEN Absent ELSE @]
       /\ active_streams' =
             [active_streams EXCEPT ![k] = IF StillRegistered(t) THEN Absent ELSE @]
       /\ closing' = [c \in Client |-> IF c \in left THEN "owed" ELSE closing[c]]
       /\ batch' = [batch EXCEPT ![t] = left]
       /\ handler' = [handler EXCEPT
                        ![t] = IF left = {} THEN "done" ELSE "closing"]

\* The first step of the task: pick adapter.stream_<channel> and iterate it;
\* the adapter's generator subscribes to its hub first.
HandlerStart(t) ==
    /\ handler[t] = "created"
    /\ ~cancelled[t]
    /\ handler' = [handler EXCEPT ![t] = "opening"]
    /\ UNCHANGED <<mapVars, endpoint, key, awaiting, cancelled, batch, seq,
                   closing, phase, draining, seen, feeder>>

\* The stream yields an item: it is sent to a snapshot of the bucket, or the
\* handler stops when nobody is left to send it to.
HandlerItem(t) ==
    /\ handler[t] \in {"opening", "iterating"}
    /\ ~cancelled[t]
    /\ seq[t] < MaxItems
    /\ seq' = [seq EXCEPT ![t] = @ + 1]
    /\ IF Bucket(key[t]) = {}
       THEN Finally(t)
       ELSE /\ batch' = [batch EXCEPT ![t] = Bucket(key[t])]
            /\ handler' = [handler EXCEPT ![t] = "sending"]
            /\ UNCHANGED <<mapVars, closing>>
    /\ UNCHANGED <<endpoint, key, awaiting, cancelled, phase, draining, seen,
                   feeder>>

\* Slip: a client whose send failed is closed but stays in the bucket.
DeadKept(k, dead) == Bucket(k)

\* The bucket of key k once the clients that failed have been popped from it.
WithoutDead(k, dead) == Bucket(k) \ dead

\* Every send of the batch has ended, in success or (an error, the five-second
\* timeout) in failure.  Clients that failed are closed and popped from the
\* bucket as it now is; a bucket left empty is unregistered by its own task.
HandlerSent(t, dead) ==
    LET k == key[t]
        present == active_streams[k] # Absent
        emptied == dead # {} /\ present /\ WithoutDead(k, dead) = {}
    IN /\ handler[t] = "sending"
       /\ ~cancelled[t]
       /\ dead \subseteq batch[t]
       /\ seen' = [c \in Client |->
                     IF c \in batch[t] \ dead THEN seq[t] ELSE seen[c]]
       /\ closing' = [c \in Client |->
                        IF c \in dead THEN "spawned" ELSE closing[c]]
       /\ active_streams' = [active_streams EXCEPT
             ![k] = IF ~present \/ emptied THEN Absent ELSE WithoutDead(k, dead)]
       /\ upstream_tasks' =
             [upstream_tasks EXCEPT ![k] = IF emptied THEN Absent ELSE @]
       /\ handler' = [handler EXCEPT
                        ![t] = IF emptied THEN "done" ELSE "iterating"]
       /\ batch' = [batch EXCEPT ![t] = {}]
       /\ UNCHANGED <<endpoint, key, awaiting, cancelled, seq, phase, draining,
                      feeder>>

\* The adapter's stream returns or raises: through the finally clause.
HandlerEnds(t) ==
    /\ handler[t] \in {"opening", "iterating"}
    /\ ~cancelled[t]
    /\ Finally(t)
    /\ UNCHANGED <<endpoint, key, awaiting, cancelled, seq, phase, draining,
                   seen, feeder>>

\* A cancelled task: one that never ran ends at once, its body unentered; any
\* other runs its finally clause, possibly much later, since the adapter's
\* generator unwinds first.  A batch in flight may have reached some clients.
HandlerCancelled(t) ==
    /\ cancelled[t]
    /\ \/ /\ handler[t] = "created"
          /\ handler' = [handler EXCEPT ![t] = "done"]
          /\ UNCHANGED <<mapVars, closing, batch, seen>>
       \/ /\ handler[t] \in {"opening", "iterating", "sending"}
          /\ \E got \in SUBSET batch[t] :
                seen' = [c \in Client |->
                            IF c \in got THEN seq[t] ELSE seen[c]]
          /\ Finally(t)
    /\ UNCHANGED <<endpoint, key, awaiting, cancelled, seq, phase, draining,
                   feeder>>

\* Up to Python 3.11 wait_for() drops a cancellation that arrives when the
\* future it waits for is already done.  The adapter's generator is in such a
\* call once, in StreamHub.subscribe, before it yields its first item.
HandlerAbsorbsCancel(t) ==
    /\ LossyCancel
    /\ cancelled[t]
    /\ handler[t] = "opening"
    /\ handler' = [handler EXCEPT ![t] = "iterating"]
    /\ cancelled' = [cancelled EXCEPT ![t] = FALSE]
    /\ UNCHANGED <<mapVars, endpoint, key, awaiting, batch, seq, closing,
                   phase, draining, seen, feeder>>

\* A _close_client coroutine ends: closed with 1011, failed or timed out.
CloseEnds(c) ==
    /\ closing[c] \in {"spawned", "owed"}
    /\ closing' = [closing EXCEPT ![c] = "done"]
    /\ UNCHANGED <<mapVars, handlerVars, endpoint, key, awaiting, phase,
                   draining, seen, feeder>>

\* The finally clause has awaited the close of every client of its batch.
HandlerClosed(t) ==
    /\ handler[t] = "closing"
    /\ \A c \in batch[t] : closing[c] = "done"
    /\ handler' = [handler EXCEPT ![t] = "done"]
    /\ batch' = [batch EXCEPT ![t] = {}]
    /\ UNCHANGED <<mapVars, endpoint, key, awaiting, cancelled, seq, closing,
                   phase, draining, seen, feeder>>

-----------------------------------------------------------------------------
(* StreamManager.shutdown *)

\* Slip: the tasks are awaited without having been cancelled.
CancelNone(tasks) == cancelled

\* The loop that cancels every registered task.
CancelAll(tasks) == [t \in Client |-> cancelled[t] \/ t \in tasks]

Shutdown ==
    /\ phase = "up"
    /\ phase' = "stopping"
    /\ draining' = {upstream_tasks[k] : k \in Key} \ {Absent}
    /\ upstream_tasks' = [k \in Key |-> Absent]
    /\ active_streams' = [k \in Key |-> Absent]
    /\ cancelled' = CancelAll(draining')
    /\ UNCHANGED <<endpoint, key, awaiting, handler, batch, seq, closing, seen,
                   feeder>>

\* gather(*tasks) returned; what _closing holds now is awaited next.
ShutdownTasksEnded ==
    /\ phase = "stopping"
    /\ \A t \in draining : handler[t] = "done"
    /\ phase' = "draining"
    /\ draining' = {c \in Client : closing[c] = "spawned"}
    /\ UNCHANGED <<mapVars, handlerVars, endpoint, key, awaiting, closing, seen,
                   feeder>>

ShutdownEnds ==
    /\ phase = "draining"
    /\ \A c \in draining : closing[c] = "done"
    /\ phase' = "down"
    /\ draining' = {}
    /\ UNCHANGED <<mapVars, handlerVars, endpoint, key, awaiting, closing, seen,
                   feeder>>

\* Nothing is left to happen: every connection is over and shutdown returned.
Finished ==
    /\ phase = "down"
    /\ \A c \in Client : /\ endpoint[c] \in {"idle", "closed"}
                          /\ handler[c] \in {"none", "done"}
                          /\ closing[c] \in {"none", "done"}
    /\ UNCHANGED vars

-----------------------------------------------------------------------------
EndpointStep(c) ==
    \/ Connect(c)
    \/ HandshakeFails(c)
    \/ \E k \in Key : Subscribe(c, k)
    \/ Unsubscribe(c)
    \/ UnsubscribeTimesOut(c)
    \/ Unsubscribed(c)

HandlerStep(t) ==
    \/ HandlerStart(t)
    \/ HandlerItem(t)
    \/ \E dead \in SUBSET Client : HandlerSent(t, dead)
    \/ HandlerEnds(t)
    \/ HandlerCancelled(t)
    \/ HandlerAbsorbsCancel(t)
    \/ HandlerClosed(t)

Next ==
    \/ \E c \in Client : EndpointStep(c) \/ HandlerStep(c) \/ CloseEnds(c)
    \/ Shutdown
    \/ ShutdownTasksEnded
    \/ ShutdownEnds
    \/ Finished

Spec == Init /\ [][Next]_vars

\* The event loop runs every ready coroutine, sends and closes end within
\* their five-second timeouts, and a socket the server has closed (or that
\* the ping timeout gives up on) ends its receive loop.  Peers, upstream
\* items and the operator's shutdown are not obliged to happen.
Fairness ==
    \A c \in Client :
        /\ WF_vars(HandlerStart(c))
        /\ WF_vars(\E dead \in SUBSET Client : HandlerSent(c, dead))
        /\ WF_vars(HandlerCancelled(c))
        /\ WF_vars(HandlerClosed(c))
        /\ WF_vars(CloseEnds(c))
        /\ WF_vars(UnsubscribeTimesOut(c))
        /\ WF_vars(Unsubscribed(c))
        /\ WF_vars(closing[c] = "done" /\ Unsubscribe(c))
        /\ WF_vars(ShutdownTasksEnded)
        /\ WF_vars(ShutdownEnds)

FairSpec == Spec /\ Fairness

-----------------------------------------------------------------------------
(* Properties *)

\* Every variable holds what its declaration says; an endpoint that has
\* subscribed, and a task that exists, know their key, and an endpoint that
\* waits for a task knows which.
TypeOK ==
    /\ active_streams \in [Key -> {Absent} \union SUBSET Client]
    /\ upstream_tasks \in [Key -> Client \union {Absent}]
    /\ endpoint  \in [Client -> EndpointState]
    /\ key       \in [Client -> Key \union {Absent}]
    /\ awaiting  \in [Client -> Client \union {Absent}]
    /\ handler   \in [Client -> HandlerState]
    /\ cancelled \in [Client -> BOOLEAN]
    /\ batch     \in [Client -> SUBSET Client]
    /\ seq       \in [Client -> 0..MaxItems]
    /\ closing   \in [Client -> CloseState]
    /\ phase     \in Phase
    /\ draining  \subseteq Client
    /\ seen      \in [Client -> 0..MaxItems]
    /\ feeder    \in [Client -> Client \union {Absent}]
    /\ \A c \in Client :
          /\ endpoint[c] \in {"streaming", "leaving"} => key[c] \in Key
          /\ handler[c] # "none" => key[c] \in Key
          /\ endpoint[c] = "leaving" => awaiting[c] \in Client

\* One upstream per key: a key has clients exactly when it has a registered
\* task, that task is running and uncancelled, and every other running task
\* has been told to stop.  A leaked upstream or a bucket nobody feeds breaks
\* it (subscribe, unsubscribe, the two clean-ups of _upstream_handler).
OneUpstreamPerKey ==
    /\ \A k \in Key :
          /\ active_streams[k] # {}
          /\ active_streams[k] = Absent <=> upstream_tasks[k] = Absent
          /\ upstream_tasks[k] # Absent =>
                Active(upstream_tasks[k]) /\ key[upstream_tasks[k]] = k
    /\ \A t \in Client : Active(t) => upstream_tasks[key[t]] = t

\* A handler only ever sends to clients that joined under it: a cancelled
\* handler of a key never reaches the clients of its successor.
NoCrossGenerationSend ==
    \A t \in Client : handler[t] = "sending" =>
        \A c \in batch[t] : feeder[c] = t

\* While the service is up, an endpoint in its receive loop is either in the
\* bucket of its key, hence fed by a live upstream, or it is being (or has
\* been) closed: no client is left connected to silence.
NoSilentClient ==
    phase = "up" => \A c \in Client : endpoint[c] = "streaming" =>
        c \in Bucket(key[c]) \/ closing[c] # "none"

\* Buckets, tasks, cancellations and closes together implement Broadcast: the
\* sources are the upstream tasks, and a client listens to the one that was
\* registered when it joined.  No overlap of two generations of a key, no failed
\* or abandoned send and no close shows a client anything but one run of items
\* of one upstream: after its first item it misses none, because a client whose
\* send failed is popped before the next one, and it gets none after the service
\* began to close it.
GivenUp == {c \in Client : closing[c] # "none"}

OneRun == INSTANCE Broadcast WITH Clients <- Client, Sources <- Client, None <- Absent,
            source <- feeder, produced <- seq, got <- seen, dropped <- GivenUp

IsBroadcast == OneRun!Spec

\* A client is closed by one coroutine only, whatever the order in which its
\* send fails, its upstream ends and it leaves by itself.
ClosedOnce ==
    [][\A c \in Client : closing[c] # "none" =>
          closing'[c] \in {closing[c], "done"}]_vars

\* A client dropped by the server (failed send, ended upstream) gets out of
\* its receive loop, unless a shutdown intervenes.
DroppedClientLeaves ==
    \A c \in Client :
        endpoint[c] = "streaming" /\ key[c] # Absent /\ c \notin Bucket(key[c])
            ~> endpoint[c] = "closed" \/ phase # "up"

\* A cancelled handler ends, so the unsubscribe() that awaits it returns.
LeavingEnds ==
    \A c \in Client : endpoint[c] = "leaving" ~> endpoint[c] = "closed"

\* shutdown() returns.
ShutdownReturns == phase = "stopping" ~> phase = "down"

=============================================================================
