------------------------ MODULE StreamManagerProofs ------------------------
(* What holds of StreamManager for any number of clients, keys and items. *)
EXTENDS StreamManager, TLAPS

\* What active_streams.get(key) returns is a set of clients, empty if absent.
LEMMA BucketType ==
    ASSUME TypeOK, NEW k \in Key
    PROVE  /\ Bucket(k) \subseteq Client
           /\ active_streams[k] \in {Absent} \union SUBSET Client
           /\ upstream_tasks[k] \in Client \union {Absent}
BY DEF TypeOK, Bucket

\* The finally clause of a handler keeps the types, whoever runs it.
LEMMA FinallyType ==
    ASSUME TypeOK, NEW t \in Client, handler[t] # "none", Finally(t)
    PROVE  /\ active_streams' \in [Key -> {Absent} \union SUBSET Client]
           /\ upstream_tasks' \in [Key -> Client \union {Absent}]
           /\ closing' \in [Client -> CloseState]
           /\ batch' \in [Client -> SUBSET Client]
           /\ handler' \in [Client -> HandlerState]
           /\ \A c \in Client : handler[c] = "none" => handler'[c] = "none"
<1> DEFINE k == key[t]
<1>1. k \in Key
  BY DEF TypeOK
<1>2. LeftBehind(t) \subseteq Client
  BY <1>1, BucketType DEF LeftBehind
<1>3. /\ active_streams' \in [Key -> {Absent} \union SUBSET Client]
      /\ upstream_tasks' \in [Key -> Client \union {Absent}]
  BY <1>1 DEF Finally, TypeOK
<1>4. closing' \in [Client -> CloseState]
  BY DEF Finally, TypeOK, CloseState
<1>5. batch' \in [Client -> SUBSET Client]
  BY <1>2 DEF Finally, TypeOK
<1>6. /\ handler' \in [Client -> HandlerState]
      /\ \A c \in Client : handler[c] = "none" => handler'[c] = "none"
  BY DEF Finally, TypeOK, HandlerState
<1> QED
  BY <1>3, <1>4, <1>5, <1>6

\* Every step of the service keeps TypeOK.
LEMMA TypeStep == TypeOK /\ [Next]_vars => TypeOK'
<1> SUFFICES ASSUME TypeOK, [Next]_vars
             PROVE  TypeOK'
  OBVIOUS
<1> USE StreamManagerAssumption DEF mapVars, handlerVars
<1>1. ASSUME NEW c \in Client, Connect(c)
      PROVE  TypeOK'
  BY <1>1 DEF Connect, TypeOK, EndpointState
<1>2. ASSUME NEW c \in Client, HandshakeFails(c)
      PROVE  TypeOK'
  BY <1>2 DEF HandshakeFails, TypeOK, EndpointState
<1>3. ASSUME NEW c \in Client, NEW k \in Key, Subscribe(c, k)
      PROVE  TypeOK'
  <2>1. Bucket(k) \union {c} \subseteq Client
    BY BucketType
  <2> QED
    BY <1>3, <2>1 DEF Subscribe, KeyKept, TypeOK, EndpointState, HandlerState
<1>4. ASSUME NEW c \in Client, Unsubscribe(c)
      PROVE  TypeOK'
  <2>1. key[c] \in Key /\ Bucket(key[c]) \subseteq Client
    BY <1>4, BucketType DEF Unsubscribe, TypeOK
  <2>2. active_streams' \in [Key -> {Absent} \union SUBSET Client]
    BY <1>4, <2>1 DEF Unsubscribe, TypeOK
  <2>3. upstream_tasks' \in [Key -> Client \union {Absent}]
    BY <1>4, <2>1 DEF Unsubscribe, TypeOK
  <2>4. /\ cancelled' \in [Client -> BOOLEAN]
        /\ awaiting' \in [Client -> Client \union {Absent}]
        /\ endpoint' \in [Client -> EndpointState]
    <3> DEFINE t == upstream_tasks[key[c]]
    <3>1. CASE t \in Client
      <4>1. cancelled' = Cancel(t) \/ cancelled' = cancelled
        BY <1>4 DEF Unsubscribe
      <4>2. cancelled' \in [Client -> BOOLEAN]
        BY <3>1, <4>1 DEF Cancel, TypeOK
      <4> QED
        BY SMTT(20), <1>4, <3>1, <4>2 DEF Unsubscribe, TypeOK, EndpointState
    <3>2. CASE t = Absent
      BY <1>4, <3>2 DEF Unsubscribe, TypeOK, EndpointState
    <3> QED
      BY <2>1, <3>1, <3>2, BucketType
  <2>5. \A d \in Client : endpoint'[d] = "leaving" => awaiting'[d] \in Client
    BY <1>4, <2>1, BucketType DEF Unsubscribe, TypeOK
  <2>6. \A d \in Client : endpoint'[d] \in {"streaming", "leaving"} => key[d] \in Key
    BY <1>4, <2>1 DEF Unsubscribe, TypeOK
  <2> QED
    BY <1>4, <2>2, <2>3, <2>4, <2>5, <2>6 DEF Unsubscribe, TypeOK
<1>5. ASSUME NEW c \in Client, UnsubscribeTimesOut(c)
      PROVE  TypeOK'
  BY <1>5 DEF UnsubscribeTimesOut, Cancel, TypeOK
<1>6. ASSUME NEW c \in Client, Unsubscribed(c)
      PROVE  TypeOK'
  BY <1>6 DEF Unsubscribed, TypeOK, EndpointState
<1>7. ASSUME NEW t \in Client, HandlerStart(t)
      PROVE  TypeOK'
  BY <1>7 DEF HandlerStart, TypeOK, HandlerState
<1>8. ASSUME NEW t \in Client, HandlerItem(t)
      PROVE  TypeOK'
  <2>1. handler[t] # "none" /\ key[t] \in Key /\ Bucket(key[t]) \subseteq Client
    BY <1>8, BucketType DEF HandlerItem, TypeOK
  <2>2. seq' \in [Client -> 0..MaxItems]
    BY <1>8 DEF HandlerItem, TypeOK
  <2>3. CASE Finally(t)
    BY <1>8, <2>1, <2>2, <2>3, FinallyType DEF HandlerItem, TypeOK
  <2>4. CASE ~Finally(t)
    BY <1>8, <2>1, <2>2, <2>4 DEF HandlerItem, TypeOK, HandlerState
  <2> QED
    BY <2>3, <2>4
<1>9. ASSUME NEW t \in Client, NEW dead \in SUBSET Client, HandlerSent(t, dead)
      PROVE  TypeOK'
  <2>1. key[t] \in Key /\ WithoutDead(key[t], dead) \subseteq Client
    BY <1>9, BucketType DEF HandlerSent, TypeOK, WithoutDead
  <2> QED
    BY <1>9, <2>1 DEF HandlerSent, TypeOK, HandlerState, CloseState
<1>10. ASSUME NEW t \in Client, HandlerEnds(t)
       PROVE  TypeOK'
  BY <1>10, FinallyType DEF HandlerEnds, TypeOK
<1>11. ASSUME NEW t \in Client, HandlerCancelled(t)
       PROVE  TypeOK'
  <2>1. CASE handler[t] = "created"
    BY <1>11, <2>1 DEF HandlerCancelled, TypeOK, HandlerState
  <2>2. CASE handler[t] # "created"
    <3>1. Finally(t) /\ handler[t] # "none"
      BY <1>11, <2>2 DEF HandlerCancelled
    <3>2. seen' \in [Client -> 0..MaxItems]
      BY <1>11, <2>2 DEF HandlerCancelled, TypeOK
    <3> QED
      BY <1>11, <3>1, <3>2, FinallyType DEF HandlerCancelled, TypeOK
  <2> QED
    BY <2>1, <2>2
<1>12. ASSUME NEW t \in Client, HandlerAbsorbsCancel(t)
       PROVE  TypeOK'
  BY <1>12 DEF HandlerAbsorbsCancel, TypeOK, HandlerState
<1>13. ASSUME NEW t \in Client, HandlerClosed(t)
       PROVE  TypeOK'
  BY <1>13 DEF HandlerClosed, TypeOK, HandlerState
<1>14. ASSUME NEW c \in Client, CloseEnds(c)
       PROVE  TypeOK'
  BY <1>14 DEF CloseEnds, TypeOK, CloseState
<1>15. CASE Shutdown
  BY <1>15 DEF Shutdown, CancelAll, TypeOK, Phase
<1>16. CASE ShutdownTasksEnded
  BY <1>16 DEF ShutdownTasksEnded, TypeOK, Phase
<1>17. CASE ShutdownEnds
  BY <1>17 DEF ShutdownEnds, TypeOK, Phase
<1>18. CASE Finished \/ UNCHANGED vars
  BY <1>18 DEF Finished, vars, TypeOK
<1> QED
  BY <1>1, <1>2, <1>3, <1>4, <1>5, <1>6, <1>7, <1>8, <1>9, <1>10, <1>11, <1>12,
     <1>13, <1>14, <1>15, <1>16, <1>17, <1>18
  DEF Next, EndpointStep, HandlerStep

\* TypeOK holds in every state the fan-out of the service can reach.
THEOREM TypeCorrect == Spec => []TypeOK
<1>1. Init => TypeOK
  BY StreamManagerAssumption
  DEF Init, TypeOK, EndpointState, HandlerState, CloseState, Phase
<1> QED
  BY <1>1, TypeStep, PTL DEF Spec

-----------------------------------------------------------------------------
\* While the service is up every endpoint in its receive loop is in the bucket
\* of its key or is being closed: subscribe, unsubscribe, failed sends, ended
\* upstreams and cancellations included, on any interpreter.
THEOREM NobodyIsLeftInSilence == Spec => []NoSilentClient
<1>1. Init => NoSilentClient
  BY DEF Init, NoSilentClient
<1>2. TypeOK /\ NoSilentClient /\ [Next]_vars => NoSilentClient'
  <2> SUFFICES ASSUME TypeOK, NoSilentClient, [Next]_vars, phase' = "up",
                      NEW c \in Client, endpoint'[c] = "streaming"
               PROVE  c \in Bucket(key[c])' \/ closing'[c] # "none"
    BY DEF NoSilentClient
  <2> USE StreamManagerAssumption DEF mapVars, handlerVars
  <2>1. ASSUME NEW d \in Client, Finally(d), handler[d] # "none", UNCHANGED key,
               c \in Bucket(key[c]) \/ closing[c] # "none", key[c] \in Key
        PROVE  c \in Bucket(key[c])' \/ closing'[c] # "none"
    <3>1. CASE closing[c] # "none"
      BY <2>1, <3>1 DEF Finally
    <3>2. CASE c \in Bucket(key[c]) /\ key[c] = key[d] /\ StillRegistered(d)
      BY <2>1, <3>2 DEF Finally, LeftBehind
    <3>3. CASE c \in Bucket(key[c]) /\ ~(key[c] = key[d] /\ StillRegistered(d))
      BY <2>1, <3>3 DEF Finally, Bucket, TypeOK
    <3> QED
      BY <2>1, <3>1, <3>2, <3>3
  <2>2. ASSUME NEW k \in Key, Subscribe(c, k)
        PROVE  c \in Bucket(key[c])' \/ closing'[c] # "none"
    BY <2>2 DEF Subscribe, KeyKept, Bucket, TypeOK
  <2>3. ASSUME endpoint[c] = "streaming", phase = "up"
        PROVE  c \in Bucket(key[c])' \/ closing'[c] # "none"
    <3>0. /\ key[c] \in Key
          /\ c \in Bucket(key[c]) \/ closing[c] # "none"
      BY <2>3 DEF NoSilentClient, TypeOK
    <3>1. ASSUME UNCHANGED <<active_streams, key>>, closing'[c] # "none" \/ UNCHANGED closing
          PROVE  c \in Bucket(key[c])' \/ closing'[c] # "none"
      BY <3>0, <3>1 DEF Bucket
    <3>2. ASSUME NEW d \in Client, EndpointStep(d)
          PROVE  c \in Bucket(key[c])' \/ closing'[c] # "none"
      <4>1. ASSUME NEW k \in Key, Subscribe(d, k)
            PROVE  c \in Bucket(key[c])' \/ closing'[c] # "none"
        BY <2>3, <3>0, <4>1 DEF Subscribe, KeyKept, Bucket, TypeOK
      <4>2. CASE Unsubscribe(d)
        <5>1. d # c /\ key[d] \in Key /\ UNCHANGED <<key, closing>>
          BY <4>2 DEF Unsubscribe, TypeOK, EndpointState
        <5>2. CASE key[d] = key[c]
          BY <3>0, <4>2, <5>1, <5>2 DEF Unsubscribe, Bucket, TypeOK
        <5>3. CASE key[d] # key[c]
          BY <3>0, <4>2, <5>1, <5>3 DEF Unsubscribe, Bucket, TypeOK
        <5> QED
          BY <5>2, <5>3
      <4>3. CASE Connect(d) \/ HandshakeFails(d) \/ UnsubscribeTimesOut(d) \/ Unsubscribed(d)
        BY <3>1, <4>3 DEF Connect, HandshakeFails, UnsubscribeTimesOut, Unsubscribed
      <4> QED
        BY <3>2, <4>1, <4>2, <4>3 DEF EndpointStep
    <3>3. ASSUME NEW d \in Client, HandlerStep(d)
          PROVE  c \in Bucket(key[c])' \/ closing'[c] # "none"
      <4>1. ASSUME NEW dead \in SUBSET Client, HandlerSent(d, dead)
            PROVE  c \in Bucket(key[c])' \/ closing'[c] # "none"
        <5>1. key[d] \in Key /\ UNCHANGED key
          BY <4>1 DEF HandlerSent, TypeOK
        <5>2. CASE c \in dead \/ closing[c] # "none"
          BY <4>1, <5>2 DEF HandlerSent
        <5>3. CASE c \notin dead /\ c \in Bucket(key[c]) /\ key[d] = key[c]
          BY <3>0, <4>1, <5>1, <5>3 DEF HandlerSent, WithoutDead, Bucket, TypeOK
        <5>4. CASE c \in Bucket(key[c]) /\ key[d] # key[c]
          BY <3>0, <4>1, <5>1, <5>4 DEF HandlerSent, Bucket, TypeOK
        <5> QED
          BY <3>0, <5>2, <5>3, <5>4
      <4>2. CASE HandlerItem(d)
        BY <3>0, <3>1, <2>1, <4>2 DEF HandlerItem
      <4>3. CASE HandlerEnds(d)
        BY <3>0, <2>1, <4>3 DEF HandlerEnds
      <4>4. CASE HandlerCancelled(d)
        BY <3>0, <3>1, <2>1, <4>4 DEF HandlerCancelled
      <4>5. CASE HandlerStart(d) \/ HandlerAbsorbsCancel(d) \/ HandlerClosed(d)
        BY <3>1, <4>5 DEF HandlerStart, HandlerAbsorbsCancel, HandlerClosed
      <4> QED
        BY <3>3, <4>1, <4>2, <4>3, <4>4, <4>5 DEF HandlerStep
    <3>4. ASSUME NEW d \in Client, CloseEnds(d)
          PROVE  c \in Bucket(key[c])' \/ closing'[c] # "none"
      BY <3>0, <3>4 DEF CloseEnds, Bucket, TypeOK
    <3>5. CASE Shutdown \/ ShutdownTasksEnded \/ ShutdownEnds
      BY <2>3, <3>5 DEF Shutdown, ShutdownTasksEnded, ShutdownEnds
    <3>6. CASE Finished \/ UNCHANGED vars
      BY <3>1, <3>6 DEF Finished, vars
    <3> QED
      BY <3>2, <3>3, <3>4, <3>5, <3>6 DEF Next
  <2>4. phase = "up"
    BY ZenonT(30) DEF Next, vars, EndpointStep, HandlerStep, Connect, HandshakeFails, Subscribe,
       Unsubscribe, UnsubscribeTimesOut, Unsubscribed, HandlerStart, HandlerItem,
       HandlerSent, HandlerEnds, HandlerCancelled, HandlerAbsorbsCancel, HandlerClosed,
       CloseEnds, Shutdown, ShutdownTasksEnded, ShutdownEnds, Finished
  <2>5. ASSUME NEW d \in Client, EndpointStep(d), endpoint[c] # "streaming"
        PROVE  \E k \in Key : Subscribe(c, k)
    <3>1. ASSUME endpoint' = [endpoint EXCEPT ![d] = "handshake"]
                 \/ endpoint' = [endpoint EXCEPT ![d] = "closed"]
                 \/ endpoint' = [endpoint EXCEPT ![d] = "leaving"]
                 \/ endpoint' = endpoint
          PROVE  FALSE
      BY <2>5, <3>1 DEF TypeOK
    <3>2. ~(Connect(d) \/ HandshakeFails(d) \/ UnsubscribeTimesOut(d) \/ Unsubscribed(d))
      BY <3>1 DEF Connect, HandshakeFails, UnsubscribeTimesOut, Unsubscribed
    <3>3. ~Unsubscribe(d)
      BY <3>1 DEF Unsubscribe
    <3>4. ASSUME NEW k \in Key, Subscribe(d, k)
          PROVE  d = c
      BY <2>5, <3>4 DEF Subscribe, TypeOK
    <3> QED
      BY <2>5, <3>2, <3>3, <3>4 DEF EndpointStep
  <2>6. UNCHANGED endpoint \/ \E d \in Client : EndpointStep(d)
    BY DEF Next, vars, HandlerStep, HandlerStart, HandlerItem, HandlerSent,
       HandlerEnds, HandlerCancelled, HandlerAbsorbsCancel, HandlerClosed, CloseEnds,
       Shutdown, ShutdownTasksEnded, ShutdownEnds, Finished
  <2> QED
    BY <2>2, <2>3, <2>4, <2>5, <2>6
<1> QED
  BY <1>1, <1>2, TypeCorrect, PTL DEF Spec

-----------------------------------------------------------------------------
(* The registry invariant, for interpreters that deliver every cancellation *)

\* A connection that has not subscribed has no task, no feed, no items, and
\* nobody closes it.
FreshClients ==
    \A c \in Client : endpoint[c] \in {"idle", "handshake"} =>
        /\ handler[c] = "none" /\ closing[c] = "none"
        /\ feeder[c] = Absent /\ seen[c] = 0

\* Only tasks that exist are cancelled, and an endpoint waits only for a task
\* that has been.
Cancellations ==
    \A c \in Client :
        /\ handler[c] = "none" => ~cancelled[c]
        /\ endpoint[c] = "leaving" => cancelled[awaiting[c]]

\* A bucket holds clients of its key that joined under the registered task and
\* that nobody is closing.
Generations ==
    \A k \in Key : \A c \in Bucket(k) :
        key[c] = k /\ feeder[c] = upstream_tasks[k] /\ closing[c] = "none"

\* The same holds of the clients a send is under way to; no other batch exists
\* before the finally clause.
Batches ==
    \A t \in Client :
        /\ handler[t] = "sending" =>
              \A c \in batch[t] : feeder[c] = t /\ closing[c] = "none"
        /\ handler[t] \in {"none", "created", "opening", "iterating"} => batch[t] = {}

RegistryInv ==
    /\ TypeOK
    /\ OneUpstreamPerKey
    /\ FreshClients
    /\ Cancellations
    /\ Generations
    /\ Batches

\* Facts every step keeps, each action by itself.
LEMMA RegistryStep ==
    ASSUME LossyCancel = FALSE, RegistryInv, [Next]_vars
    PROVE  RegistryInv'
<1> USE StreamManagerAssumption DEF mapVars, handlerVars
<1>0. TypeOK /\ TypeOK'
  BY TypeStep DEF RegistryInv
<1>1. ASSUME NEW c \in Client, Connect(c) \/ HandshakeFails(c) \/ Unsubscribed(c) \/ CloseEnds(c)
      PROVE  RegistryInv'
  <2>0. UNCHANGED <<active_streams, upstream_tasks, key, handler, cancelled, batch, seen, feeder>>
    BY <1>1 DEF Connect, HandshakeFails, Unsubscribed, CloseEnds
  <2>1. \A d \in Client : closing[d] = "none" => closing'[d] = "none"
    BY <1>0, <1>1 DEF Connect, HandshakeFails, Unsubscribed, CloseEnds, TypeOK
  <2>2. \A d \in Client : /\ endpoint'[d] \in {"idle", "handshake"} => endpoint[d] \in {"idle", "handshake"}
                          /\ endpoint'[d] = "leaving" => endpoint[d] = "leaving" /\ awaiting'[d] = awaiting[d]
    BY <1>0, <1>1 DEF Connect, HandshakeFails, Unsubscribed, CloseEnds, TypeOK
  <2>3. OneUpstreamPerKey'
    BY <2>0 DEF RegistryInv, OneUpstreamPerKey, Active
  <2>4. FreshClients' /\ Cancellations'
    BY <2>0, <2>1, <2>2 DEF RegistryInv, FreshClients, Cancellations
  <2>5. Generations' /\ Batches'
    <3>1. \A k \in Key : Bucket(k)' = Bucket(k) /\ Bucket(k) \subseteq Client
      BY <1>0, <2>0, BucketType DEF Bucket
    <3> QED
      BY <1>0, <2>0, <2>1, <3>1 DEF RegistryInv, Generations, Batches, TypeOK
  <2> QED
    BY <1>0, <2>3, <2>4, <2>5 DEF RegistryInv
<1>2. ASSUME NEW c \in Client, NEW k \in Key, Subscribe(c, k)
      PROVE  RegistryInv'
  <2>0. handler[c] = "none" /\ ~cancelled[c] /\ feeder[c] = Absent
    BY <1>2 DEF Subscribe, RegistryInv, FreshClients, Cancellations
  <2>1. OneUpstreamPerKey'
    <3>1. \A t \in Client : Active(t) => t # c /\ Active(t)'
      BY <1>0, <1>2, <2>0 DEF Subscribe, Active, TypeOK
    <3>2. \A t \in Client : Active(t)' => t = c \/ Active(t)
      BY <1>0, <1>2, <2>0 DEF Subscribe, Active, TypeOK
    <3>3. \A t \in Client : t # c => key'[t] = key[t]
      BY <1>0, <1>2 DEF Subscribe, KeyKept, TypeOK
    <3>4. CASE active_streams[k] = Absent
      <4>1. /\ upstream_tasks' = [upstream_tasks EXCEPT ![k] = c]
            /\ active_streams' = [active_streams EXCEPT ![k] = {c}]
        <5>1. Bucket(k) \union {c} = {c}
          BY <3>4 DEF Bucket
        <5> QED
          BY <1>2, <3>4, <5>1 DEF Subscribe
      <4>3. Active(c)'
        BY <1>0, <1>2, <2>0, <3>4 DEF Subscribe, Active, TypeOK
      <4>4. key'[c] = k
        BY <1>0, <1>2 DEF Subscribe, KeyKept, TypeOK
      <4>2. upstream_tasks[k] = Absent
        BY <3>4 DEF RegistryInv, OneUpstreamPerKey
      <4>5. ASSUME NEW j \in Key
            PROVE  /\ active_streams'[j] # {}
                   /\ active_streams'[j] = Absent <=> upstream_tasks'[j] = Absent
                   /\ upstream_tasks'[j] # Absent =>
                         Active(upstream_tasks[j])' /\ key'[upstream_tasks'[j]] = j
        <5>1. CASE j = k
          BY <1>0, <4>1, <4>3, <4>4, <5>1 DEF TypeOK
        <5>2. CASE j # k
          <6>1. /\ active_streams'[j] = active_streams[j]
                /\ upstream_tasks'[j] = upstream_tasks[j]
            BY <1>0, <4>1, <5>2 DEF TypeOK
          <6>2. CASE upstream_tasks[j] = Absent
            BY <6>1, <6>2 DEF RegistryInv, OneUpstreamPerKey
          <6>3. CASE upstream_tasks[j] \in Client
            <7>1. Active(upstream_tasks[j]) /\ key[upstream_tasks[j]] = j
              BY <6>3 DEF RegistryInv, OneUpstreamPerKey
            <7>2. /\ upstream_tasks[j] # c
                  /\ (Active(upstream_tasks[j]))'
              BY <3>1, <6>1, <6>3, <7>1 DEF Active
            <7>3. key'[upstream_tasks[j]] = j
              BY <3>3, <6>3, <7>1, <7>2
            <7> QED
              BY <6>1, <6>3, <7>2, <7>3 DEF RegistryInv, OneUpstreamPerKey
          <6> QED
            BY <1>0, <6>2, <6>3 DEF TypeOK
        <5> QED
          BY <5>1, <5>2
      <4>6. ASSUME NEW t \in Client, Active(t)'
            PROVE  upstream_tasks'[key'[t]] = t
        <5>1. CASE t = c
          BY <1>0, <4>1, <4>4, <5>1 DEF TypeOK
        <5>2. CASE t # c
          BY <1>0, <3>2, <3>3, <4>1, <4>2, <4>6, <5>2
          DEF RegistryInv, OneUpstreamPerKey, TypeOK, Active
        <5> QED
          BY <5>1, <5>2
      <4> QED
        BY <4>5, <4>6 DEF OneUpstreamPerKey
    <3>5. CASE active_streams[k] # Absent
      <4>1. /\ upstream_tasks' = upstream_tasks
            /\ active_streams' = [active_streams EXCEPT ![k] = active_streams[k] \union {c}]
            /\ ~Active(c)'
        BY <1>0, <1>2, <2>0, <3>5 DEF Subscribe, Active, Bucket, TypeOK
      <4> QED
        BY <1>0, <3>1, <3>2, <3>3, <3>5, <4>1 DEF RegistryInv, OneUpstreamPerKey, TypeOK
    <3> QED
      BY <3>4, <3>5
  <2>2. FreshClients'
    BY <1>0, <1>2 DEF Subscribe, RegistryInv, TypeOK, FreshClients
  <2>3. Cancellations'
    BY <1>0, <1>2 DEF Subscribe, RegistryInv, TypeOK, Cancellations
  <2>4. Generations'
    <3> SUFFICES ASSUME NEW j \in Key, NEW d \in Bucket(j)'
                 PROVE  key'[d] = j /\ feeder'[d] = upstream_tasks'[j] /\ closing'[d] = "none"
      BY DEF Generations
    <3>1. CASE d = c /\ j = k
      <4>1. closing[c] = "none"
        BY <1>2 DEF Subscribe, RegistryInv, FreshClients
      <4> QED
        BY <1>0, <1>2, <3>1, <4>1 DEF Subscribe, KeyKept, TypeOK
    <3>2. CASE d # c \/ j # k
      <4>1. d \in Bucket(j) /\ d \in Client
        BY <1>0, <1>2, <3>2, BucketType DEF Subscribe, Bucket, TypeOK
      <4>2. feeder[d] = upstream_tasks[j] /\ upstream_tasks[j] # Absent
        BY <4>1 DEF RegistryInv, Generations, OneUpstreamPerKey, Bucket
      <4>3. d # c
        BY <2>0, <4>2
      <4>4. upstream_tasks'[j] = upstream_tasks[j]
        BY <1>0, <1>2, <4>2 DEF Subscribe, RegistryInv, OneUpstreamPerKey, TypeOK
      <4> QED
        BY <1>0, <1>2, <4>1, <4>2, <4>3, <4>4
        DEF Subscribe, KeyKept, RegistryInv, Generations, TypeOK
    <3> QED
      BY <3>1, <3>2
  <2>5. Batches'
    BY <1>0, <1>2, <2>0 DEF Subscribe, RegistryInv, TypeOK, Batches
  <2> QED
    BY <1>0, <2>1, <2>2, <2>3, <2>4, <2>5 DEF RegistryInv
<1>3. ASSUME NEW c \in Client, Unsubscribe(c)
      PROVE  RegistryInv'
  <2>1. OneUpstreamPerKey'
    BY <1>0, <1>3
    DEF Unsubscribe, Cancel, RegistryInv, TypeOK, OneUpstreamPerKey, Active, Bucket
  <2>2. FreshClients'
    BY <1>0, <1>3 DEF Unsubscribe, RegistryInv, TypeOK, FreshClients
  <2>3. Cancellations'
    BY <1>0, <1>3
    DEF Unsubscribe, Cancel, RegistryInv, TypeOK, Cancellations, Active,
        OneUpstreamPerKey
  <2>4. Generations'
    BY <1>0, <1>3 DEF Unsubscribe, RegistryInv, TypeOK, Generations, Bucket
  <2>5. Batches'
    BY <1>0, <1>3 DEF Unsubscribe, RegistryInv, Batches
  <2> QED
    BY <1>0, <2>1, <2>2, <2>3, <2>4, <2>5 DEF RegistryInv
<1>4. ASSUME NEW c \in Client, UnsubscribeTimesOut(c)
      PROVE  RegistryInv'
  <2>1. OneUpstreamPerKey'
    BY <1>0, <1>4 DEF UnsubscribeTimesOut, RegistryInv, Active, Cancellations
  <2>2. FreshClients'
    BY <1>4 DEF UnsubscribeTimesOut, RegistryInv, FreshClients
  <2>3. Cancellations'
    BY <1>4 DEF UnsubscribeTimesOut, RegistryInv, Cancellations, Active
  <2>4. Generations'
    BY <1>4 DEF UnsubscribeTimesOut, RegistryInv, Generations, Bucket
  <2>5. Batches'
    BY <1>4 DEF UnsubscribeTimesOut, RegistryInv, Batches
  <2> QED
    BY <1>0, <2>1, <2>2, <2>3, <2>4, <2>5 DEF RegistryInv
<1>5. ASSUME NEW t \in Client, HandlerStart(t)
      PROVE  RegistryInv'
  <2>1. OneUpstreamPerKey'
    BY <1>0, <1>5 DEF HandlerStart, RegistryInv, TypeOK, OneUpstreamPerKey, Active
  <2>2. FreshClients'
    BY <1>0, <1>5 DEF HandlerStart, RegistryInv, TypeOK, FreshClients
  <2>3. Cancellations'
    BY <1>0, <1>5 DEF HandlerStart, RegistryInv, TypeOK, Cancellations
  <2>4. Generations'
    BY <1>5 DEF HandlerStart, RegistryInv, Generations, Bucket
  <2>5. Batches'
    BY <1>0, <1>5 DEF HandlerStart, RegistryInv, TypeOK, Batches
  <2> QED
    BY <1>0, <2>1, <2>2, <2>3, <2>4, <2>5 DEF RegistryInv
<1>6. ASSUME NEW t \in Client, HandlerItem(t)
      PROVE  RegistryInv'
  <2>0. /\ batch' = [batch EXCEPT ![t] = Bucket(key[t])]
        /\ handler' = [handler EXCEPT ![t] = "sending"]
        /\ UNCHANGED <<mapVars, closing>>
    BY <1>0, <1>6 DEF HandlerItem, RegistryInv, OneUpstreamPerKey, Active, Bucket, TypeOK
  <2>1. OneUpstreamPerKey'
    BY <1>0, <1>6, <2>0 DEF HandlerItem, RegistryInv, TypeOK, OneUpstreamPerKey, Active
  <2>2. FreshClients'
    BY <1>0, <1>6, <2>0 DEF HandlerItem, RegistryInv, TypeOK, FreshClients
  <2>3. Cancellations'
    BY <1>0, <1>6, <2>0 DEF HandlerItem, RegistryInv, TypeOK, Cancellations
  <2>4. Generations'
    BY <1>6, <2>0 DEF HandlerItem, RegistryInv, Generations, Bucket
  <2>5. Batches'
    BY <1>0, <1>6, <2>0
    DEF HandlerItem, RegistryInv, TypeOK, Batches, OneUpstreamPerKey, Active,
        Generations
  <2> QED
    BY <1>0, <2>1, <2>2, <2>3, <2>4, <2>5 DEF RegistryInv
<1>7. ASSUME NEW t \in Client, NEW dead \in SUBSET Client, HandlerSent(t, dead)
      PROVE  RegistryInv'
  <2>1. OneUpstreamPerKey'
    <3> DEFINE emptied == dead # {} /\ WithoutDead(key[t], dead) = {}
    <3>0. /\ key[t] \in Key /\ upstream_tasks[key[t]] = t
          /\ active_streams[key[t]] # Absent
          /\ Bucket(key[t]) = active_streams[key[t]]
      BY <1>0, <1>7 DEF HandlerSent, RegistryInv, OneUpstreamPerKey, Active, TypeOK, Bucket
    <3>1. \A d \in Client : d # t => (Active(d)' <=> Active(d))
      BY <1>0, <1>7 DEF HandlerSent, Active, TypeOK
    <3>2. CASE emptied
      <4>1. /\ active_streams' = [active_streams EXCEPT ![key[t]] = Absent]
            /\ upstream_tasks' = [upstream_tasks EXCEPT ![key[t]] = Absent]
            /\ ~Active(t)' /\ UNCHANGED key
        <5>1. handler' = [handler EXCEPT ![t] = "done"] /\ UNCHANGED key
          BY <1>7, <3>0, <3>2 DEF HandlerSent
        <5>2. ~Active(t)'
          BY <1>0, <5>1 DEF Active, TypeOK
        <5>3. /\ active_streams' = [active_streams EXCEPT ![key[t]] = Absent]
              /\ upstream_tasks' = [upstream_tasks EXCEPT ![key[t]] = Absent]
          BY <1>7, <3>0, <3>2 DEF HandlerSent
        <5> QED
          BY <5>1, <5>2, <5>3
      <4>2. \A j \in Key : j # key[t] => upstream_tasks[j] # t
        BY <1>0, <3>0 DEF RegistryInv, OneUpstreamPerKey, TypeOK
      <4>3. \A d \in Client : d # t /\ Active(d) => key[d] \in Key /\ key[d] # key[t]
        BY <1>0, <3>0 DEF RegistryInv, OneUpstreamPerKey, TypeOK, Active
      <4>4. \A j \in Key : j # key[t] => Active(upstream_tasks[j])' = Active(upstream_tasks[j])
                                       \/ upstream_tasks[j] = Absent
        BY <1>0, <1>7, <4>1, <4>2 DEF HandlerSent, TypeOK, Active
      <4>5. ASSUME NEW j \in Key
            PROVE  /\ active_streams'[j] # {}
                   /\ active_streams'[j] = Absent <=> upstream_tasks'[j] = Absent
                   /\ upstream_tasks'[j] # Absent =>
                         Active(upstream_tasks[j])' /\ key'[upstream_tasks'[j]] = j
        BY <1>0, <4>1, <4>4 DEF RegistryInv, OneUpstreamPerKey, TypeOK
      <4>6. ASSUME NEW d \in Client, Active(d)'
            PROVE  upstream_tasks'[key'[d]] = d
        BY <1>0, <3>1, <4>1, <4>3, <4>6 DEF RegistryInv, OneUpstreamPerKey, TypeOK
      <4> QED
        BY <4>5, <4>6 DEF OneUpstreamPerKey
    <3>3. CASE ~emptied
      <4>1. /\ active_streams' = [active_streams EXCEPT ![key[t]] = @ \ dead]
            /\ active_streams[key[t]] \ dead # {}
            /\ UNCHANGED <<upstream_tasks, key>>
        <5>1. WithoutDead(key[t], dead) = active_streams[key[t]] \ dead
          BY <3>0 DEF WithoutDead
        <5>2. /\ active_streams' = [active_streams EXCEPT ![key[t]] = WithoutDead(key[t], dead)]
              /\ upstream_tasks' = [upstream_tasks EXCEPT ![key[t]] = upstream_tasks[key[t]]]
              /\ UNCHANGED key
          BY <1>7, <3>0, <3>3 DEF HandlerSent
        <5>3. active_streams[key[t]] \ dead # {}
          BY <3>0, <3>3, <5>1 DEF RegistryInv, OneUpstreamPerKey
        <5>4. UNCHANGED upstream_tasks
          BY <1>0, <3>0, <5>2 DEF TypeOK
        <5> QED
          BY <5>1, <5>2, <5>3, <5>4
      <4>2. Active(t) /\ Active(t)'
        BY <1>0, <1>7, <3>0, <3>3 DEF HandlerSent, Active, TypeOK
      <4>3. \A d \in Client : Active(d)' <=> Active(d)
        BY <3>1, <4>2
      <4>4. ASSUME NEW j \in Key
            PROVE  /\ active_streams'[j] # {}
                   /\ active_streams'[j] = Absent <=> active_streams[j] = Absent
        BY <1>0, <3>0, <4>1 DEF RegistryInv, OneUpstreamPerKey, TypeOK
      <4>5. ASSUME NEW j \in Key, upstream_tasks[j] # Absent
            PROVE  Active(upstream_tasks[j])' /\ key[upstream_tasks[j]] = j
        <5>1. upstream_tasks[j] \in Client /\ Active(upstream_tasks[j]) /\ key[upstream_tasks[j]] = j
          BY <1>0, <4>5 DEF RegistryInv, OneUpstreamPerKey, TypeOK
        <5> QED
          BY <1>7, <4>1, <4>3, <5>1 DEF HandlerSent, Active
      <4> QED
        BY <4>1, <4>3, <4>4, <4>5 DEF RegistryInv, OneUpstreamPerKey
    <3> QED
      BY <3>2, <3>3
  <2>2. FreshClients'
    BY <1>0, <1>7 DEF HandlerSent, RegistryInv, TypeOK, FreshClients, Batches
  <2>3. Cancellations'
    BY <1>0, <1>7 DEF HandlerSent, RegistryInv, TypeOK, Cancellations
  <2>4. Generations'
    BY <1>0, <1>7
    DEF HandlerSent, WithoutDead, RegistryInv, TypeOK, Generations, Bucket,
        OneUpstreamPerKey, Active, Batches
  <2>5. Batches'
    BY <1>0, <1>7 DEF HandlerSent, RegistryInv, TypeOK, Batches
  <2> QED
    BY <1>0, <2>1, <2>2, <2>3, <2>4, <2>5 DEF RegistryInv
<1>8. ASSUME NEW t \in Client, HandlerEnds(t)
      PROVE  RegistryInv'
  <2>1. OneUpstreamPerKey'
    BY <1>0, <1>8
    DEF HandlerEnds, Finally, LeftBehind, StillRegistered, RegistryInv, TypeOK,
        OneUpstreamPerKey, Active
  <2>2. FreshClients'
    <3>1. \A d \in LeftBehind(t) : feeder[d] # Absent
      BY <1>0, <1>8 DEF HandlerEnds, LeftBehind, StillRegistered, RegistryInv, Generations, TypeOK
    <3>2. \A d \in Client : endpoint'[d] \in {"idle", "handshake"} => d \notin LeftBehind(t)
      BY <1>8, <3>1 DEF HandlerEnds, RegistryInv, FreshClients
    <3> QED
      BY <1>0, <1>8, <3>2 DEF HandlerEnds, Finally, RegistryInv, TypeOK, FreshClients
  <2>3. Cancellations'
    BY <1>0, <1>8 DEF HandlerEnds, Finally, RegistryInv, TypeOK, Cancellations
  <2>4. Generations'
    BY <1>0, <1>8
    DEF HandlerEnds, Finally, LeftBehind, StillRegistered, RegistryInv, TypeOK,
        Generations, Bucket
  <2>5. Batches'
    BY <1>0, <1>8
    DEF HandlerEnds, Finally, LeftBehind, StillRegistered, RegistryInv, TypeOK, Batches,
        OneUpstreamPerKey, Active, Generations
  <2> QED
    BY <1>0, <2>1, <2>2, <2>3, <2>4, <2>5 DEF RegistryInv
<1>9. ASSUME NEW t \in Client, HandlerCancelled(t)
      PROVE  RegistryInv'
  <2>1. OneUpstreamPerKey'
    BY <1>0, <1>9
    DEF HandlerCancelled, Finally, LeftBehind, StillRegistered, RegistryInv, TypeOK,
        OneUpstreamPerKey, Active
  <2>2. FreshClients'
    <3>1. \A d \in LeftBehind(t) : handler[t] \notin {"none", "created"} => feeder[d] # Absent
      BY <1>0 DEF LeftBehind, StillRegistered, RegistryInv, Generations, TypeOK
    <3>2. \A d \in batch[t] : handler[t] \in {"created", "opening", "iterating", "sending"} => feeder[d] # Absent
      BY <1>0 DEF RegistryInv, Batches, TypeOK
    <3>3. CASE handler[t] = "created"
      BY <1>0, <1>9, <3>3 DEF HandlerCancelled, RegistryInv, TypeOK, FreshClients
    <3>4. CASE handler[t] # "created"
      <4>1. \A d \in Client : endpoint'[d] \in {"idle", "handshake"} =>
               d \notin LeftBehind(t) /\ d \notin batch[t]
        BY <1>9, <3>1, <3>2, <3>4 DEF HandlerCancelled, RegistryInv, FreshClients
      <4>2. \A d \in Client : endpoint'[d] \in {"idle", "handshake"} =>
               seen'[d] = seen[d] /\ closing'[d] = closing[d] /\ d # t
        BY <1>0, <1>9, <3>4, <4>1 DEF HandlerCancelled, Finally, RegistryInv, FreshClients
      <4> QED
        BY <1>0, <1>9, <3>4, <4>2 DEF HandlerCancelled, Finally, RegistryInv, TypeOK, FreshClients
    <3> QED
      BY <3>3, <3>4
  <2>3. Cancellations'
    BY <1>0, <1>9 DEF HandlerCancelled, Finally, RegistryInv, TypeOK, Cancellations
  <2>4. Generations'
    BY <1>0, <1>9
    DEF HandlerCancelled, Finally, LeftBehind, StillRegistered, RegistryInv, TypeOK,
        Generations, Bucket
  <2>5. Batches'
    BY <1>0, <1>9
    DEF HandlerCancelled, Finally, LeftBehind, StillRegistered, RegistryInv, TypeOK,
        Batches, OneUpstreamPerKey, Active, Generations
  <2> QED
    BY <1>0, <2>1, <2>2, <2>3, <2>4, <2>5 DEF RegistryInv
<1>10. ASSUME NEW t \in Client, HandlerClosed(t)
      PROVE  RegistryInv'
  <2>1. OneUpstreamPerKey'
    BY <1>0, <1>10 DEF HandlerClosed, RegistryInv, TypeOK, OneUpstreamPerKey, Active
  <2>2. FreshClients'
    BY <1>0, <1>10 DEF HandlerClosed, RegistryInv, TypeOK, FreshClients
  <2>3. Cancellations'
    BY <1>0, <1>10 DEF HandlerClosed, RegistryInv, TypeOK, Cancellations
  <2>4. Generations'
    BY <1>10 DEF HandlerClosed, RegistryInv, Generations, Bucket
  <2>5. Batches'
    BY <1>0, <1>10 DEF HandlerClosed, RegistryInv, TypeOK, Batches
  <2> QED
    BY <1>0, <2>1, <2>2, <2>3, <2>4, <2>5 DEF RegistryInv
<1>11. CASE Shutdown
  <2>1. OneUpstreamPerKey'
    <3>1. \A t \in Client : Active(t) => t \in draining'
      BY <1>0, <1>11 DEF Shutdown, RegistryInv, OneUpstreamPerKey, Active, TypeOK
    <3>2. \A t \in Client : ~Active(t)'
      BY <1>11, <3>1 DEF Shutdown, CancelAll, Active
    <3> QED
      BY <1>0, <1>11, <3>2 DEF Shutdown, OneUpstreamPerKey
  <2>2. FreshClients'
    BY <1>11 DEF Shutdown, RegistryInv, FreshClients
  <2>3. Cancellations'
    BY <1>0, <1>11
    DEF Shutdown, CancelAll, RegistryInv, TypeOK, Cancellations, Active,
        OneUpstreamPerKey
  <2>4. Generations'
    BY <1>11 DEF Shutdown, Generations, Bucket
  <2>5. Batches'
    BY <1>11 DEF Shutdown, RegistryInv, Batches
  <2> QED
    BY <1>0, <2>1, <2>2, <2>3, <2>4, <2>5 DEF RegistryInv
<1>12. CASE ShutdownTasksEnded \/ ShutdownEnds \/ Finished \/ UNCHANGED vars
  <2>1. UNCHANGED <<active_streams, upstream_tasks, endpoint, key, awaiting, handler,
                    cancelled, batch, closing, seen, feeder>>
    BY <1>12 DEF ShutdownTasksEnded, ShutdownEnds, Finished, vars
  <2> QED
    BY <1>0, <2>1 DEF RegistryInv, OneUpstreamPerKey, Active, FreshClients, Cancellations,
       Generations, Batches, Bucket
<1>13. ASSUME NEW t \in Client, HandlerAbsorbsCancel(t)
       PROVE  FALSE
  BY <1>13 DEF HandlerAbsorbsCancel
<1> QED
  BY <1>1, <1>2, <1>3, <1>4, <1>5, <1>6, <1>7, <1>8, <1>9, <1>10, <1>11, <1>12, <1>13
  DEF Next, EndpointStep, HandlerStep

\* The registry invariant holds in every reachable state.
LEMMA RegistryHolds ==
    ASSUME LossyCancel = FALSE
    PROVE  Spec => []RegistryInv
<1>1. Init => RegistryInv
  <2> SUFFICES ASSUME Init
               PROVE  RegistryInv
    OBVIOUS
  <2>1. TypeOK
    BY StreamManagerAssumption
    DEF Init, TypeOK, EndpointState, HandlerState, CloseState, Phase
  <2>2. OneUpstreamPerKey
    BY StreamManagerAssumption DEF Init, OneUpstreamPerKey, Active
  <2>3. FreshClients /\ Cancellations /\ Generations /\ Batches
    BY DEF Init, FreshClients, Cancellations, Generations, Batches, Bucket
  <2> QED
    BY <2>1, <2>2, <2>3 DEF RegistryInv
<1> QED
  BY <1>1, RegistryStep, PTL DEF Spec

\* Every key with clients has exactly one registered, running and uncancelled
\* upstream task, and every other running task has been told to stop.
THEOREM OneUpstreamFeedsAKey ==
    ASSUME LossyCancel = FALSE
    PROVE  Spec => []OneUpstreamPerKey
<1>1. RegistryInv => OneUpstreamPerKey
  BY DEF RegistryInv
<1> QED
  BY <1>1, RegistryHolds, PTL

\* No handler ever sends to a client that joined under another one, although
\* _upstream_handler looks its clients up by key.
THEOREM HandlersKeepToTheirClients ==
    ASSUME LossyCancel = FALSE
    PROVE  Spec => []NoCrossGenerationSend
<1>1. RegistryInv => NoCrossGenerationSend
  BY DEF RegistryInv, Batches, NoCrossGenerationSend
<1> QED
  BY <1>1, RegistryHolds, PTL

\* The finally clause closes only clients nobody else is closing.
LEMMA FinallyCloses ==
    ASSUME RegistryInv, NEW t \in Client, key[t] \in Key, Finally(t), NEW c \in Client,
           closing[c] # "none"
    PROVE  closing'[c] = closing[c]
BY DEF Finally, LeftBehind, RegistryInv, Generations, TypeOK

\* A client is closed by one coroutine only: the failed-send path, the finally
\* clause of its handler and its own departure never overlap.
THEOREM NobodyIsClosedTwice ==
    ASSUME LossyCancel = FALSE
    PROVE  Spec => ClosedOnce
<1>1. ASSUME RegistryInv, [Next]_vars
      PROVE  [\A c \in Client : closing[c] # "none" =>
                 closing'[c] \in {closing[c], "done"}]_vars
  <2> SUFFICES ASSUME NEW c \in Client, closing[c] # "none"
               PROVE  closing'[c] \in {closing[c], "done"}
    OBVIOUS
  <2>1. ASSUME NEW t \in Client, HandlerItem(t) \/ HandlerEnds(t) \/ HandlerCancelled(t)
        PROVE  closing'[c] \in {closing[c], "done"}
    <3>1. key[t] \in Key
      BY <1>1, <2>1 DEF HandlerItem, HandlerEnds, HandlerCancelled, RegistryInv, TypeOK
    <3>2. Finally(t) \/ UNCHANGED closing
      BY <2>1 DEF HandlerItem, HandlerEnds, HandlerCancelled
    <3> QED
      BY <1>1, <3>1, <3>2, FinallyCloses
  <2>2. ASSUME NEW t \in Client, NEW dead \in SUBSET Client, HandlerSent(t, dead)
        PROVE  closing'[c] \in {closing[c], "done"}
    <3>1. c \notin dead
      BY <1>1, <2>2 DEF HandlerSent, RegistryInv, Batches
    <3> QED
      BY <2>2, <3>1 DEF HandlerSent
  <2>3. ASSUME NEW d \in Client, CloseEnds(d)
        PROVE  closing'[c] \in {closing[c], "done"}
    BY <1>1, <2>3 DEF CloseEnds, RegistryInv, TypeOK
  <2>4. ASSUME NEW d \in Client,
               EndpointStep(d) \/ HandlerStart(d) \/ HandlerAbsorbsCancel(d) \/ HandlerClosed(d)
        PROVE  closing'[c] \in {closing[c], "done"}
    BY <2>4 DEF EndpointStep, Connect, HandshakeFails, Subscribe, Unsubscribe,
       UnsubscribeTimesOut, Unsubscribed, HandlerStart, HandlerAbsorbsCancel, HandlerClosed
  <2>5. CASE Shutdown \/ ShutdownTasksEnded \/ ShutdownEnds \/ Finished \/ UNCHANGED vars
    BY <2>5 DEF Shutdown, ShutdownTasksEnded, ShutdownEnds, Finished, vars
  <2> QED
    BY <1>1, <2>1, <2>2, <2>3, <2>4, <2>5 DEF Next, HandlerStep
<1> QED
  BY <1>1, RegistryHolds, PTL DEF Spec, ClosedOnce

-----------------------------------------------------------------------------
(* No gaps *)

\* How far the clients of a handler have got, compared with its stream.
Progress ==
    \A t \in Client :
        /\ handler[t] \in {"none", "created", "opening"} => seq[t] = 0
        /\ handler[t] \in {"created", "opening", "iterating"} /\ ~cancelled[t] =>
              \A c \in Bucket(key[t]) : seen[c] \in {0, seq[t]}
        /\ handler[t] = "sending" =>
              /\ seq[t] # 0
              /\ \A c \in batch[t] : seen[c] = 0 \/ seen[c] + 1 = seq[t]
              /\ ~cancelled[t] => \A c \in Bucket(key[t]) \ batch[t] : seen[c] = 0

\* The clients that two handlers serve are different ones.
LEMMA Disjoint ==
    ASSUME RegistryInv, NEW t \in Client, NEW d \in Client, d # t,
           handler[t] \in {"opening", "iterating", "sending"}, NEW c \in batch[t]
    PROVE  /\ Active(d) => c \notin Bucket(key[d])
           /\ handler[d] = "sending" => c \notin batch[d]
<1>1. handler[t] = "sending" /\ feeder[c] = t
  BY DEF RegistryInv, Batches
<1>2. ASSUME Active(d), c \in Bucket(key[d])
      PROVE  FALSE
  <2>1. key[d] \in Key /\ upstream_tasks[key[d]] = d
    BY <1>2 DEF RegistryInv, OneUpstreamPerKey, Active, TypeOK
  <2>2. feeder[c] = d
    BY <1>2, <2>1 DEF RegistryInv, Generations
  <2> QED
    BY <1>1, <2>2
<1>3. handler[d] = "sending" => c \notin batch[d]
  BY <1>1 DEF RegistryInv, Batches
<1> QED
  BY <1>2, <1>3

\* Every step keeps Progress.
LEMMA ProgressStep ==
    ASSUME LossyCancel = FALSE, RegistryInv, Progress, [Next]_vars
    PROVE  Progress'
<1> USE StreamManagerAssumption DEF mapVars, handlerVars
<1>0. TypeOK /\ TypeOK'
  BY TypeStep DEF RegistryInv
<1> DEFINE Kept(t) ==
             /\ handler'[t] \in {"none", "created", "opening"} => seq'[t] = 0
             /\ handler'[t] \in {"created", "opening", "iterating"} /\ ~cancelled'[t] =>
                   \A c \in Bucket(key[t])' : seen'[c] \in {0, seq'[t]}
             /\ handler'[t] = "sending" =>
                   /\ seq'[t] # 0
                   /\ \A c \in batch'[t] : seen'[c] = 0 \/ seen'[c] + 1 = seq'[t]
                   /\ ~cancelled'[t] =>
                         \A c \in Bucket(key[t])' \ batch'[t] : seen'[c] = 0
<1>a. (\A t \in Client : Kept(t)) => Progress'
  BY DEF Progress
<1>f. ASSUME NEW t \in Client,
             handler'[t] = handler[t], batch'[t] = batch[t], seq'[t] = seq[t],
             cancelled[t] => cancelled'[t],
             Active(t) => Bucket(key[t])' \subseteq Bucket(key[t]),
             Active(t) => \A c \in Bucket(key[t]) : seen'[c] = seen[c],
             handler[t] = "sending" => \A c \in batch[t] : seen'[c] = seen[c]
      PROVE  Kept(t)
  BY <1>f DEF Progress, Active
<1>1. ASSUME NEW d \in Client, Connect(d) \/ HandshakeFails(d) \/ UnsubscribeTimesOut(d)
             \/ Unsubscribed(d) \/ CloseEnds(d)
      PROVE  Progress'
  <2>1. UNCHANGED <<handler, batch, seq, seen, key, active_streams>>
    BY <1>1 DEF Connect, HandshakeFails, UnsubscribeTimesOut, Unsubscribed, CloseEnds
  <2>2. \A t \in Client : cancelled[t] => cancelled'[t]
    BY <1>0, <1>1 DEF Connect, HandshakeFails, UnsubscribeTimesOut, Cancel, Unsubscribed,
       CloseEnds, TypeOK
  <2> QED
    BY <1>a, <1>f, <2>1, <2>2 DEF Bucket
<1>2. ASSUME NEW d \in Client, NEW k \in Key, Subscribe(d, k)
      PROVE  Progress'
  <2>0. handler[d] = "none" /\ seq[d] = 0 /\ seen[d] = 0
    BY <1>2 DEF Subscribe, RegistryInv, FreshClients, Progress
  <2>1. ASSUME NEW t \in Client, t # d
        PROVE  Kept(t)
    <3>1. /\ handler'[t] = handler[t] /\ key'[t] = key[t] /\ UNCHANGED <<cancelled, batch, seq, seen>>
      BY <1>0, <1>2, <2>1 DEF Subscribe, KeyKept, TypeOK
    <3>2. handler[t] # "none" => Bucket(key[t])' \subseteq Bucket(key[t]) \union {d}
      BY <1>0, <1>2, <3>1 DEF Subscribe, Bucket, TypeOK
    <3> QED
      BY <2>0, <3>1, <3>2 DEF Progress
  <2>2. Kept(d)
    <3>1. CASE active_streams[k] = Absent
      <4>1. Bucket(key[d])' = {d}
        BY <1>0, <1>2, <3>1 DEF Subscribe, KeyKept, Bucket, TypeOK
      <4>2. handler'[d] = "created" /\ UNCHANGED <<seq, seen>>
        BY <1>0, <1>2, <3>1 DEF Subscribe, TypeOK
      <4> QED
        BY <2>0, <4>1, <4>2
    <3>2. CASE active_streams[k] # Absent
      BY <1>2, <2>0, <3>2 DEF Subscribe
    <3> QED
      BY <3>1, <3>2
  <2> QED
    BY <1>a, <2>1, <2>2
<1>3. ASSUME NEW d \in Client, Unsubscribe(d)
      PROVE  Progress'
  <2>0. key[d] \in Key
    BY <1>0, <1>3 DEF Unsubscribe, TypeOK
  <2>1. UNCHANGED <<handler, batch, seq, seen, key>>
    BY <1>3 DEF Unsubscribe
  <2>2. \A t \in Client : cancelled[t] => cancelled'[t]
    BY <1>0, <1>3, <2>0 DEF Unsubscribe, Cancel, TypeOK
  <2>3. \A j \in Key : Bucket(j)' \subseteq Bucket(j)
    BY <1>0, <1>3, <2>0 DEF Unsubscribe, Bucket, TypeOK
  <2>4. \A t \in Client : Active(t) => Bucket(key[t])' \subseteq Bucket(key[t])
    BY <1>0, <2>1, <2>3 DEF Active, TypeOK, Bucket
  <2> QED
    BY <1>a, <1>f, <2>1, <2>2, <2>4
<1>4. ASSUME NEW d \in Client, HandlerStart(d)
      PROVE  Progress'
  BY <1>0, <1>4 DEF HandlerStart, Progress, TypeOK, Bucket
<1>5. ASSUME NEW d \in Client, HandlerItem(d)
      PROVE  Progress'
  <2>1. /\ batch' = [batch EXCEPT ![d] = Bucket(key[d])]
        /\ handler' = [handler EXCEPT ![d] = "sending"]
        /\ seq' = [seq EXCEPT ![d] = @ + 1]
        /\ UNCHANGED <<active_streams, seen, cancelled, key>>
    BY <1>0, <1>5 DEF HandlerItem, RegistryInv, OneUpstreamPerKey, Active, Bucket, TypeOK
  <2>2. Kept(d)
    <3>1. \A c \in Bucket(key[d]) : seen[c] \in {0, seq[d]}
      BY <1>5 DEF HandlerItem, Progress
    <3>2. seq[d] \in Nat /\ seq'[d] = seq[d] + 1 /\ handler'[d] = "sending"
          /\ batch'[d] = Bucket(key[d])
      BY <1>0, <2>1 DEF TypeOK
    <3>3. Bucket(key[d])' = Bucket(key[d])
      BY <2>1 DEF Bucket
    <3> QED
      BY <2>1, <3>1, <3>2, <3>3
  <2>3. ASSUME NEW t \in Client, t # d
        PROVE  Kept(t)
    <3>1. handler'[t] = handler[t] /\ batch'[t] = batch[t] /\ seq'[t] = seq[t]
      BY <1>0, <2>1, <2>3 DEF TypeOK
    <3> QED
      BY <1>f, <2>1, <3>1 DEF Bucket
  <2> QED
    BY <1>a, <2>2, <2>3
<1>6. ASSUME NEW d \in Client, NEW dead \in SUBSET Client, HandlerSent(d, dead)
      PROVE  Progress'
  <2>0. key[d] \in Key /\ batch[d] \subseteq Client /\ UNCHANGED <<key, seq, cancelled>>
    BY <1>0, <1>6 DEF HandlerSent, TypeOK
  <2>1. \A j \in Key : Bucket(j)' \subseteq Bucket(j)
    BY <1>0, <1>6, <2>0 DEF HandlerSent, WithoutDead, Bucket, TypeOK
  <2>2. Kept(d)
    <3>1. handler'[d] \in {"done", "iterating"}
      BY <1>0, <1>6 DEF HandlerSent, TypeOK
    <3>2. Bucket(key[d])' \subseteq Bucket(key[d]) \ dead
      BY <1>0, <1>6, <2>0 DEF HandlerSent, WithoutDead, Bucket, TypeOK
    <3>3. \A c \in Bucket(key[d]) \ dead : seen'[c] \in {0, seq[d]}
      <4>1. \A c \in Bucket(key[d]) : c \in Client
        BY <1>0, <2>0, BucketType
      <4> QED
        BY <1>6, <4>1 DEF HandlerSent, Progress
    <3> QED
      BY <2>0, <3>1, <3>2, <3>3
  <2>3. ASSUME NEW t \in Client, t # d
        PROVE  Kept(t)
    <3>1. handler'[t] = handler[t] /\ batch'[t] = batch[t]
      BY <1>0, <1>6, <2>3 DEF HandlerSent, TypeOK
    <3>2. Active(t) => key[t] \in Key
      BY <1>0 DEF Active, TypeOK
    <3>3. Active(t) => Bucket(key[t])' \subseteq Bucket(key[t])
      BY <2>0, <2>1, <3>2 DEF Bucket
    <3>4. Active(t) => \A c \in Bucket(key[t]) : c \in Client /\ c \notin batch[d]
      BY <1>0, <1>6, <2>3, <3>2, BucketType, Disjoint DEF HandlerSent
    <3>5. handler[t] = "sending" => \A c \in batch[t] : c \in Client /\ c \notin batch[d]
      BY <1>0, <1>6, <2>3, Disjoint DEF HandlerSent, TypeOK
    <3>6. \A c \in Client : c \notin batch[d] => seen'[c] = seen[c]
      BY <1>6 DEF HandlerSent
    <3> QED
      BY <1>f, <2>0, <3>1, <3>3, <3>4, <3>5, <3>6
  <2> QED
    BY <1>a, <2>2, <2>3
<1>7. ASSUME NEW d \in Client, HandlerEnds(d) \/ HandlerCancelled(d)
      PROVE  Progress'
  <2>1. CASE handler[d] = "created"
    BY <1>0, <1>7, <2>1 DEF HandlerEnds, HandlerCancelled, Progress, TypeOK, Bucket
  <2>2. CASE handler[d] # "created"
    <3>0. /\ handler[d] \in {"opening", "iterating", "sending"} /\ Finally(d)
          /\ key[d] \in Key /\ UNCHANGED <<key, seq, cancelled>>
      BY <1>0, <1>7, <2>2 DEF HandlerEnds, HandlerCancelled, TypeOK
    <3>1. \A j \in Key : Bucket(j)' \subseteq Bucket(j)
      BY <1>0, <3>0 DEF Finally, Bucket, TypeOK
    <3>2. Kept(d)
      BY <1>0, <3>0 DEF Finally, TypeOK
    <3>3. ASSUME NEW t \in Client, t # d
          PROVE  Kept(t)
      <4>1. handler'[t] = handler[t] /\ batch'[t] = batch[t]
        BY <1>0, <3>0, <3>3 DEF Finally, TypeOK
      <4>2. Active(t) => key[t] \in Key
        BY <1>0 DEF Active, TypeOK
      <4>3. Active(t) => Bucket(key[t])' \subseteq Bucket(key[t])
        BY <3>0, <3>1, <4>2 DEF Bucket
      <4>4. Active(t) => \A c \in Bucket(key[t]) : c \in Client /\ c \notin batch[d]
        BY <1>0, <3>0, <3>3, <4>2, BucketType, Disjoint
      <4>5. handler[t] = "sending" => \A c \in batch[t] : c \in Client /\ c \notin batch[d]
        BY <1>0, <3>0, <3>3, Disjoint DEF TypeOK
      <4>6. \A c \in Client : c \notin batch[d] => seen'[c] = seen[c]
        BY <1>7, <2>2 DEF HandlerEnds, HandlerCancelled
      <4> QED
        BY <1>f, <3>0, <4>1, <4>3, <4>4, <4>5, <4>6
    <3> QED
      BY <1>a, <3>2, <3>3
  <2> QED
    BY <2>1, <2>2
<1>8. ASSUME NEW d \in Client, HandlerClosed(d)
      PROVE  Progress'
  BY <1>0, <1>8 DEF HandlerClosed, Progress, TypeOK, Bucket
<1>9. CASE Shutdown
  <2>1. UNCHANGED <<handler, batch, seq, seen, key>>
    BY <1>9 DEF Shutdown
  <2>2. \A t \in Client : cancelled[t] => cancelled'[t]
    BY <1>0, <1>9 DEF Shutdown, CancelAll, TypeOK
  <2>3. \A t \in Client : Active(t) => Bucket(key[t])' \subseteq Bucket(key[t])
    BY <1>0, <1>9 DEF Shutdown, Bucket, Active, TypeOK
  <2> QED
    BY <1>a, <1>f, <2>1, <2>2, <2>3
<1>10. CASE ShutdownTasksEnded \/ ShutdownEnds \/ Finished \/ UNCHANGED vars
  BY <1>10 DEF ShutdownTasksEnded, ShutdownEnds, Finished, vars, Progress, Bucket
<1>11. ASSUME NEW d \in Client, HandlerAbsorbsCancel(d)
       PROVE  FALSE
  BY <1>11 DEF HandlerAbsorbsCancel
<1> QED
  BY <1>1, <1>2, <1>3, <1>4, <1>5, <1>6, <1>7, <1>8, <1>9, <1>10, <1>11
  DEF Next, EndpointStep, HandlerStep

-----------------------------------------------------------------------------
(* The fan-out as a broadcast *)

\* The clients that the finally clause of a task gives up are its own.
LEMMA FinallyGivesUp ==
    ASSUME RegistryInv, NEW t \in Client, key[t] \in Key, Finally(t)
    PROVE  \E failed \in SUBSET OneRun!Listeners(t) : GivenUp' = GivenUp \cup failed
<1> DEFINE left == LeftBehind(t)
<1>1. left \in SUBSET OneRun!Listeners(t)
  <2>1. left \subseteq Client
    BY BucketType DEF LeftBehind, RegistryInv
  <2>2. \A c \in left : feeder[c] = t /\ closing[c] = "none"
    BY DEF LeftBehind, StillRegistered, RegistryInv, Generations
  <2> QED
    BY <2>1, <2>2 DEF OneRun!Listeners, GivenUp
<1>2. closing' = [c \in Client |-> IF c \in left THEN "owed" ELSE closing[c]]
  BY DEF Finally
<1>3. left \subseteq Client
  BY <1>1 DEF OneRun!Listeners
<1> HIDE DEF left
<1>4. GivenUp' = GivenUp \cup left
  BY <1>2, <1>3 DEF GivenUp
<1> QED
  BY <1>1, <1>4

\* A handler serves its own clients: whoever it sends an item to has had
\* nothing before or the item before.
LEMMA HandlerServes ==
    ASSUME RegistryInv, Progress, NEW t \in Client, handler[t] = "sending"
    PROVE  /\ batch[t] \in SUBSET OneRun!Listeners(t)
           /\ \A c \in batch[t] : seen[c] = 0 \/ seen[c] + 1 = seq[t]
<1>1. batch[t] \subseteq Client
  BY DEF RegistryInv, TypeOK
<1>2. \A c \in batch[t] : feeder[c] = t /\ closing[c] = "none"
  BY DEF RegistryInv, Batches
<1>3. \A c \in batch[t] : seen[c] = 0 \/ seen[c] + 1 = seq[t]
  BY DEF Progress
<1> QED
  BY <1>1, <1>2, <1>3 DEF OneRun!Listeners, GivenUp

\* Every step of the fan-out is one of the broadcast, or changes nothing the
\* clients can tell.
LEMMA BroadcastStep ==
    ASSUME LossyCancel = FALSE, RegistryInv, Progress, [Next]_vars
    PROVE  [OneRun!Next]_<<feeder, seq, seen, GivenUp>>
<1> USE StreamManagerAssumption DEF mapVars, handlerVars
<1>0. TypeOK
  BY DEF RegistryInv
<1>1. ASSUME NEW c \in Client, Connect(c) \/ HandshakeFails(c) \/ Unsubscribe(c)
             \/ UnsubscribeTimesOut(c) \/ Unsubscribed(c) \/ HandlerStart(c)
             \/ HandlerAbsorbsCancel(c) \/ HandlerClosed(c)
      PROVE  UNCHANGED <<feeder, seq, seen, GivenUp>>
  <2>1. UNCHANGED <<feeder, seq, seen, closing>>
    BY <1>1 DEF Connect, HandshakeFails, Unsubscribe, UnsubscribeTimesOut, Unsubscribed,
       HandlerStart, HandlerAbsorbsCancel, HandlerClosed
  <2> QED
    BY <2>1 DEF GivenUp
<1>2. ASSUME NEW c \in Client, NEW k \in Key, Subscribe(c, k)
      PROVE  OneRun!Next
  <2>1. feeder[c] = Absent
    BY <1>2 DEF Subscribe, RegistryInv, FreshClients
  <2>2. upstream_tasks'[k] \in Client
    <3>1. CASE active_streams[k] = Absent
      BY <1>0, <1>2, <3>1 DEF Subscribe, TypeOK
    <3>2. CASE active_streams[k] # Absent
      BY <1>0, <1>2, <3>2 DEF Subscribe, TypeOK, RegistryInv, OneUpstreamPerKey
    <3> QED
      BY <3>1, <3>2
  <2>3. feeder' = [feeder EXCEPT ![c] = upstream_tasks'[k]] /\ UNCHANGED <<seq, seen, closing>>
    BY <1>2 DEF Subscribe
  <2>4. UNCHANGED GivenUp
    BY <2>3 DEF GivenUp
  <2>5. OneRun!Join(c)
    BY <2>1, <2>2, <2>3, <2>4 DEF OneRun!Join
  <2> QED
    BY <2>5 DEF OneRun!Next
<1>3. ASSUME NEW t \in Client, HandlerItem(t)
      PROVE  OneRun!Next
  <2>1. seq' = [seq EXCEPT ![t] = @ + 1] /\ UNCHANGED <<feeder, seen, closing>>
    BY <1>0, <1>3 DEF HandlerItem, RegistryInv, OneUpstreamPerKey, Active, Bucket, TypeOK
  <2>2. UNCHANGED GivenUp
    BY <2>1 DEF GivenUp
  <2>3. OneRun!Produce(t)
    BY <2>1, <2>2 DEF OneRun!Produce
  <2> QED
    BY <2>3 DEF OneRun!Next
<1>4. ASSUME NEW t \in Client, NEW dead \in SUBSET Client, HandlerSent(t, dead)
      PROVE  OneRun!Next
  <2>1. /\ handler[t] = "sending" /\ dead \subseteq batch[t] /\ batch[t] \subseteq Client
        /\ seen' = [c \in Client |-> IF c \in batch[t] \ dead THEN seq[t] ELSE seen[c]]
        /\ closing' = [c \in Client |-> IF c \in dead THEN "spawned" ELSE closing[c]]
        /\ UNCHANGED <<feeder, seq>>
    BY <1>0, <1>4 DEF HandlerSent, TypeOK
  <2>2. GivenUp' = GivenUp \cup dead
    BY <2>1 DEF GivenUp
  <2>3. /\ batch[t] \ dead \in SUBSET OneRun!Listeners(t)
        /\ dead \in SUBSET OneRun!Listeners(t)
        /\ \A c \in batch[t] \ dead : seen[c] = 0 \/ seen[c] + 1 = seq[t]
        /\ (batch[t] \ dead) \cap dead = {}
    BY <2>1, HandlerServes
  <2>4. OneRun!Serve(t)
    BY <2>1, <2>2, <2>3 DEF OneRun!Serve
  <2> QED
    BY <2>4 DEF OneRun!Next
<1>5. ASSUME NEW t \in Client, HandlerEnds(t)
      PROVE  OneRun!Next
  <2>1. key[t] \in Key /\ Finally(t) /\ UNCHANGED <<feeder, seq, seen>>
    BY <1>0, <1>5 DEF HandlerEnds, TypeOK
  <2>2. PICK failed \in SUBSET OneRun!Listeners(t) : GivenUp' = GivenUp \cup failed
    BY <2>1, FinallyGivesUp
  <2>3. seen' = [c \in Client |-> IF c \in {} THEN seq[t] ELSE seen[c]]
    BY <1>0, <2>1 DEF TypeOK
  <2>4. /\ {} \in SUBSET OneRun!Listeners(t) /\ {} \cap failed = {}
        /\ \A c \in {} : seen[c] = 0 \/ seen[c] + 1 = seq[t]
    OBVIOUS
  <2>5. OneRun!Serve(t)
    BY <2>1, <2>2, <2>3, <2>4, Zenon DEF OneRun!Serve
  <2> QED
    BY <2>5 DEF OneRun!Next
<1>6. ASSUME NEW t \in Client, HandlerCancelled(t)
      PROVE  [OneRun!Next]_<<feeder, seq, seen, GivenUp>>
  <2>1. CASE handler[t] = "created"
    <3>1. UNCHANGED <<feeder, seq, seen, closing>>
      BY <1>6, <2>1 DEF HandlerCancelled
    <3> QED
      BY <3>1 DEF GivenUp
  <2>2. CASE handler[t] # "created"
    <3>1. /\ handler[t] \in {"opening", "iterating", "sending"} /\ key[t] \in Key
          /\ cancelled[t] /\ Finally(t) /\ UNCHANGED <<feeder, seq>>
      BY <1>0, <1>6, <2>2 DEF HandlerCancelled, TypeOK
    <3>2. PICK sent \in SUBSET batch[t] :
             seen' = [c \in Client |-> IF c \in sent THEN seq[t] ELSE seen[c]]
      BY <1>6, <2>2 DEF HandlerCancelled
    <3>3. ~StillRegistered(t)
      BY <3>1 DEF StillRegistered, RegistryInv, OneUpstreamPerKey, Active
    <3>4. UNCHANGED GivenUp
      <4>1. closing' = [c \in Client |-> closing[c]]
        BY <3>1, <3>3 DEF Finally, LeftBehind
      <4> QED
        BY <4>1 DEF GivenUp
    <3>5. /\ sent \in SUBSET OneRun!Listeners(t)
          /\ \A c \in sent : seen[c] = 0 \/ seen[c] + 1 = seq[t]
      <4>1. CASE handler[t] = "sending"
        BY <3>2, <4>1, HandlerServes
      <4>2. CASE handler[t] # "sending"
        BY <3>1, <3>2, <4>2 DEF RegistryInv, Batches
      <4> QED
        BY <4>1, <4>2
    <3>6. /\ {} \in SUBSET OneRun!Listeners(t) /\ sent \cap {} = {}
          /\ GivenUp' = GivenUp \cup {}
      BY <3>4
    <3>7. OneRun!Serve(t)
      BY <3>1, <3>2, <3>5, <3>6 DEF OneRun!Serve
    <3> QED
      BY <3>7 DEF OneRun!Next
  <2> QED
    BY <2>1, <2>2
<1>7. ASSUME NEW c \in Client, CloseEnds(c)
      PROVE  UNCHANGED <<feeder, seq, seen, GivenUp>>
  <2>1. /\ closing[c] \in {"spawned", "owed"} /\ closing' = [closing EXCEPT ![c] = "done"]
        /\ UNCHANGED <<feeder, seq, seen>>
    BY <1>7 DEF CloseEnds
  <2>2. \A d \in Client : closing'[d] # "none" <=> closing[d] # "none"
    BY <1>0, <2>1 DEF TypeOK
  <2> QED
    BY <2>1, <2>2 DEF GivenUp
<1>8. CASE Shutdown \/ ShutdownTasksEnded \/ ShutdownEnds \/ Finished \/ UNCHANGED vars
  <2>1. UNCHANGED <<feeder, seq, seen, closing>>
    BY <1>8 DEF Shutdown, ShutdownTasksEnded, ShutdownEnds, Finished, vars
  <2> QED
    BY <2>1 DEF GivenUp
<1> QED
  BY <1>1, <1>2, <1>3, <1>4, <1>5, <1>6, <1>7, <1>8 DEF Next, EndpointStep, HandlerStep

\* The fan-out implements Broadcast, for any number of clients, keys and items:
\* what a client is sent is one unbroken run of one upstream's items, and ends
\* when the service begins to close it.
THEOREM FanOutIsABroadcast ==
    ASSUME LossyCancel = FALSE
    PROVE  Spec => IsBroadcast
<1>1. Init => OneRun!Init
  BY DEF Init, OneRun!Init, GivenUp
<1>2. Init => Progress
  BY DEF Init, Progress, Bucket
<1> QED
  BY <1>1, <1>2, BroadcastStep, ProgressStep, RegistryHolds, PTL
  DEF Spec, IsBroadcast, OneRun!Spec

=============================================================================
