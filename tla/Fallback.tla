------------------------------ MODULE Fallback ------------------------------
(***************************************************************************)
(* The SDK's service mode with fallback="local": RemoteBackend and         *)
(* FallbackBackend of backend.py, the close() and the reconnecting         *)
(* stream() of AsyncCore (_core.py), and what LocalBackend does to the     *)
(* registry of adapters.                                                   *)
(*                                                                         *)
(* A step is one uninterrupted stretch of a coroutine.  A call is one      *)
(* fetch() of the backend; a stream is one consumer of AsyncCore.stream()  *)
(* with reconnect=True.  Payloads and error texts are abstracted: what is  *)
(* kept is which backend answers, and how a call ends.                     *)
(***************************************************************************)
EXTENDS Naturals

CONSTANTS
    Call,         \* fetches the program makes
    Stream,       \* streams it opens
    max_retries,  \* RemoteBackend.max_retries
    MaxFlips      \* bound: how often the service goes down or comes back

ASSUME FallbackAssumption ==
    /\ max_retries \in Nat
    /\ MaxFlips \in Nat

VARIABLES
    degraded,   \* FallbackBackend.degraded
    announced,  \* how many times the switch was announced
    closed,     \* AsyncCore._closed, and with it the HTTP client
    registry,   \* EXCHANGE_REGISTRY: "empty" or "loaded"
    cleared,    \* close() has cleared the registry
    service,    \* "up" or "down"
    flips,      \* changes of service so far
    call,       \* where each fetch stands
    attempt,    \* its failed attempts
    outcome,    \* how it ended
    stream      \* where each stream stands

vars == <<degraded, announced, closed, registry, cleared, service, flips, call,
          attempt, outcome, stream>>

CallState   == {"idle", "requesting", "sleeping", "local", "done"}
Outcome     == {"none", "ok", "error", "unreachable", "closed", "foreign"}
StreamState == {"idle", "dialing", "remote", "local", "waiting", "ended"}

routerVars == <<degraded, announced, registry>>
envVars    == <<service, flips>>

Init ==
    /\ degraded = FALSE
    /\ announced = 0
    /\ closed = FALSE
    /\ registry = "empty"
    /\ cleared = FALSE
    /\ service \in {"up", "down"}
    /\ flips = 0
    /\ call = [c \in Call |-> "idle"]
    /\ attempt = [c \in Call |-> 0]
    /\ outcome = [c \in Call |-> "none"]
    /\ stream = [s \in Stream |-> "idle"]

-----------------------------------------------------------------------------
(* FallbackBackend *)

\* Slip: the primary is asked for ever.
PickPrimary == FALSE

\* _pick(): a degraded router asks its local adapters.
PickSecondary == degraded

\* Slip: the except clauses do not look whether the router has degraded.
SwitchesAgain == TRUE

\* The except clauses switch only a router that has not degraded yet.
MaySwitch == ~degraded

\* Slip: the switch is silent.
SwitchSilently ==
    /\ degraded' = TRUE
    /\ UNCHANGED announced

\* _degrade().
Degrade ==
    /\ degraded' = TRUE
    /\ announced' = announced + 1

\* LocalBackend._adapter: an empty registry is loaded.
EnterLocal == registry' = "loaded"

-----------------------------------------------------------------------------
(* fetch *)

\* A closed router refuses the call, a degraded one answers it locally.
Fetch(c) ==
    /\ call[c] = "idle"
    /\ \/ /\ closed
          /\ call' = [call EXCEPT ![c] = "done"]
          /\ outcome' = [outcome EXCEPT ![c] = "closed"]
          /\ UNCHANGED registry
       \/ /\ ~closed
          /\ PickSecondary
          /\ call' = [call EXCEPT ![c] = "local"]
          /\ EnterLocal
          /\ UNCHANGED outcome
       \/ /\ ~closed
          /\ ~PickSecondary
          /\ call' = [call EXCEPT ![c] = "requesting"]
          /\ UNCHANGED <<registry, outcome>>
    /\ UNCHANGED <<envVars, degraded, announced, closed, cleared, attempt, stream>>

\* The service answers: 200, a status that is not retried, or a body that is
\* no JSON, whose decoding error no clause of fetch() catches.  An answer that
\* has arrived is still read after close().
RequestEnds(c, result) ==
    /\ call[c] = "requesting"
    /\ service = "up"
    /\ call' = [call EXCEPT ![c] = "done"]
    /\ outcome' = [outcome EXCEPT ![c] = result]
    /\ UNCHANGED <<routerVars, envVars, closed, cleared, attempt, stream>>

\* Slip: the failed attempt is not counted.
NotCounted(c) == attempt[c]

\* attempt += 1.
Counted(c) == attempt[c] + 1

\* Slip: the limit is compared with the count before this failure.
GivesUpLate(c) == attempt[c] > max_retries

\* The failure just met was the last one allowed.
GivesUp(c) == Counted(c) > max_retries

\* 429, 500, 502, 503 or 504: slept on, or raised after the last attempt.
RequestRejected(c) ==
    /\ call[c] = "requesting"
    /\ service = "up"
    /\ attempt' = [attempt EXCEPT ![c] = Counted(c)]
    /\ IF GivesUp(c)
       THEN /\ call' = [call EXCEPT ![c] = "done"]
            /\ outcome' = [outcome EXCEPT ![c] = "error"]
       ELSE /\ call' = [call EXCEPT ![c] = "sleeping"]
            /\ UNCHANGED outcome
    /\ UNCHANGED <<routerVars, envVars, closed, cleared, stream>>

\* RouterUnreachable reaches FallbackBackend.fetch: the first call to get there
\* switches the router and goes on locally, a call that finds the router
\* degraded already raises.
Unreachable(c) ==
    \/ /\ MaySwitch
       /\ Degrade
       /\ EnterLocal
       /\ call' = [call EXCEPT ![c] = "local"]
       /\ UNCHANGED outcome
    \/ /\ ~MaySwitch
       /\ call' = [call EXCEPT ![c] = "done"]
       /\ outcome' = [outcome EXCEPT ![c] = "unreachable"]
       /\ UNCHANGED routerVars

\* A transport error (the service is down or slow, or close() tore down the
\* connection): slept on, or, after the last attempt, RouterUnreachable.
TransportFails(c) ==
    /\ call[c] = "requesting"
    /\ attempt' = [attempt EXCEPT ![c] = Counted(c)]
    /\ \/ GivesUp(c) /\ Unreachable(c)
       \/ /\ ~GivesUp(c)
          /\ call' = [call EXCEPT ![c] = "sleeping"]
          /\ UNCHANGED <<routerVars, outcome>>
    /\ UNCHANGED <<envVars, closed, cleared, stream>>

\* Any other error of the HTTP client is RouterUnreachable at once.
ProtocolFails(c) ==
    /\ call[c] = "requesting"
    /\ service = "up"
    /\ Unreachable(c)
    /\ UNCHANGED <<envVars, closed, cleared, attempt, stream>>

\* The retry sleep is over.  A client that close() has closed raises an error
\* of its own, which no clause of fetch() catches.
Retry(c) ==
    /\ call[c] = "sleeping"
    /\ IF closed
       THEN /\ call' = [call EXCEPT ![c] = "done"]
            /\ outcome' = [outcome EXCEPT ![c] = "foreign"]
       ELSE /\ call' = [call EXCEPT ![c] = "requesting"]
            /\ UNCHANGED outcome
    /\ UNCHANGED <<routerVars, envVars, closed, cleared, attempt, stream>>

\* The local adapter answers or fails, in the error tree of the SDK.
LocalEnds(c, result) ==
    /\ call[c] = "local"
    /\ call' = [call EXCEPT ![c] = "done"]
    /\ outcome' = [outcome EXCEPT ![c] = result]
    /\ UNCHANGED <<routerVars, envVars, closed, cleared, attempt, stream>>

-----------------------------------------------------------------------------
(* stream *)

\* A new turn of the reconnect loop: a closed router ends the stream, since
\* RouterError is not retryable.
StreamOpens(s) ==
    /\ stream[s] \in {"idle", "waiting"}
    /\ \/ /\ closed
          /\ stream' = [stream EXCEPT ![s] = "ended"]
          /\ UNCHANGED registry
       \/ /\ ~closed
          /\ PickSecondary
          /\ stream' = [stream EXCEPT ![s] = "local"]
          /\ EnterLocal
       \/ /\ ~closed
          /\ ~PickSecondary
          /\ stream' = [stream EXCEPT ![s] = "dialing"]
          /\ UNCHANGED registry
    /\ UNCHANGED <<envVars, degraded, announced, closed, cleared, call, attempt,
                   outcome>>

\* The service accepts the connection, or refuses the exchange or market type.
DialEnds(s, next) ==
    /\ stream[s] = "dialing"
    /\ service = "up"
    /\ stream' = [stream EXCEPT ![s] = next]
    /\ UNCHANGED <<routerVars, envVars, closed, cleared, call, attempt, outcome>>

\* OSError, a timeout included: the first to get there switches the router; a
\* stream that finds it degraded raises into the reconnect loop, which picks
\* again two seconds on.
DialFails(s) ==
    /\ stream[s] = "dialing"
    /\ \/ /\ MaySwitch
          /\ Degrade
          /\ EnterLocal
          /\ stream' = [stream EXCEPT ![s] = "local"]
       \/ /\ ~MaySwitch
          /\ stream' = [stream EXCEPT ![s] = "waiting"]
          /\ UNCHANGED routerVars
    /\ UNCHANGED <<envVars, closed, cleared, call, attempt, outcome>>

\* The connection closes, the local generator fails, or either ends: on to the
\* next turn of the loop, or out of it on a fatal close code or error.
StreamEnds(s, next) ==
    /\ stream[s] \in {"remote", "local"}
    /\ stream' = [stream EXCEPT ![s] = next]
    /\ UNCHANGED <<routerVars, envVars, closed, cleared, call, attempt, outcome>>

\* The consumer closes the generator.
StreamDropped(s) ==
    /\ stream[s] \notin {"idle", "ended"}
    /\ stream' = [stream EXCEPT ![s] = "ended"]
    /\ UNCHANGED <<routerVars, envVars, closed, cleared, call, attempt, outcome>>

-----------------------------------------------------------------------------
(* close, and the service *)

\* AsyncCore.close: the flag, then the HTTP client.
Close ==
    /\ ~closed
    /\ closed' = TRUE
    /\ UNCHANGED <<routerVars, envVars, cleared, call, attempt, outcome, stream>>

\* Then the adapters: shutdown_exchanges() empties the registry.
ClearRegistry ==
    /\ closed
    /\ ~cleared
    /\ cleared' = TRUE
    /\ registry' = "empty"
    /\ UNCHANGED <<envVars, degraded, announced, closed, call, attempt, outcome,
                   stream>>

ServiceFlips ==
    /\ flips < MaxFlips
    /\ flips' = flips + 1
    /\ service' = IF service = "up" THEN "down" ELSE "up"
    /\ UNCHANGED <<routerVars, closed, cleared, call, attempt, outcome, stream>>

-----------------------------------------------------------------------------
CallStep(c) ==
    \/ Fetch(c)
    \/ \E result \in {"ok", "error", "foreign"} : RequestEnds(c, result)
    \/ RequestRejected(c)
    \/ TransportFails(c)
    \/ ProtocolFails(c)
    \/ Retry(c)
    \/ \E result \in {"ok", "error"} : LocalEnds(c, result)

StreamStep(s) ==
    \/ StreamOpens(s)
    \/ \E next \in {"remote", "ended"} : DialEnds(s, next)
    \/ DialFails(s)
    \/ \E next \in {"waiting", "ended"} : StreamEnds(s, next)
    \/ StreamDropped(s)

Next ==
    \/ \E c \in Call : CallStep(c)
    \/ \E s \in Stream : StreamStep(s)
    \/ Close
    \/ ClearRegistry
    \/ ServiceFlips

Spec == Init /\ [][Next]_vars

\* Requests time out, sleeps elapse, and dials succeed or fail; nobody has to
\* start a call, and an open stream may stay open for ever.
Fairness ==
    /\ \A c \in Call : WF_vars(call[c] # "idle" /\ CallStep(c))
    /\ \A s \in Stream : WF_vars(stream[s] \in {"dialing", "waiting"} /\ StreamStep(s))

FairSpec == Spec /\ Fairness

-----------------------------------------------------------------------------
(* Properties *)

\* Every variable holds what its declaration says, and attempts stay within
\* the retry budget.
TypeOK ==
    /\ degraded \in BOOLEAN
    /\ announced \in Nat
    /\ closed \in BOOLEAN
    /\ registry \in {"empty", "loaded"}
    /\ cleared \in BOOLEAN
    /\ service \in {"up", "down"}
    /\ flips \in 0..MaxFlips
    /\ call \in [Call -> CallState]
    /\ attempt \in [Call -> 0..max_retries + 1]
    /\ outcome \in [Call -> Outcome]
    /\ stream \in [Stream -> StreamState]

\* The switch to local adapters is announced once and only once, however many
\* calls and streams run into the dead service at the same time (_degrade).
AnnouncedOnce == announced = IF degraded THEN 1 ELSE 0

\* Local adapters, with their private rate budget, are loaded only by a router
\* that has announced its switch.
NoSilentLocal ==
    /\ registry = "loaded" => announced > 0
    /\ \A c \in Call : call[c] = "local" => announced > 0
    /\ \A s \in Stream : stream[s] = "local" => announced > 0

\* Every fetch ends: the retry loop is bounded, the switch happens once.
EveryFetchEnds == \A c \in Call : call[c] = "requesting" ~> call[c] = "done"

\* A stream that lost its connection, or that cannot get one, ends up fed by
\* the service or by local adapters, or it ends.
StreamsRecover ==
    \A s \in Stream : stream[s] \in {"dialing", "waiting"}
                          ~> stream[s] \in {"remote", "local", "ended"}

=============================================================================
