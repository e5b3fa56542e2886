-------------------------------- MODULE Calls --------------------------------
(***************************************************************************)
(* One call of the router, from AsyncCore to the adapter and back, in both *)
(* modes: the check against the capability table before the request, the   *)
(* dispatch to the adapter (by LocalBackend, or by the endpoints of the    *)
(* service behind RemoteBackend), the steps of the method, and the error   *)
(* the caller sees.  A stream call is followed until the stream is open or *)
(* refused.  The transport between SDK and service is module Fallback.     *)
(***************************************************************************)
EXTENDS Channels, Methods, Capabilities

CONSTANTS
    None,        \* no value
    MaxRetries,  \* max_retries of RemoteBackend
    MaxFaults    \* bound: requests to the venue that fail

\* Every route there is; symbol_info has no block in the capability tables.
Routes == DOMAIN BinanceMethod

\* INTERVAL_ROUTES of backend.py.
IntervalRoutes == {"candles", "open_interest", "long_short_ratio"}

\* What goes wrong with a request to the venue: it is unreachable or throttled
\* (UpstreamUnavailableError), answers with an error status or an error code,
\* or sends an answer that lacks a field or fails the model's validation.
RequestFaults == {"UpstreamUnavailableError", "HTTPStatusError", "ValueError",
                  "ValidationError", "LookupError"}

\* Why a call may fail.
Causes == RequestFaults \cup {"NotImplementedError", "market", "interval", "unadvertised"}

ASSUME CallsAssumption ==
    MaxRetries \in Nat /\ MaxFaults \in Nat /\ None \notin Causes \cup {"ok"}

VARIABLES
    call,      \* the call: it never changes
    pc,        \* "core", "dispatch", "run", "raised" or "done"
    todo,      \* the steps the method has yet to take
    raised,    \* what the adapter raised
    cause,     \* why the call failed: a fault or what was wrong with the call
    attempt,   \* attempts of RemoteBackend.fetch so far
    faults,    \* requests that failed so far
    result     \* what the caller gets: "ok" or the type of the error

vars == <<call, pc, todo, raised, cause, attempt, faults, result>>

ReadCalls ==
    [kind : {"read"}, mode : {"local", "service"}, ex : Exchanges, mt : MarketTypes,
     route : Routes \ IntervalRoutes, interval : {None}]
    \cup
    [kind : {"read"}, mode : {"local", "service"}, ex : Exchanges, mt : MarketTypes,
     route : IntervalRoutes, interval : Intervals]

StreamCalls ==
    [kind : {"stream"}, mode : {"local", "service"}, ex : Exchanges, mt : MarketTypes,
     route : WsChannels, interval : {None}]

Init ==
    /\ call \in ReadCalls \cup StreamCalls
    /\ pc = "core"
    /\ todo = <<>>
    /\ raised = None /\ cause = None
    /\ attempt = 0 /\ faults = 0
    /\ result = None

-----------------------------------------------------------------------------
(* The capability table *)

OnMarket == call.mt \in Supported(call.ex)

Market == Capabilities[call.ex][call.mt]

\* The route declares intervals and the one asked for is not among them.
BadInterval ==
    /\ OnMarket
    /\ call.route \in IntervalRoutes
    /\ Market.intervals[call.route] # {}
    /\ call.interval \notin Market.intervals[call.route]

\* "rest" or "ws" is false in the table.
Unadvertised ==
    /\ OnMarket
    /\ call.route # "symbol_info"
    /\ call.route \notin IF call.kind = "read" THEN Market.rest ELSE Market.ws

-----------------------------------------------------------------------------
(* AsyncCore *)

\* The caller gets its answer.
Answer(r) ==
    /\ pc' = "done"
    /\ result' = r

\* _preflight passes: it has no block to look at (an exchange without the
\* market, symbol_info, a capability fetch that failed and stays quiet), or it
\* has nothing to object to.  Streams have no preflight.
Preflight ==
    /\ pc = "core"
    /\ \/ call.kind = "stream"
       \/ call.mode = "service"
       \/ ~Unadvertised /\ ~BadInterval
    /\ pc' = "dispatch"
    /\ UNCHANGED <<call, todo, raised, cause, attempt, faults, result>>

PreflightRefuses ==
    /\ pc = "core"
    /\ call.kind = "read"
    /\ \/ Unadvertised /\ cause' = "unadvertised" /\ Answer("NotSupported")
       \/ ~Unadvertised /\ BadInterval /\ cause' = "interval" /\ Answer("BadRequest")
    /\ UNCHANGED <<call, todo, raised, attempt, faults>>

-----------------------------------------------------------------------------
(* Dispatch: LocalBackend._dispatch, _series and stream; the endpoints *)

\* _adapter and validate_request: the exchange has no such market.  A service
\* refuses the upgrade of a stream, which reads as NotFound.
NoSuchMarket ==
    /\ pc = "dispatch"
    /\ ~OnMarket
    /\ cause' = "market"
    /\ Answer(IF call.kind = "stream" /\ call.mode = "service" THEN "NotFound" ELSE "BadRequest")
    /\ UNCHANGED <<call, todo, raised, attempt, faults>>

Raise(e) ==
    /\ pc' = "raised"
    /\ raised' = e
    /\ cause' = e
    /\ UNCHANGED <<call, todo, attempt, result>>

\* validate_interval.
IntervalRejected ==
    /\ pc = "dispatch"
    /\ call.kind = "read"
    /\ BadInterval
    /\ Raise("ValueError")
    /\ UNCHANGED faults

TheMethod == MethodOf(call.ex, call.mt, call.route)

\* join_open_interest_basis reads candles for a linear market, if it can.
Joined == IF call.route = "open_interest" /\ call.mt = "linear" THEN <<"any">> ELSE <<>>

\* The method is called: it refuses the market or starts.
Enter ==
    /\ pc = "dispatch"
    /\ call.kind = "read"
    /\ OnMarket /\ ~BadInterval
    /\ UNCHANGED faults
    /\ \/ call.mt \in TheMethod.refused /\ Raise("NotImplementedError")
       \/ /\ call.mt \notin TheMethod.refused
          /\ pc' = "run"
          /\ todo' = TheMethod.steps \o Joined
          /\ UNCHANGED <<call, raised, cause, attempt, result>>

TheStream == StreamOf(call.ex, call.mt, call.route)

\* The endpoint refuses a channel the table does not stream (close code 1003,
\* error_for_close).
StreamRefused ==
    /\ pc = "dispatch"
    /\ call.kind = "stream" /\ call.mode = "service"
    /\ OnMarket
    /\ call.route \notin Market.ws
    /\ cause' = "unadvertised"
    /\ Answer("NotSupported")
    /\ UNCHANGED <<call, todo, raised, attempt, faults>>

\* The generator's first steps: it refuses the market or starts.
EnterStream ==
    /\ pc = "dispatch"
    /\ call.kind = "stream"
    /\ OnMarket
    /\ call.mode = "service" => call.route \in Market.ws
    /\ UNCHANGED faults
    /\ \/ call.mt \in TheStream.refused /\ Raise("NotImplementedError")
       \/ /\ call.mt \notin TheStream.refused
          /\ pc' = "run"
          /\ todo' = TheStream.setup
          /\ UNCHANGED <<call, raised, cause, attempt, result>>

-----------------------------------------------------------------------------
(* The steps of a method *)

\* Failures of a page that leave the method.  _paginate_backwards swallows
\* what is an HTTPStatusError or a ValueError (a ValidationError is one); the
\* forward walk only ignores errors of the request itself.
Escapes(p) ==
    IF p.fetch \in {"newest", "latest", "window"} /\ p.direct = "never"
    THEN RequestFaults \ {"HTTPStatusError", "ValueError", "ValidationError"}
    ELSE IF p.fetch = "walk" THEN RequestFaults \ {"HTTPStatusError"}
    ELSE RequestFaults

Fails == faults < MaxFaults /\ faults' = faults + 1

Advance == todo' = Tail(todo) /\ UNCHANGED <<call, pc, raised, cause, attempt, result>>

\* The step does what it should.
StepDone ==
    /\ pc = "run" /\ todo # <<>>
    /\ Head(todo) = "interval" => call.interval \in TheMethod.maps
    /\ Advance
    /\ UNCHANGED faults

\* The exchange-info table is not cached: it is fetched first.
FetchInfo ==
    /\ pc = "run" /\ todo # <<>>
    /\ Head(todo) = "info"
    /\ todo' = InfoOf(call.ex, call.mt) \o Tail(todo)
    /\ UNCHANGED <<call, pc, raised, cause, attempt, faults, result>>

\* A request fails and the call with it.
RequestFails(e) ==
    /\ pc = "run" /\ todo # <<>>
    /\ \/ Head(todo) = "get"
       \/ Head(todo) = "lenient" /\ e \notin {"HTTPStatusError", "ValueError"}
       \/ Head(todo) = "pages" /\ e \in Escapes(TheMethod.pages)
    /\ Fails
    /\ Raise(e)

\* A request fails and the method goes on without it: an optional part is
\* missing, or a series ends early.
RequestIgnored ==
    /\ pc = "run" /\ todo # <<>>
    /\ \/ Head(todo) \in {"any", "lenient"}
       \/ Head(todo) \in {"resolve", "guess"} /\ call.mt = "spot"
       \/ Head(todo) = "pages" /\ TheMethod.pages.fetch \notin {"bulk", "cadence"}
    /\ Fails
    /\ Advance

\* What was asked for is not there.
Absent ==
    /\ pc = "run" /\ todo # <<>>
    /\ \/ Head(todo) \in {"listed", "found"}
       \/ Head(todo) = "resolve" /\ call.mt = "spot"
       \/ Head(todo) = "mult" /\ call.mt = "linear"
       \/ Head(todo) = "interval" /\ call.interval \notin TheMethod.maps
    /\ Raise("ValueError")
    /\ UNCHANGED faults

NoMarginTable ==
    /\ pc = "run" /\ todo # <<>>
    /\ Head(todo) = "table"
    /\ Raise("LookupError")
    /\ UNCHANGED faults

\* _acquire_topic: ten connections with a thousand topics each are taken.
CapacityReached ==
    /\ pc = "run" /\ todo # <<>>
    /\ Head(todo) = "capacity"
    /\ Raise("UpstreamUnavailableError")
    /\ UNCHANGED faults

\* The method returns, or the stream reads its first frame.
MethodReturns ==
    /\ pc = "run" /\ todo = <<>>
    /\ Answer("ok")
    /\ UNCHANGED <<call, todo, raised, cause, attempt, faults>>

-----------------------------------------------------------------------------
(* From the exception to the caller *)

\* Slip: ValueError is tried first, and a ValidationError is one.
ErrorForFaultValueFirst(e) ==
    CASE e = "UpstreamUnavailableError"            -> "UpstreamUnavailable"
      [] e \in {"ValueError", "ValidationError"}   -> "BadRequest"
      [] e = "NotImplementedError"                 -> "NotSupported"
      [] OTHER                                     -> "RouterError"

\* error_for_fault of backend.py.
ErrorForFault(e) ==
    CASE e = "UpstreamUnavailableError" -> "UpstreamUnavailable"
      [] e = "ValidationError"          -> "RouterError"
      [] e = "NotImplementedError"      -> "NotSupported"
      [] e = "ValueError"               -> "BadRequest"
      [] OTHER                          -> "RouterError"

\* The exception handlers of the service.
Status(e) ==
    CASE e = "UpstreamUnavailableError" -> 503
      [] e = "ValueError"               -> 400
      [] e = "NotImplementedError"      -> 501
      [] e = "ValidationError"          -> 502
      [] OTHER                          -> 500

\* error_for_status of errors.py.
ErrorForStatus(status) ==
    CASE status = 400 -> "BadRequest"
      [] status = 404 -> "NotFound"
      [] status = 429 -> "RateLimited"
      [] status = 501 -> "NotSupported"
      [] status = 503 -> "UpstreamUnavailable"
      [] OTHER        -> "RouterError"

\* Slip: the attempt is not counted.
NotCounted(n) == n

\* attempt += 1.
Counted(n) == n + 1

\* RemoteBackend.fetch tries again on these statuses.
Retried ==
    call.mode = "service" /\ call.kind = "read" /\ Status(raised) \in {429, 500, 502, 503, 504}

\* The whole method runs once more.
Retry ==
    /\ pc = "raised"
    /\ Retried
    /\ Counted(attempt) <= MaxRetries
    /\ attempt' = Counted(attempt)
    /\ pc' = "dispatch"
    /\ raised' = None /\ cause' = None
    /\ todo' = <<>>
    /\ UNCHANGED <<call, faults, result>>

\* Over a service the upstream handler only logs what a stream raised and
\* closes the client with code 1011, which is no error of the router.
Report ==
    /\ pc = "raised"
    /\ Retried => Counted(attempt) > MaxRetries
    /\ Answer(IF call.mode = "local" THEN ErrorForFault(raised)
              ELSE IF call.kind = "stream" THEN "ConnectionClosed"
              ELSE ErrorForStatus(Status(raised)))
    /\ UNCHANGED <<call, todo, raised, cause, attempt, faults>>

-----------------------------------------------------------------------------
Done == pc = "done" /\ UNCHANGED vars

Next ==
    \/ Preflight \/ PreflightRefuses
    \/ NoSuchMarket \/ IntervalRejected \/ Enter
    \/ StreamRefused \/ EnterStream
    \/ StepDone \/ FetchInfo \/ RequestIgnored \/ Absent \/ NoMarginTable
    \/ CapacityReached \/ MethodReturns
    \/ \E e \in RequestFaults : RequestFails(e)
    \/ Retry \/ Report
    \/ Done

\* A coroutine that can take a step takes one.
Spec == Init /\ [][Next]_vars /\ WF_vars(Next)

-----------------------------------------------------------------------------
\* The capability tables tell the truth: on every market of every exchange a
\* read or a stream is refused as NotSupported exactly when the table says it
\* is not offered, whatever fails on the way, in both modes and with or
\* without a preflight.
TableIsTrue ==
    pc = "done" /\ OnMarket => (result = "NotSupported" <=> Unadvertised)

\* A call the table offers, with an interval it lists, of a symbol that is
\* there, is served when no request fails: the interval maps of the methods
\* cover the advertised intervals.
OfferedIsServed ==
    pc = "done" /\ OnMarket /\ ~Unadvertised /\ ~BadInterval /\ cause # None =>
        \/ faults > 0
        \/ raised = "ValueError" /\ Head(todo) \in {"listed", "found", "resolve", "mult"}
        \/ raised = "LookupError" /\ Head(todo) = "table"
        \/ raised = "UpstreamUnavailableError" /\ Head(todo) = "capacity"

\* "The same failure raises the same type in both modes" (Python_API.md:419):
\* what the caller gets depends on the failure alone, not on the mode, the
\* preflight or the attempt.  Excepted are two streams: of a market the exchange
\* does not carry, as documented, and one that fails before its first frame
\* over a service, which closes the connection instead of naming the failure.
DocumentedType ==
    [market |-> "BadRequest", interval |-> "BadRequest", unadvertised |-> "NotSupported",
     UpstreamUnavailableError |-> "UpstreamUnavailable", HTTPStatusError |-> "RouterError",
     ValueError |-> "BadRequest", ValidationError |-> "RouterError",
     LookupError |-> "RouterError", NotImplementedError |-> "NotSupported"]

Named == \/ call.kind = "read"
         \/ cause # "market" /\ (call.mode = "local" \/ raised = None)

SameTypeInBothModes ==
    pc = "done" /\ Named =>
        result = IF cause = None THEN "ok" ELSE DocumentedType[cause]

\* Every call comes back: retries are counted and no step waits for ever.
CallReturns == <>(pc = "done")
=============================================================================
