------------------------------ MODULE CallsProofs ------------------------------
(***************************************************************************)
(* Proofs about module Calls, for any number of retries and of failures:   *)
(* the type of an error, the truth of the capability tables, and what may  *)
(* still stop a call that the tables offer.                                *)
(***************************************************************************)
EXTENDS Calls, CapabilityProofs, TLAPS

Exceptions == RequestFaults \cup {"NotImplementedError"}

\* A call that is under way has no cause of failure (a retry forgets the last
\* one), an exception on its way to the caller is the cause, and the caller is
\* told what the documentation says of the cause.
CauseInv ==
    /\ call.mode \in {"local", "service"}
    /\ call.kind \in {"read", "stream"}
    /\ pc \in {"core", "dispatch", "run", "raised", "done"}
    /\ pc \in {"core", "dispatch", "run"} => cause = None
    /\ pc = "raised" => raised \in Exceptions /\ cause = raised
    /\ SameTypeInBothModes

\* Both ways from an exception to the caller (error_for_fault in local mode,
\* the handlers of the service and error_for_status over HTTP) agree with the
\* documentation, and so with each other.
LEMMA TranslationsAgree ==
    ASSUME NEW e \in Exceptions
    PROVE  /\ ErrorForFault(e) = DocumentedType[e]
           /\ ErrorForStatus(Status(e)) = DocumentedType[e]
  <1>1. CASE e = "UpstreamUnavailableError"
    BY <1>1 DEF ErrorForFault, ErrorForStatus, Status, DocumentedType
  <1>2. CASE e = "HTTPStatusError"
    BY <1>2 DEF ErrorForFault, ErrorForStatus, Status, DocumentedType
  <1>3. CASE e = "ValueError"
    BY <1>3 DEF ErrorForFault, ErrorForStatus, Status, DocumentedType
  <1>4. CASE e = "ValidationError"
    BY <1>4 DEF ErrorForFault, ErrorForStatus, Status, DocumentedType
  <1>5. CASE e = "LookupError"
    BY <1>5 DEF ErrorForFault, ErrorForStatus, Status, DocumentedType
  <1>6. CASE e = "NotImplementedError"
    BY <1>6 DEF ErrorForFault, ErrorForStatus, Status, DocumentedType
  <1> QED BY <1>1, <1>2, <1>3, <1>4, <1>5, <1>6 DEF Exceptions, RequestFaults

\* A failure is reported as the type the documentation gives it, in both modes,
\* with or without a preflight, after any number of retries.
THEOREM SameFailureSameType == Spec => []SameTypeInBothModes
  <1> USE DEF Exceptions, RequestFaults
  <1>1. Init => CauseInv
    BY DEF Init, CauseInv, SameTypeInBothModes, Named, ReadCalls, StreamCalls
  <1>2. CauseInv /\ [Next]_vars => CauseInv'
    <2> SUFFICES ASSUME CauseInv, [Next]_vars PROVE CauseInv'
      OBVIOUS
    <2> USE DEF CauseInv
    <2>1. CASE Preflight
      BY <2>1 DEF Preflight, SameTypeInBothModes, Named
    <2>2. CASE PreflightRefuses
      BY <2>2, CallsAssumption
         DEF PreflightRefuses, Answer, SameTypeInBothModes, Named, DocumentedType, Causes
    <2>3. CASE NoSuchMarket
      BY <2>3, CallsAssumption
         DEF NoSuchMarket, Answer, SameTypeInBothModes, Named, DocumentedType, Causes
    <2>4. CASE IntervalRejected
      BY <2>4 DEF IntervalRejected, Raise, SameTypeInBothModes, Named
    <2>5. CASE Enter \/ EnterStream
      BY <2>5 DEF Enter, EnterStream, Raise, SameTypeInBothModes, Named
    <2>6. CASE StreamRefused
      BY <2>6, CallsAssumption
         DEF StreamRefused, Answer, SameTypeInBothModes, Named, DocumentedType, Causes
    <2>7. CASE StepDone \/ FetchInfo \/ RequestIgnored
      BY <2>7 DEF StepDone, FetchInfo, RequestIgnored, Advance, SameTypeInBothModes, Named
    <2>8. CASE Absent \/ NoMarginTable \/ CapacityReached
      BY <2>8 DEF Absent, NoMarginTable, CapacityReached, Raise, SameTypeInBothModes, Named
    <2>9. CASE MethodReturns
      BY <2>9 DEF MethodReturns, Answer, SameTypeInBothModes, Named
    <2>10. ASSUME NEW e \in RequestFaults, RequestFails(e) PROVE CauseInv'
      BY <2>10 DEF RequestFails, Raise, SameTypeInBothModes, Named
    <2>11. CASE Retry
      BY <2>11 DEF Retry, SameTypeInBothModes, Named
    <2>12. CASE Report
      BY <2>12, TranslationsAgree, CallsAssumption
         DEF Report, Answer, SameTypeInBothModes, Named, Causes
    <2>13. CASE UNCHANGED vars
      BY <2>13 DEF vars, SameTypeInBothModes, Named
    <2> QED BY <2>1, <2>2, <2>3, <2>4, <2>5, <2>6, <2>7, <2>8, <2>9, <2>10, <2>11, <2>12, <2>13
            DEF Next, Done
  <1> QED BY <1>1, <1>2, PTL DEF Spec, CauseInv
-----------------------------------------------------------------------------
(* The tables and the calls *)

CallOK == call \in ReadCalls \cup StreamCalls

\* What a call may ask for.
LEMMA CallFields ==
    ASSUME CallOK
    PROVE  /\ call.ex \in Exchanges
           /\ call.kind \in {"read", "stream"} /\ call.mode \in {"local", "service"}
           /\ call.kind = "read" => call.route \in Routes
           /\ call.kind = "stream" =>
                 /\ call.route \in WsChannels
                 /\ call.route \notin IntervalRoutes /\ call.route # "symbol_info"
           /\ call.kind = "read" /\ call.route \in IntervalRoutes => call.interval \in Intervals
  <1>1. CASE call \in ReadCalls
    <2>1. IntervalRoutes \subseteq Routes
      BY RouteNames DEF IntervalRoutes
    <2> QED BY <1>1, <2>1 DEF ReadCalls
  <1>2. CASE call \in StreamCalls
    BY <1>2 DEF StreamCalls, WsChannels, IntervalRoutes
  <1> QED BY <1>1, <1>2 DEF CallOK

\* The method or the stream of a call refuses the market exactly when the
\* table does not offer it; an interval is only ever refused of an offered
\* route; and a method that is entered maps the interval it was given.
LEMMA CallMeetsTable ==
    ASSUME CallOK, OnMarket
    PROVE  /\ call.kind = "read" => (call.mt \in TheMethod.refused <=> Unadvertised)
           /\ call.kind = "stream" => (call.mt \in TheStream.refused <=> Unadvertised)
           /\ BadInterval => ~Unadvertised
           /\ call.kind = "read" /\ call.route \in IntervalRoutes /\ ~BadInterval
                 /\ call.mt \notin TheMethod.refused => call.interval \in TheMethod.maps
  <1>1. TableAgrees(call.ex, call.mt)
    BY TablesAgree, CallFields DEF OnMarket
  <1>2. call.kind = "read" => (call.mt \in TheMethod.refused <=> Unadvertised)
    BY <1>1, CallFields DEF TableAgrees, ReadsAgree, TheMethod, Unadvertised, Market
  <1>3. call.kind = "stream" => (call.mt \in TheStream.refused <=> Unadvertised)
    BY <1>1, CallFields DEF TableAgrees, StreamsAgree, TheStream, Unadvertised, Market
  <1>4. BadInterval => ~Unadvertised
    BY <1>1, CallFields DEF TableAgrees, IntervalsAgree, BadInterval, Unadvertised, Market
  <1>5. call.kind = "read" /\ call.route \in IntervalRoutes /\ ~BadInterval
           /\ call.mt \notin TheMethod.refused => call.interval \in TheMethod.maps
    BY <1>1, CallFields, SMTT(30) DEF TableAgrees, IntervalsAgree, BadInterval, TheMethod, Market
  <1> QED BY <1>2, <1>3, <1>4, <1>5

\* A method runs on an offered route only, and what it raises tells a route
\* that is not offered from one that failed.  A stream the table does not offer
\* never raises over a service, where the endpoint refuses it first.
TruthInv ==
    /\ CallOK
    /\ pc \in {"core", "dispatch", "run", "raised", "done"}
    /\ pc = "run" => OnMarket /\ ~Unadvertised
    /\ pc = "raised" =>
          /\ raised \in Exceptions
          /\ raised = "NotImplementedError" <=> Unadvertised
          /\ call.kind = "stream" /\ call.mode = "service" => ~Unadvertised
    /\ TableIsTrue

\* Only the documented type of NotImplementedError is NotSupported.
LEMMA OnlyNotImplemented ==
    ASSUME NEW e \in Exceptions
    PROVE  DocumentedType[e] = "NotSupported" <=> e = "NotImplementedError"
  BY DEF Exceptions, RequestFaults, DocumentedType

\* On every market a read or a stream is refused as NotSupported exactly when
\* the capability table says that it is not offered, in both modes, whatever
\* fails on the way and however often it is retried.
THEOREM TablesAreTrue == Spec => []TableIsTrue
  <1>1. Init => TruthInv
    BY DEF Init, TruthInv, CallOK, TableIsTrue
  <1>2. TruthInv /\ [Next]_vars => TruthInv'
    <2> SUFFICES ASSUME TruthInv, [Next]_vars PROVE TruthInv'
      OBVIOUS
    <2>1. UNCHANGED call
      BY DEF Next, Preflight, PreflightRefuses, NoSuchMarket, IntervalRejected, Enter,
         StreamRefused, EnterStream, StepDone, FetchInfo, RequestIgnored, Absent,
         NoMarginTable, CapacityReached, MethodReturns, RequestFails, Retry, Report, Done,
         Raise, Advance, vars
    <2>2. /\ OnMarket' <=> OnMarket
          /\ Unadvertised' <=> Unadvertised
          /\ CallOK'
      BY <2>1 DEF TruthInv, CallOK, OnMarket, Unadvertised, Market
    <2> USE <2>1, <2>2 DEF TruthInv
    <2>3. CASE Preflight \/ Retry
      BY <2>3 DEF Preflight, Retry, TableIsTrue
    <2>4. CASE PreflightRefuses
      BY <2>4 DEF PreflightRefuses, Answer, TableIsTrue
    <2>5. CASE NoSuchMarket
      BY <2>5 DEF NoSuchMarket, Answer, TableIsTrue
    <2>6. CASE IntervalRejected
      BY <2>6, CallMeetsTable
         DEF IntervalRejected, Raise, BadInterval, TableIsTrue, Exceptions, RequestFaults
    <2>7. CASE Enter
      BY <2>7, CallMeetsTable DEF Enter, Raise, TableIsTrue, Exceptions
    <2>8. CASE StreamRefused
      BY <2>8, CallFields DEF StreamRefused, Answer, TableIsTrue, Unadvertised
    <2>9. CASE EnterStream
      <3>1. call.mode = "service" => ~Unadvertised
        BY <2>9, CallFields DEF EnterStream, Unadvertised
      <3> QED BY <2>9, <3>1, CallMeetsTable DEF EnterStream, Raise, TableIsTrue, Exceptions
    <2>10. CASE StepDone \/ FetchInfo \/ RequestIgnored
      BY <2>10 DEF StepDone, FetchInfo, RequestIgnored, Advance, TableIsTrue
    <2>11. CASE Absent \/ NoMarginTable \/ CapacityReached
      BY <2>11 DEF Absent, NoMarginTable, CapacityReached, Raise, TableIsTrue, Exceptions,
         RequestFaults
    <2>12. CASE MethodReturns
      BY <2>12 DEF MethodReturns, Answer, TableIsTrue
    <2>13. ASSUME NEW e \in RequestFaults, RequestFails(e) PROVE TruthInv'
      BY <2>13 DEF RequestFails, Raise, TableIsTrue, Exceptions, RequestFaults
    <2>14. CASE Report
      BY <2>14, TranslationsAgree, OnlyNotImplemented, CallFields
         DEF Report, Answer, TableIsTrue
    <2>15. CASE UNCHANGED vars
      BY <2>15 DEF vars, TableIsTrue
    <2> QED BY <2>3, <2>4, <2>5, <2>6, <2>7, <2>8, <2>9, <2>10, <2>11, <2>12, <2>13, <2>14, <2>15
            DEF Next, Done
  <1> QED BY <1>1, <1>2, PTL DEF Spec, TruthInv
-----------------------------------------------------------------------------
(* What may stop a call that is offered *)

\* The steps a call can have before it.
StepsOf(c) == IF c.kind = "read" /\ c.route \in IntervalRoutes THEN Steps ELSE PlainSteps

\* The failures that are no fault of the router: a request that failed, a
\* symbol or a margin table that is not there, a limit that is reached.
Explained ==
    \/ faults > 0
    \/ raised = "ValueError" /\ Head(todo) \in {"listed", "found", "resolve", "mult"}
    \/ raised = "LookupError" /\ Head(todo) = "table"
    \/ raised = "UpstreamUnavailableError" /\ Head(todo) = "capacity"

\* A method that runs has the interval it will look up among those it maps, or
\* will look none up; what it raises is explained unless the call was not offered.
ServedInv ==
    /\ CallOK
    /\ faults \in Nat
    /\ pc \in {"core", "dispatch", "run", "raised", "done"}
    /\ pc \in {"core", "dispatch", "run"} => cause = None
    /\ pc = "run" =>
          /\ todo \in Seq(StepsOf(call))
          /\ call.kind = "read" /\ call.route \in IntervalRoutes => call.interval \in TheMethod.maps
    /\ pc = "raised" => Unadvertised \/ BadInterval \/ Explained
    /\ OfferedIsServed

\* What a method starts with, and what the fetch of the exchange-info table
\* puts before the rest of it.
LEMMA StepsOfCall ==
    ASSUME CallOK
    PROVE  /\ call.kind = "read" => TheMethod.steps \o Joined \in Seq(StepsOf(call))
           /\ call.kind = "stream" => TheStream.setup \in Seq(StepsOf(call))
           /\ InfoOf(call.ex, call.mt) \in Seq(StepsOf(call))
           /\ StepsOf(call) \subseteq Steps
  <1>1. StepsFit(call.ex, call.mt)
    BY StepsAgree, CallFields
  <1>2. PlainSteps \subseteq StepsOf(call) /\ StepsOf(call) \subseteq Steps
    BY DEF StepsOf, Steps
  <1>3. Joined \in Seq(StepsOf(call))
    BY <1>2 DEF Joined, PlainSteps
  <1>4. \A s \in Seq(PlainSteps) : s \in Seq(StepsOf(call))
    BY <1>2
  <1>5. call.kind = "read" => TheMethod.steps \in Seq(StepsOf(call))
    BY <1>1, <1>4, CallFields DEF StepsFit, TheMethod, StepsOf
  <1>6. call.kind = "stream" => TheStream.setup \in Seq(StepsOf(call))
    BY <1>1, <1>4, CallFields DEF StepsFit, TheStream
  <1>7. InfoOf(call.ex, call.mt) \in Seq(StepsOf(call))
    BY <1>1, <1>4 DEF StepsFit
  <1> QED BY <1>2, <1>3, <1>5, <1>6, <1>7

\* No method stumbles over an interval the table lists: a call the table offers
\* fails only because a request failed, the venue does not have what was asked
\* for, or a limit is reached.
THEOREM OffersAreServed == Spec => []OfferedIsServed
  <1>1. Init => ServedInv
    BY DEF Init, ServedInv, CallOK, OfferedIsServed
  <1>2. ServedInv /\ [Next]_vars => ServedInv'
    <2> SUFFICES ASSUME ServedInv, [Next]_vars PROVE ServedInv'
      OBVIOUS
    <2>1. UNCHANGED call
      BY DEF Next, Preflight, PreflightRefuses, NoSuchMarket, IntervalRejected, Enter,
         StreamRefused, EnterStream, StepDone, FetchInfo, RequestIgnored, Absent,
         NoMarginTable, CapacityReached, MethodReturns, RequestFails, Retry, Report, Done,
         Raise, Advance, vars
    <2>2. /\ OnMarket' <=> OnMarket
          /\ Unadvertised' <=> Unadvertised
          /\ BadInterval' <=> BadInterval
          /\ TheMethod' = TheMethod
          /\ StepsOf(call)' = StepsOf(call)
          /\ CallOK'
      BY <2>1 DEF ServedInv, CallOK, OnMarket, Unadvertised, BadInterval, TheMethod, StepsOf, Market
    <2> USE <2>1, <2>2 DEF ServedInv
    <2>3. CASE Preflight \/ Retry
      BY <2>3 DEF Preflight, Retry, OfferedIsServed
    <2>4. CASE PreflightRefuses
      BY <2>4 DEF PreflightRefuses, Answer, OfferedIsServed
    <2>5. CASE NoSuchMarket
      BY <2>5 DEF NoSuchMarket, Answer, OfferedIsServed
    <2>6. CASE IntervalRejected
      BY <2>6 DEF IntervalRejected, Raise, OfferedIsServed
    <2>7. CASE Enter
      BY <2>7, CallMeetsTable, StepsOfCall DEF Enter, Raise, OfferedIsServed
    <2>8. CASE StreamRefused
      BY <2>8, CallFields DEF StreamRefused, Answer, OfferedIsServed, Unadvertised
    <2>9. CASE EnterStream
      BY <2>9, CallMeetsTable, StepsOfCall DEF EnterStream, Raise, OfferedIsServed
    <2>10. CASE StepDone
      BY <2>10 DEF StepDone, Advance, OfferedIsServed
    <2>11. CASE RequestIgnored
      BY <2>11 DEF RequestIgnored, Fails, Advance, OfferedIsServed
    <2>12. CASE FetchInfo
      BY <2>12, StepsOfCall DEF FetchInfo, OfferedIsServed
    <2>13. CASE Absent
      <3>1. Head(todo) \in {"listed", "found", "resolve", "mult"}
        <4>1. Head(todo) \in StepsOf(call)
          BY <2>13 DEF Absent
        <4>2. Head(todo) # "interval" \/ call.interval \in TheMethod.maps
          BY <2>13, <4>1 DEF Absent, StepsOf, PlainSteps
        <4> QED BY <2>13, <4>2 DEF Absent
      <3> QED BY <2>13, <3>1 DEF Absent, Raise, OfferedIsServed, Explained
    <2>14. CASE NoMarginTable \/ CapacityReached
      BY <2>14 DEF NoMarginTable, CapacityReached, Raise, OfferedIsServed, Explained
    <2>15. CASE MethodReturns
      BY <2>15 DEF MethodReturns, Answer, OfferedIsServed
    <2>16. ASSUME NEW e \in RequestFaults, RequestFails(e) PROVE ServedInv'
      BY <2>16 DEF RequestFails, Fails, Raise, OfferedIsServed, Explained
    <2>17. CASE Report
      BY <2>17 DEF Report, Answer, OfferedIsServed, Explained
    <2>18. CASE UNCHANGED vars
      BY <2>18 DEF vars, OfferedIsServed, Explained
    <2> QED BY <2>3, <2>4, <2>5, <2>6, <2>7, <2>8, <2>9, <2>10, <2>11, <2>12, <2>13, <2>14,
               <2>15, <2>16, <2>17, <2>18
            DEF Next, Done
  <1> QED BY <1>1, <1>2, PTL DEF Spec, ServedInv
=============================================================================
