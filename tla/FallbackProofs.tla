--------------------------- MODULE FallbackProofs ---------------------------
(* What holds of Fallback for any number of calls, streams and retries. *)
EXTENDS Fallback, TLAPS

\* A fetch that may still send a request has not used its retries up.
Budget ==
    \A c \in Call : call[c] \in {"idle", "requesting", "sleeping"} => attempt[c] <= max_retries

FallbackInv ==
    /\ TypeOK
    /\ Budget
    /\ AnnouncedOnce
    /\ NoSilentLocal

\* Types and retry budget are kept by every step.
LEMMA TypeStep == TypeOK /\ Budget /\ [Next]_vars => TypeOK' /\ Budget'
<1> SUFFICES ASSUME TypeOK, Budget, [Next]_vars
             PROVE  TypeOK' /\ Budget'
  OBVIOUS
<1> USE FallbackAssumption DEF routerVars, envVars
<1>1. ASSUME NEW c \in Call, Fetch(c)
      PROVE  TypeOK' /\ Budget'
  BY <1>1 DEF Fetch, EnterLocal, TypeOK, Budget, CallState, Outcome
<1>2. ASSUME NEW c \in Call, NEW result \in {"ok", "error", "foreign"},
             RequestEnds(c, result) \/ LocalEnds(c, result)
      PROVE  TypeOK' /\ Budget'
  BY <1>2 DEF RequestEnds, LocalEnds, TypeOK, Budget, CallState, Outcome
<1>3. ASSUME NEW c \in Call, RequestRejected(c)
      PROVE  TypeOK' /\ Budget'
  <2>1. attempt[c] \in Nat /\ attempt[c] <= max_retries
    BY <1>3 DEF RequestRejected, TypeOK, Budget
  <2>2. attempt' \in [Call -> 0..max_retries + 1]
    BY <1>3, <2>1 DEF RequestRejected, Counted, TypeOK
  <2>3. TypeOK'
    BY <1>3, <2>2 DEF RequestRejected, TypeOK, CallState, Outcome
  <2>4. Budget'
    BY <1>3, <2>1 DEF RequestRejected, GivesUp, Counted, TypeOK, Budget
  <2> QED
    BY <2>3, <2>4
<1>4. ASSUME NEW c \in Call, Unreachable(c)
      PROVE  /\ degraded' \in BOOLEAN /\ announced' \in Nat
             /\ registry' \in {"empty", "loaded"}
             /\ call' \in [Call -> CallState] /\ outcome' \in [Call -> Outcome]
             /\ call'[c] \in {"local", "done"}
             /\ \A d \in Call : d # c => call'[d] = call[d]
  <2>1. degraded' \in BOOLEAN
    BY <1>4 DEF Unreachable, Degrade, TypeOK
  <2>2. announced' \in Nat /\ registry' \in {"empty", "loaded"}
    BY <1>4 DEF Unreachable, Degrade, EnterLocal, TypeOK
  <2>3. /\ call' \in [Call -> CallState] /\ outcome' \in [Call -> Outcome]
        /\ call'[c] \in {"local", "done"}
        /\ \A d \in Call : d # c => call'[d] = call[d]
    BY <1>4 DEF Unreachable, TypeOK, CallState, Outcome
  <2> QED
    BY <2>1, <2>2, <2>3
<1>5. ASSUME NEW c \in Call, TransportFails(c)
      PROVE  TypeOK' /\ Budget'
  <2>1. attempt[c] \in Nat /\ attempt[c] <= max_retries
    BY <1>5 DEF TransportFails, TypeOK, Budget
  <2>2. /\ attempt' \in [Call -> 0..max_retries + 1]
        /\ \A d \in Call : d # c => attempt'[d] = attempt[d]
    BY <1>5, <2>1 DEF TransportFails, Counted, TypeOK
  <2>3. CASE Unreachable(c)
    BY <1>4, <1>5, <2>2, <2>3 DEF TransportFails, TypeOK, Budget
  <2>4. CASE ~Unreachable(c)
    <3>1. attempt'[c] <= max_retries /\ call' = [call EXCEPT ![c] = "sleeping"]
      BY <1>5, <2>1, <2>4 DEF TransportFails, GivesUp, Counted, TypeOK
    <3> QED
      BY <1>5, <2>2, <2>4, <3>1 DEF TransportFails, TypeOK, Budget, CallState
  <2> QED
    BY <2>3, <2>4
<1>6. ASSUME NEW c \in Call, ProtocolFails(c)
      PROVE  TypeOK' /\ Budget'
  BY <1>4, <1>6 DEF ProtocolFails, TypeOK, Budget
<1>7. ASSUME NEW c \in Call, Retry(c)
      PROVE  TypeOK' /\ Budget'
  BY <1>7 DEF Retry, TypeOK, Budget, CallState, Outcome
<1>8. ASSUME NEW s \in Stream, StreamOpens(s)
      PROVE  TypeOK' /\ Budget'
  BY <1>8 DEF StreamOpens, EnterLocal, TypeOK, Budget, StreamState
<1>9. ASSUME NEW s \in Stream, NEW next \in {"remote", "waiting", "ended"},
             DialEnds(s, next) \/ StreamEnds(s, next) \/ StreamDropped(s)
      PROVE  TypeOK' /\ Budget'
  BY <1>9 DEF DialEnds, StreamEnds, StreamDropped, TypeOK, Budget, StreamState
<1>10. ASSUME NEW s \in Stream, DialFails(s)
       PROVE  TypeOK' /\ Budget'
  <2>1. degraded' \in BOOLEAN
    BY <1>10 DEF DialFails, Degrade, TypeOK
  <2>2. /\ announced' \in Nat /\ registry' \in {"empty", "loaded"}
        /\ stream' \in [Stream -> StreamState]
    BY <1>10 DEF DialFails, Degrade, EnterLocal, TypeOK, StreamState
  <2> QED
    BY <1>10, <2>1, <2>2 DEF DialFails, TypeOK, Budget
<1>11. CASE Close \/ ClearRegistry
  <2>1. closed' \in BOOLEAN /\ cleared' \in BOOLEAN
    BY <1>11 DEF Close, ClearRegistry, TypeOK
  <2> QED
    BY <1>11, <2>1 DEF Close, ClearRegistry, TypeOK, Budget
<1>12. CASE ServiceFlips \/ UNCHANGED vars
  BY <1>12 DEF ServiceFlips, vars, TypeOK, Budget
<1> QED
  BY <1>1, <1>2, <1>3, <1>5, <1>6, <1>7, <1>8, <1>9, <1>10, <1>11, <1>12
  DEF Next, CallStep, StreamStep

\* Every step keeps the switch announced once, and local work announced.
LEMMA SwitchStep == FallbackInv /\ [Next]_vars => AnnouncedOnce' /\ NoSilentLocal'
<1> SUFFICES ASSUME FallbackInv, [Next]_vars
             PROVE  AnnouncedOnce' /\ NoSilentLocal'
  OBVIOUS
<1> USE DEF routerVars, envVars
<1>0. TypeOK /\ AnnouncedOnce /\ NoSilentLocal
  BY DEF FallbackInv
<1>1. ASSUME NEW c \in Call, Fetch(c)
      PROVE  AnnouncedOnce' /\ NoSilentLocal'
  BY <1>0, <1>1 DEF Fetch, PickSecondary, EnterLocal, TypeOK, AnnouncedOnce, NoSilentLocal
<1>2. ASSUME NEW s \in Stream, StreamOpens(s)
      PROVE  AnnouncedOnce' /\ NoSilentLocal'
  BY <1>0, <1>2
  DEF StreamOpens, PickSecondary, EnterLocal, TypeOK, AnnouncedOnce, NoSilentLocal
<1>3. ASSUME NEW c \in Call, Unreachable(c), UNCHANGED stream
      PROVE  AnnouncedOnce' /\ NoSilentLocal'
  BY <1>0, <1>3
  DEF Unreachable, MaySwitch, Degrade, EnterLocal, TypeOK, AnnouncedOnce, NoSilentLocal
<1>4. ASSUME NEW s \in Stream, DialFails(s)
      PROVE  AnnouncedOnce' /\ NoSilentLocal'
  BY <1>0, <1>4
  DEF DialFails, MaySwitch, Degrade, EnterLocal, TypeOK, AnnouncedOnce, NoSilentLocal
<1>5. ASSUME UNCHANGED <<degraded, announced>>, registry' \in {registry, "empty"},
             \A c \in Call : call'[c] = "local" => call[c] = "local",
             \A s \in Stream : stream'[s] = "local" => stream[s] = "local"
      PROVE  AnnouncedOnce' /\ NoSilentLocal'
  BY <1>0, <1>5 DEF AnnouncedOnce, NoSilentLocal
<1>6. ASSUME NEW c \in Call, TransportFails(c)
      PROVE  AnnouncedOnce' /\ NoSilentLocal'
  <2>1. CASE Unreachable(c)
    BY <1>3, <1>6, <2>1 DEF TransportFails
  <2>2. CASE ~Unreachable(c)
    BY <1>0, <1>5, <1>6, <2>2 DEF TransportFails, TypeOK
  <2> QED
    BY <2>1, <2>2
<1>7. ASSUME NEW c \in Call, ProtocolFails(c)
      PROVE  AnnouncedOnce' /\ NoSilentLocal'
  BY <1>3, <1>7 DEF ProtocolFails
<1>8. ASSUME NEW c \in Call, NEW result \in {"ok", "error", "foreign"},
             RequestEnds(c, result) \/ LocalEnds(c, result) \/ RequestRejected(c) \/ Retry(c)
      PROVE  AnnouncedOnce' /\ NoSilentLocal'
  BY <1>0, <1>5, <1>8 DEF RequestEnds, LocalEnds, RequestRejected, Retry, TypeOK
<1>9. ASSUME NEW s \in Stream, NEW next \in {"remote", "waiting", "ended"},
             DialEnds(s, next) \/ StreamEnds(s, next) \/ StreamDropped(s)
      PROVE  AnnouncedOnce' /\ NoSilentLocal'
  BY <1>0, <1>5, <1>9 DEF DialEnds, StreamEnds, StreamDropped, TypeOK
<1>10. CASE Close \/ ClearRegistry \/ ServiceFlips \/ UNCHANGED vars
  BY <1>5, <1>10 DEF Close, ClearRegistry, ServiceFlips, vars
<1> QED
  BY <1>1, <1>2, <1>4, <1>6, <1>7, <1>8, <1>9, <1>10 DEF Next, CallStep, StreamStep

\* The invariant behind the theorems below.
LEMMA FallbackHolds == Spec => []FallbackInv
<1>1. Init => FallbackInv
  <2> SUFFICES ASSUME Init
               PROVE  FallbackInv
    OBVIOUS
  <2>1. degraded \in BOOLEAN /\ closed \in BOOLEAN /\ cleared \in BOOLEAN
    BY DEF Init
  <2>2. TypeOK
    BY <2>1, FallbackAssumption DEF Init, TypeOK, CallState, Outcome, StreamState
  <2>3. Budget
    BY FallbackAssumption DEF Init, Budget
  <2>4. AnnouncedOnce /\ NoSilentLocal
    BY DEF Init, AnnouncedOnce, NoSilentLocal
  <2> QED
    BY <2>2, <2>3, <2>4 DEF FallbackInv
<1>2. FallbackInv /\ [Next]_vars => FallbackInv'
  BY TypeStep, SwitchStep DEF FallbackInv
<1> QED
  BY <1>1, <1>2, PTL DEF Spec

\* Types are kept, and no fetch counts more than max_retries + 1 failures.
THEOREM TypeCorrect == Spec => []TypeOK
<1>1. FallbackInv => TypeOK
  BY DEF FallbackInv
<1> QED
  BY <1>1, FallbackHolds, PTL

\* However many calls and streams run into a dead service together, the switch
\* to local adapters is announced exactly once.
THEOREM SwitchIsAnnouncedOnce == Spec => []AnnouncedOnce
<1>1. FallbackInv => AnnouncedOnce
  BY DEF FallbackInv
<1> QED
  BY <1>1, FallbackHolds, PTL

\* No local adapter works for a router that has not announced its switch.
THEOREM LocalWorkIsAnnounced == Spec => []NoSilentLocal
<1>1. FallbackInv => NoSilentLocal
  BY DEF FallbackInv
<1> QED
  BY <1>1, FallbackHolds, PTL

=============================================================================
