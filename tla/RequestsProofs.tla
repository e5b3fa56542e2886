---------------------------- MODULE RequestsProofs ----------------------------
(***************************************************************************)
(* Proofs about module Requests, for any number of tasks and any waits.    *)
(***************************************************************************)
EXTENDS Requests, TLAPS, WellFoundedInduction

Places == {"queued", "lock", "try", "asleep", "pause", "bucket", "flight", "done", "failed"}

\* The types the argument needs.
Types ==
    /\ pc \in [Tasks -> Places]
    /\ req \in [Tasks -> {"info", "own"}]
    /\ sleep \in [Tasks -> Int]
    /\ backoff \in Nat /\ since \in Int /\ pair \in [Pairs -> Int]
    /\ stale \in [Tasks -> Nat]
    /\ adapter.waits \subseteq Nat
    /\ adapter.pace \in {"sleep", "bucket", "spaced"}

\* A deadline that has passed is nobody's stale one.
NoneAtZero == backoff = 0 => \A t \in Tasks : stale[t] = 0

\* A task that has sent a request against the deadline will not get to the
\* next one before it: it is answered, it pauses, it reads the deadline again,
\* or it sleeps at least until then.
StaleIsSpent(t) ==
    /\ stale[t] <= 1
    /\ adapter.pace = "spaced" => stale[t] = 0
    /\ stale[t] = 1 => pc[t] \notin {"queued", "lock", "bucket"}
    /\ stale[t] = 1 /\ pc[t] = "asleep" => sleep[t] >= backoff

StaleInv == Types /\ NoneAtZero /\ \A t \in Tasks : StaleIsSpent(t)

\* max() of two numbers.
LEMMA LargerIsMax ==
    ASSUME NEW m \in Int, NEW n \in Int
    PROVE  /\ Larger(m, n) \in {m, n}
           /\ Larger(m, n) >= m
           /\ Larger(m, n) >= n
  BY DEF Larger

\* What raising the deadline does to the counts.
LEMMA SetBackoffKeeps ==
    ASSUME StaleInv, NEW w \in Nat, SetBackoff(w)
    PROVE  /\ backoff' \in Nat
           /\ backoff' >= backoff
           /\ stale' \in [Tasks -> Nat]
           /\ \A t \in Tasks : stale'[t] = 0 \/ (stale'[t] = stale[t] /\ backoff' = backoff)
           /\ backoff' = 0 => \A t \in Tasks : stale'[t] = 0
  <1>1. /\ backoff \in Nat
        /\ stale \in [Tasks -> Nat]
        /\ NoneAtZero
    BY DEF StaleInv, Types
  <1>2. CASE w > backoff
    BY <1>1, <1>2 DEF SetBackoff, Larger
  <1>3. CASE ~(w > backoff)
    BY <1>1, <1>3 DEF SetBackoff, Larger, NoneAtZero
  <1> QED BY <1>2, <1>3

\* The delay of Kraken's throttle covers the deadline.
LEMMA DelayCoversDeadline ==
    ASSUME Types, NEW t \in Tasks
    PROVE  Delay(t) \in Int /\ Delay(t) >= backoff
  <1> DEFINE spacing == IF slow > 0 THEN Spacing + ExtraSpacing ELSE Spacing
             onPair  == IF req[t] = "own" THEN PairSpacing - pair[PairOf[t]] ELSE 0
  <1>1. spacing - since \in Int
    BY RequestsAssumption DEF Types
  <1>2. onPair \in Int
    BY RequestsAssumption DEF Types, Pairs
  <1>3. Delay(t) = Larger(backoff, Larger(spacing - since, onPair))
    BY DEF Delay
  <1>4. Larger(spacing - since, onPair) \in Int
    BY <1>1, <1>2, LargerIsMax
  <1> QED BY <1>3, <1>4, LargerIsMax DEF Types

\* Nobody has sent anything at the start.
LEMMA StaleInit == Init => StaleInv
  <1> SUFFICES ASSUME Init PROVE StaleInv
    OBVIOUS
  <1>1. adapter.waits \subseteq Nat /\ adapter.pace \in {"sleep", "bucket", "spaced"}
    BY RequestsAssumption DEF Init, Binance, Bybit, Hyperliquid, Kucoin, Okx, Kraken
  <1>2. LongAgo \in Int
    BY RequestsAssumption, LargerIsMax DEF LongAgo
  <1>3. Types
    BY <1>1, <1>2 DEF Init, Types, Places
  <1> QED BY <1>3 DEF Init, StaleInv, NoneAtZero, StaleIsSpent

\* A step of task t that leaves deadline and sleeps alone and takes the task
\* to where a stale task may be.
LEMMA QuietStep ==
    ASSUME StaleInv, NEW t \in Tasks,
           UNCHANGED <<adapter, backoff, stale>>,
           Types',
           \A u \in Tasks \ {t} : pc'[u] = pc[u] /\ sleep'[u] = sleep[u],
           stale[t] = 1 => pc'[t] \notin {"queued", "lock", "bucket"},
           stale[t] = 1 /\ pc'[t] = "asleep" => sleep'[t] >= backoff
    PROVE  StaleInv'
  BY DEF StaleInv, NoneAtZero, StaleIsSpent

\* An answer: the deadline may be raised, and the task is not asleep after it.
LEMMA AnswerStep ==
    ASSUME StaleInv, NEW t \in Tasks,
           pc[t] = "flight",
           adapter' = adapter,
           \/ UNCHANGED <<backoff, stale>>
           \/ \E w \in Nat : SetBackoff(w),
           Types',
           \A u \in Tasks \ {t} : pc'[u] = pc[u] /\ sleep'[u] = sleep[u],
           pc'[t] \in {"try", "pause", "done", "failed"}
    PROVE  StaleInv'
  <1>1. \A u \in Tasks : stale'[u] = 0 \/ (stale'[u] = stale[u] /\ backoff' = backoff)
    BY SetBackoffKeeps
  <1>2. NoneAtZero'
    BY SetBackoffKeeps DEF StaleInv, NoneAtZero
  <1>3. ASSUME NEW u \in Tasks PROVE StaleIsSpent(u)'
    <2>1. CASE stale'[u] = 0
      BY <2>1 DEF StaleIsSpent
    <2>2. CASE stale'[u] = stale[u] /\ backoff' = backoff
      <3>1. CASE u = t
        BY <3>1, <2>2 DEF StaleInv, StaleIsSpent
      <3>2. CASE u # t
        BY <3>2, <2>2 DEF StaleInv, StaleIsSpent
      <3> QED BY <3>1, <3>2
    <2> QED BY <1>1, <2>1, <2>2
  <1> QED BY <1>2, <1>3 DEF StaleInv

\* The request goes out: it is the first against this deadline.
LEMMA SendStep ==
    ASSUME StaleInv, NEW t \in Tasks,
           Send(t),
           UNCHANGED <<adapter, backoff, req>>,
           since' \in Int, pair' \in [Pairs -> Int],
           sleep' \in [Tasks -> Int],
           \A u \in Tasks \ {t} : sleep'[u] = sleep[u],
           backoff > 0 => stale[t] = 0 /\ adapter.pace # "spaced"
    PROVE  StaleInv'
  <1>1. Types'
    <2>1. stale' \in [Tasks -> Nat]
      BY DEF StaleInv, Types, Send
    <2>2. pc' \in [Tasks -> Places]
      BY DEF StaleInv, Types, Places, Send
    <2> QED BY <2>1, <2>2 DEF StaleInv, Types
  <1>2. NoneAtZero'
    BY DEF StaleInv, Types, NoneAtZero, Send
  <1>3. ASSUME NEW u \in Tasks PROVE StaleIsSpent(u)'
    <2>1. CASE u = t
      <3>1. pc'[t] = "flight" /\ stale'[t] = IF backoff > 0 THEN stale[t] + 1 ELSE stale[t]
        BY DEF StaleInv, Types, Send
      <3>2. backoff = 0 => stale[t] = 0
        BY DEF StaleInv, NoneAtZero
      <3> QED BY <2>1, <3>1, <3>2 DEF StaleInv, Types, StaleIsSpent
    <2>2. CASE u # t
      <3>1. pc'[u] = pc[u] /\ stale'[u] = stale[u] /\ sleep'[u] = sleep[u]
        BY <2>2 DEF StaleInv, Types, Send
      <3> QED BY <3>1 DEF StaleInv, StaleIsSpent
    <2> QED BY <2>1, <2>2
  <1> QED BY <1>1, <1>2, <1>3 DEF StaleInv

\* A try that failed.
LEMMA TryAgainStep ==
    ASSUME StaleInv, NEW t \in Tasks, NEW pause \in {0, 1},
           pc[t] = "flight",
           UNCHANGED <<adapter, since, pair>>,
           \/ UNCHANGED <<backoff, stale>>
           \/ \E w \in Nat : SetBackoff(w),
           TryAgain(t, pause)
    PROVE  StaleInv'
  <1>1. CASE Ends(t) /\ UNCHANGED sleep
    <2>1. /\ pc' \in [Tasks -> Places]
          /\ req' \in [Tasks -> {"info", "own"}]
          /\ pc'[t] \in {"try", "failed"}
          /\ \A u \in Tasks \ {t} : pc'[u] = pc[u]
      BY <1>1 DEF Ends, Start, StaleInv, Types, Places
    <2>2. Types'
      BY <1>1, <2>1, SetBackoffKeeps DEF StaleInv, Types
    <2> QED BY <1>1, <2>1, <2>2, AnswerStep
  <1>2. CASE /\ pc' = [pc EXCEPT ![t] = IF pause = 0 THEN "try" ELSE "pause"]
             /\ sleep' = [sleep EXCEPT ![t] = pause]
             /\ UNCHANGED req
    <2>1. /\ pc'[t] \in {"try", "pause"}
          /\ \A u \in Tasks \ {t} : pc'[u] = pc[u] /\ sleep'[u] = sleep[u]
      BY <1>2 DEF StaleInv, Types
    <2>2. Types'
      BY <1>2, SetBackoffKeeps DEF StaleInv, Types, Places
    <2> QED BY <2>1, <2>2, AnswerStep
  <1> QED BY <1>1, <1>2 DEF TryAgain

\* Every step of a task and every tick keeps the invariant.
LEMMA TaskKeepsStale ==
    ASSUME StaleInv, NEW t \in Tasks, Step(t)
    PROVE  StaleInv'
  <1> USE DEF StaleInv, Types, Places, pacing
  <1>1. CASE Admit(t)
    <2>1. stale[t] # 1
      BY <1>1 DEF Admit, StaleIsSpent
    <2>2. Types'
      BY <1>1 DEF Admit
    <2> QED BY <1>1, <2>1, <2>2, QuietStep DEF Admit
  <1>2. CASE TakeTable(t)
    <2>1. stale[t] # 1
      BY <1>2 DEF TakeTable, StaleIsSpent
    <2>2. Types'
      BY <1>2 DEF TakeTable, Start
    <2>3. \A u \in Tasks \ {t} : pc'[u] = pc[u] /\ sleep'[u] = sleep[u]
      BY <1>2 DEF TakeTable, Start
    <2> QED BY <1>2, <2>1, <2>2, <2>3, QuietStep DEF TakeTable
  <1>3. CASE AwaitDeadline(t)
    <2>1. Types'
      BY <1>3 DEF AwaitDeadline, Ends, Start, Deadline
    <2>2. \A u \in Tasks \ {t} : pc'[u] = pc[u] /\ sleep'[u] = sleep[u]
      BY <1>3 DEF AwaitDeadline, Ends, Start
    <2>3. \/ pc'[t] = "asleep" /\ sleep'[t] = backoff
          \/ pc'[t] \in {"failed", "try"}
      BY <1>3 DEF AwaitDeadline, Ends, Start, Deadline
    <2>4. UNCHANGED <<adapter, backoff, stale>>
      BY <1>3 DEF AwaitDeadline
    <2> QED BY <2>1, <2>2, <2>3, <2>4, QuietStep
  <1>4. CASE SendAfterDeadline(t)
    <2>1. backoff > 0 => stale[t] = 0
      <3> SUFFICES ASSUME backoff > 0 PROVE stale[t] # 1
        BY DEF StaleIsSpent
      <3>1. pc[t] = "asleep" /\ sleep[t] = 0
        BY <1>4 DEF SendAfterDeadline, Deadline
      <3> QED BY <3>1 DEF StaleIsSpent
    <2>2. adapter.pace # "spaced"
      BY <1>4 DEF SendAfterDeadline
    <2> QED BY <1>4, <2>1, <2>2, SendStep DEF SendAfterDeadline
  <1>5. CASE EnterGate(t)
    <2>1. stale[t] # 1
      <3>1. CASE pc[t] = "try" /\ Deadline(t) = 0
        BY <3>1 DEF Deadline, NoneAtZero
      <3>2. CASE pc[t] = "asleep" /\ sleep[t] = 0
        BY <3>2 DEF StaleIsSpent, NoneAtZero
      <3> QED BY <1>5, <3>1, <3>2 DEF EnterGate
    <2>2. Types'
      BY <1>5 DEF EnterGate
    <2>3. \A u \in Tasks \ {t} : pc'[u] = pc[u] /\ sleep'[u] = sleep[u]
      BY <1>5 DEF EnterGate
    <2> QED BY <1>5, <2>1, <2>2, <2>3, QuietStep DEF EnterGate
  <1>6. CASE TakeToken(t)
    <2>1. stale[t] = 0 /\ adapter.pace # "spaced"
      BY <1>6 DEF TakeToken, StaleIsSpent
    <2> QED BY <1>6, <2>1, SendStep DEF TakeToken
  <1>7. CASE AwaitThrottle(t)
    <2>1. CASE Granted(t) /\ Send(t) /\ UNCHANGED sleep
      <3>1. backoff = 0
        BY <2>1, DelayCoversDeadline DEF Granted
      <3>2. since' \in Int /\ pair' \in [Pairs -> Int]
        BY <1>7 DEF AwaitThrottle
      <3> QED BY <1>7, <2>1, <3>1, <3>2, SendStep DEF AwaitThrottle
    <2>2. CASE /\ pc' = [pc EXCEPT ![t] = "asleep"]
               /\ sleep' = [sleep EXCEPT ![t] = Delay(t)]
               /\ UNCHANGED stale
      <3>1. stale[t] = 0
        BY <1>7 DEF AwaitThrottle, StaleIsSpent
      <3>2. \A u \in Tasks \ {t} : pc'[u] = pc[u] /\ sleep'[u] = sleep[u]
        BY <2>2
      <3>3. Types'
        <4>1. sleep' \in [Tasks -> Int]
          BY <2>2, DelayCoversDeadline
        <4> QED BY <1>7, <2>2, <4>1 DEF AwaitThrottle
      <3> QED BY <1>7, <2>2, <3>1, <3>2, <3>3, QuietStep DEF AwaitThrottle
    <2> QED BY <1>7, <2>1, <2>2 DEF AwaitThrottle
  <1>8. CASE Succeed(t)
    <2>1. UNCHANGED <<backoff, stale>> \/ \E w \in Nat : SetBackoff(w)
      BY <1>8, RequestsAssumption DEF Succeed
    <2>2. pc[t] = "flight" /\ UNCHANGED <<adapter, since, pair, sleep>>
      BY <1>8 DEF Succeed, Answered
    <2>3. /\ pc' \in [Tasks -> Places]
          /\ req' \in [Tasks -> {"info", "own"}]
          /\ pc'[t] \in {"try", "done"}
          /\ \A u \in Tasks \ {t} : pc'[u] = pc[u]
      BY <1>8 DEF Succeed, Start
    <2>4. Types'
      BY <2>1, <2>2, <2>3, SetBackoffKeeps
    <2> QED BY <2>1, <2>2, <2>3, <2>4, AnswerStep
  <1>9. CASE Throttled(t)
    <2>1. \E w \in Nat : SetBackoff(w)
      BY <1>9 DEF Throttled
    <2>2. pc[t] = "flight" /\ UNCHANGED <<adapter, since, pair>>
      BY <1>9 DEF Throttled, Answered
    <2>3. TryAgain(t, 0)
      BY <1>9 DEF Throttled
    <2> QED BY <2>1, <2>2, <2>3, TryAgainStep
  <1>10. CASE Busy(t)
    <2>1. UNCHANGED <<backoff, stale>> \/ \E w \in Nat : SetBackoff(w)
      BY <1>10, RequestsAssumption DEF Busy
    <2>2. pc[t] = "flight" /\ UNCHANGED <<adapter, since, pair>>
      BY <1>10 DEF Busy, Answered
    <2>3. TryAgain(t, 0) \/ TryAgain(t, 1)
      BY <1>10 DEF Busy
    <2> QED BY <2>1, <2>2, <2>3, TryAgainStep
  <1>11. CASE PauseOver(t)
    <2>1. Types'
      BY <1>11 DEF PauseOver
    <2>2. \A u \in Tasks \ {t} : pc'[u] = pc[u] /\ sleep'[u] = sleep[u]
      BY <1>11 DEF PauseOver
    <2>3. pc'[t] = "try"
      BY <1>11 DEF PauseOver
    <2> QED BY <1>11, <2>1, <2>2, <2>3, QuietStep DEF PauseOver
  <1>12. CASE Refused(t)
    <2>1. UNCHANGED <<backoff, stale>> \/ \E w \in Nat : SetBackoff(w)
      BY <1>12, RequestsAssumption DEF Refused
    <2>2. pc[t] = "flight" /\ UNCHANGED <<adapter, since, pair, sleep>>
      BY <1>12 DEF Refused, Answered
    <2>3. /\ pc' \in [Tasks -> Places]
          /\ req' \in [Tasks -> {"info", "own"}]
          /\ pc'[t] \in {"try", "failed"}
          /\ \A u \in Tasks \ {t} : pc'[u] = pc[u]
      BY <1>12 DEF Refused, Ends, Start
    <2>4. Types'
      BY <2>1, <2>2, <2>3, SetBackoffKeeps
    <2> QED BY <2>1, <2>2, <2>3, <2>4, AnswerStep
  <1> QED BY <1>1, <1>2, <1>3, <1>4, <1>5, <1>6, <1>7, <1>8, <1>9, <1>10, <1>11, <1>12
          DEF Step

\* The clock brings every deadline nearer at the same pace.
LEMMA TickKeepsStale == ASSUME StaleInv, Tick PROVE StaleInv'
  <1>1. Types'
    <2>1. LongAgo \in Int
      BY RequestsAssumption, LargerIsMax DEF LongAgo
    <2>2. since' \in Int /\ pair' \in [Pairs -> Int]
      BY <2>1 DEF StaleInv, Types, Tick, Smaller
    <2>3. sleep' \in [Tasks -> Int] /\ backoff' \in Nat
      BY DEF StaleInv, Types, Tick, Less
    <2> QED BY <2>2, <2>3 DEF StaleInv, Types, Tick
  <1>2. NoneAtZero'
    BY DEF StaleInv, Types, NoneAtZero, Tick, Less
  <1>3. ASSUME NEW t \in Tasks PROVE StaleIsSpent(t)'
    <2>1. CASE backoff <= 1
      BY <2>1 DEF StaleInv, Types, StaleIsSpent, Tick
    <2>2. CASE backoff > 1
      <3>1. stale' = stale /\ pc' = pc /\ adapter' = adapter
        BY <2>2 DEF StaleInv, Types, Tick
      <3>2. backoff' = backoff - 1
        BY <2>2 DEF StaleInv, Types, Tick, Less
      <3>3. sleep[t] >= backoff => sleep'[t] = sleep[t] - 1
        BY <2>2 DEF StaleInv, Types, Tick, Less
      <3>4. sleep[t] \in Int /\ backoff \in Nat
        BY DEF StaleInv, Types
      <3> QED BY <3>1, <3>2, <3>3, <3>4 DEF StaleInv, StaleIsSpent
    <2> QED BY <2>1, <2>2 DEF StaleInv, Types
  <1> QED BY <1>1, <1>2, <1>3 DEF StaleInv

\* After a 429, a ban or a pause no task sends more than one request before the
\* new deadline, on any adapter, for any number of tasks and retries; Kraken's
\* throttle sends none.
THEOREM DeadlinesAreKept == Spec => []OneStaleRequest
  <1>1. StaleInv /\ [Next]_vars => StaleInv'
    <2> SUFFICES ASSUME StaleInv, [Next]_vars PROVE StaleInv'
      OBVIOUS
    <2>1. CASE UNCHANGED vars
      BY <2>1 DEF vars, pacing, cache, StaleInv, Types, NoneAtZero, StaleIsSpent
    <2> QED BY <2>1, TaskKeepsStale, TickKeepsStale DEF Next
  <1>2. StaleInv => OneStaleRequest
    <2> SUFFICES ASSUME StaleInv, NEW t \in Tasks
                 PROVE  stale[t] <= IF adapter.pace = "spaced" THEN 0 ELSE 1
      BY DEF OneStaleRequest
    <2> QED BY DEF StaleInv, Types, StaleIsSpent
  <1> QED BY StaleInit, <1>1, <1>2, PTL DEF Spec

-----------------------------------------------------------------------------
\* A task that fetches exchange info.
Fetches(t) == pc[t] \notin {"queued", "lock", "done", "failed"} /\ req[t] = "info"

\* The lock is held by the one task that fetches, and while it does the table
\* is not fresh.
LockInv ==
    /\ pc \in [Tasks -> Places] /\ req \in [Tasks -> {"info", "own"}]
    /\ \A t \in Tasks : Fetches(t) => lock = t /\ table # "fresh"

\* A step of a task leaves the lock with whoever fetches.
LEMMA LockStep ==
    ASSUME LockInv, NEW t \in Tasks, Step(t)
    PROVE  LockInv'
  <1> USE DEF LockInv, Fetches, Places, pacing, cache
  <1>1. CASE Admit(t)
    BY <1>1 DEF Admit
  <1>2. CASE TakeTable(t)
    <2>1. CASE Refreshes
      BY <1>2, <2>1, RequestsAssumption DEF TakeTable, Refreshes, Start
    <2>2. CASE ~Refreshes
      BY <1>2, <2>2 DEF TakeTable, Start
    <2> QED BY <2>1, <2>2
  <1>3. CASE AwaitDeadline(t)
    BY <1>3, RequestsAssumption DEF AwaitDeadline, Ends, Start
  <1>4. CASE SendAfterDeadline(t)
    BY <1>4 DEF SendAfterDeadline, Send
  <1>5. CASE EnterGate(t)
    BY <1>5 DEF EnterGate
  <1>6. CASE TakeToken(t)
    BY <1>6 DEF TakeToken, Send
  <1>7. CASE AwaitThrottle(t)
    BY <1>7 DEF AwaitThrottle, Send
  <1>8. CASE Succeed(t)
    BY <1>8, RequestsAssumption DEF Succeed, Answered, Start
  <1>9. CASE Throttled(t)
    BY <1>9, RequestsAssumption DEF Throttled, Answered, TryAgain, Ends, Start
  <1>10. CASE Busy(t)
    BY <1>10, RequestsAssumption DEF Busy, Answered, TryAgain, Ends, Start
  <1>11. CASE PauseOver(t)
    BY <1>11 DEF PauseOver
  <1>12. CASE Refused(t)
    BY <1>12, RequestsAssumption DEF Refused, Answered, Ends, Start
  <1> QED BY <1>1, <1>2, <1>3, <1>4, <1>5, <1>6, <1>7, <1>8, <1>9, <1>10, <1>11, <1>12
          DEF Step

\* Exchange info is fetched by one task at a time and never while the table
\* another task has brought is fresh.
THEOREM OneRefreshServesAll == Spec => []NoNeedlessRefresh
  <1>1. Init => LockInv
    BY DEF Init, LockInv, Fetches, Places
  <1>2. LockInv /\ [Next]_vars => LockInv'
    <2> SUFFICES ASSUME LockInv, [Next]_vars PROVE LockInv'
      OBVIOUS
    <2>1. CASE UNCHANGED vars
      BY <2>1 DEF vars, LockInv, Fetches
    <2>2. CASE Tick
      BY <2>2 DEF Tick, cache, LockInv, Fetches
    <2> QED BY <2>1, <2>2, LockStep DEF Next
  <1>3. LockInv => NoNeedlessRefresh
    BY DEF LockInv, Fetches, NoNeedlessRefresh
  <1> QED BY <1>1, <1>2, <1>3, PTL DEF Spec
-----------------------------------------------------------------------------
(* The pacing: OKX's bucket and Kraken's spacing *)

\* A nonempty set of naturals has a least element.
LEMMA LeastNat ==
    ASSUME NEW S \in SUBSET Nat, S # {}
    PROVE  \E m \in S : \A n \in S : m <= n
  <1> DEFINE R == OpToRel(<, Nat)
  <1>1. IsWellFoundedOn(R, Nat)
    BY NatLessThanWellFounded
  <1>2. \A n, m \in Nat : <<n, m>> \in R <=> n < m
    BY DEF OpToRel
  <1> HIDE DEF R
  <1>3. PICK m \in S : \A n \in S : ~ (<<n, m>> \in R)
    BY <1>1, WFMin
  <1>4. ASSUME NEW n \in S PROVE m <= n
    <2>1. n \in Nat /\ m \in Nat /\ ~ (<<n, m>> \in R)
      BY <1>3
    <2>2. ~(n < m)
      BY <1>2, <2>1
    <2> QED BY <2>1, <2>2
  <1> QED BY <1>4

\* What is left of a sequence from its k-th element on.
LEMMA Suffix ==
    ASSUME NEW S, NEW s \in Seq(S), NEW k \in 1..Len(s) + 1
    PROVE  /\ SubSeq(s, k, Len(s)) \in Seq(S)
           /\ Len(SubSeq(s, k, Len(s))) = Len(s) - (k - 1)
           /\ \A i \in 1..Len(s) - (k - 1) : SubSeq(s, k, Len(s))[i] = s[i + (k - 1)]
  <1>1. SubSeq(s, k, Len(s)) = [i \in 1..(1 + Len(s) - k) |-> s[i + k - 1]]
    OBVIOUS
  <1>2. \A i \in 1..(1 + Len(s) - k) : i + k - 1 \in 1..Len(s)
    OBVIOUS
  <1>3. 1 + Len(s) - k \in Nat /\ 1 + Len(s) - k = Len(s) - (k - 1)
    OBVIOUS
  <1>4. \A i \in 1..(1 + Len(s) - k) : s[i + k - 1] \in S
    BY <1>2
  <1>5. SubSeq(s, k, Len(s)) \in Seq(S)
    BY <1>1, <1>3, <1>4
  <1>6. Len(SubSeq(s, k, Len(s))) = Len(s) - (k - 1)
    BY <1>1, <1>3
  <1>7. \A i \in 1..Len(s) - (k - 1) : SubSeq(s, k, Len(s))[i] = s[i + (k - 1)]
    BY <1>1, <1>3
  <1> QED BY <1>5, <1>6, <1>7

\* The limits of the venues are numbers.
LEMMA PacingConstants == BucketWindow \in Nat /\ BucketMax \in Nat /\ Spacing \in Nat
  BY RequestsAssumption

\* The loop of popleft ends, at the first entry within the window or with
\* nothing left.
LEMMA RecentSplits ==
    ASSUME NEW ages \in Seq(Nat)
    PROVE  \E k \in 1..Len(ages) + 1 :
              /\ \A i \in 1..k - 1 : ages[i] > BucketWindow
              /\ k <= Len(ages) => ages[k] <= BucketWindow
              /\ Recent(ages) = SubSeq(ages, k, Len(ages))
  <1> DEFINE Stops(k) == /\ \A i \in 1..k - 1 : ages[i] > BucketWindow
                         /\ k <= Len(ages) => ages[k] <= BucketWindow
             S == {n \in 1..Len(ages) + 1 : n <= Len(ages) => ages[n] <= BucketWindow}
             first == CHOOSE k \in 1..Len(ages) + 1 : Stops(k)
  <1>1. Len(ages) \in Nat /\ BucketWindow \in Nat /\ \A i \in 1..Len(ages) : ages[i] \in Nat
    BY PacingConstants
  <1>2. S \in SUBSET Nat /\ Len(ages) + 1 \in S
    BY <1>1
  <1>3. PICK m \in S : \A n \in S : m <= n
    BY <1>2, LeastNat
  <1>4. m \in 1..Len(ages) + 1 /\ Stops(m)
    <2>1. m \in 1..Len(ages) + 1 /\ (m <= Len(ages) => ages[m] <= BucketWindow)
      BY <1>3
    <2>2. ASSUME NEW i \in 1..m - 1 PROVE ages[i] > BucketWindow
      <3>1. i \in 1..Len(ages) /\ i \in 1..Len(ages) + 1 /\ ~(m <= i)
        BY <1>1, <2>1
      <3>2. i \notin S
        BY <1>3, <3>1
      <3> QED BY <1>1, <3>1, <3>2
    <2> QED BY <2>1, <2>2
  <1>5. first \in 1..Len(ages) + 1 /\ Stops(first)
    BY <1>4
  <1>6. Recent(ages) = SubSeq(ages, first, Len(ages))
    BY DEF Recent
  <1> QED BY <1>5, <1>6

\* The ages the venue counts are in order, none beyond the window.
LogInOrder ==
    /\ log \in Seq(Nat)
    /\ \A i \in 1..Len(log) : log[i] <= BucketWindow
    /\ \A i, j \in 1..Len(log) : i <= j => log[i] >= log[j]

\* OKX: what the venue counts is what the bucket holds, once the entries it
\* has yet to pop are gone.
LogIsBucket ==
    \E n \in 0..Len(stamps) :
        /\ Len(log) = Len(stamps) - n
        /\ \A i \in 1..Len(log) : log[i] = stamps[n + i]
        /\ \A i \in 1..n : stamps[i] > BucketWindow

BucketInv == LogIsBucket /\ Len(log) <= BucketMax

\* Kraken: the last request is at least as old as the throttle believes, and
\* the requests before it keep their distance.
SpacedInv ==
    /\ log # <<>> => log[Len(log)] >= since
    /\ \A i \in 1..Len(log) - 1 : log[i] - log[i + 1] >= Spacing

RateInv ==
    /\ StaleInv
    /\ stamps \in Seq(Nat) /\ LogInOrder
    /\ adapter.pace = "bucket" => BucketInv
    /\ adapter.pace = "spaced" => SpacedInv

\* The newest request goes to the end of the log.
LEMMA SentInOrder ==
    ASSUME LogInOrder, log' = Append(log, 0)
    PROVE  LogInOrder'
  <1>1. /\ log \in Seq(Nat) /\ log' \in Seq(Nat) /\ Len(log') = Len(log) + 1
        /\ Len(log) \in Nat /\ log'[Len(log) + 1] = 0 /\ BucketWindow \in Nat
        /\ \A i \in 1..Len(log) : log'[i] = log[i] /\ log[i] \in Nat
    BY PacingConstants DEF LogInOrder
  <1>2. \A i \in 1..Len(log') : log'[i] \in Nat /\ log'[i] <= BucketWindow
    BY <1>1 DEF LogInOrder
  <1>3. ASSUME NEW i \in 1..Len(log'), NEW j \in 1..Len(log'), i <= j
        PROVE  log'[i] >= log'[j]
    <2>1. CASE j = Len(log) + 1
      BY <1>1, <1>2, <2>1
    <2>2. CASE j # Len(log) + 1
      BY <1>1, <1>3, <2>2 DEF LogInOrder
    <2> QED BY <2>1, <2>2
  <1> QED BY <1>1, <1>2, <1>3 DEF LogInOrder

\* A token: the bucket holds exactly what the venue counts, and one more.
LEMMA TokenKeepsRate ==
    ASSUME stamps \in Seq(Nat), LogInOrder, BucketInv, NEW t \in Tasks, TakeToken(t)
    PROVE  stamps' \in Seq(Nat) /\ BucketInv'
  <1>1. PICK n \in 0..Len(stamps) :
           /\ Len(log) = Len(stamps) - n
           /\ \A i \in 1..Len(log) : log[i] = stamps[n + i]
           /\ \A i \in 1..n : stamps[i] > BucketWindow
    BY DEF BucketInv, LogIsBucket
  <1>2. PICK k \in 1..Len(stamps) + 1 :
           /\ \A i \in 1..k - 1 : stamps[i] > BucketWindow
           /\ k <= Len(stamps) => stamps[k] <= BucketWindow
           /\ Recent(stamps) = SubSeq(stamps, k, Len(stamps))
    BY RecentSplits
  <1>3. /\ Len(stamps) \in Nat /\ BucketWindow \in Nat /\ BucketMax \in Nat
        /\ \A i \in 1..Len(stamps) : stamps[i] \in Nat
        /\ log \in Seq(Nat) /\ Len(log) \in Nat
        /\ \A i \in 1..Len(log) : log[i] <= BucketWindow
    BY PacingConstants DEF LogInOrder
  <1>4. k = n + 1
    <2>1. ~(k <= n)
      BY SMTT(20), <1>1, <1>2, <1>3
    <2>2. ~(k > n + 1)
      <3> SUFFICES ASSUME k > n + 1 PROVE FALSE
        OBVIOUS
      <3>1. 1 \in 1..Len(log) /\ n + 1 \in 1..k - 1
        BY <1>1, <1>2, <1>3
      <3>2. log[1] = stamps[n + 1] /\ log[1] <= BucketWindow /\ stamps[n + 1] > BucketWindow
        BY <1>1, <1>2, <1>3, <3>1
      <3> QED BY <1>3, <3>2
    <2> QED BY <1>1, <1>2, <1>3, <2>1, <2>2
  <1>5. /\ Recent(stamps) \in Seq(Nat) /\ Len(Recent(stamps)) = Len(log)
        /\ \A i \in 1..Len(log) : Recent(stamps)[i] = log[i]
    <2>1. /\ SubSeq(stamps, n + 1, Len(stamps)) \in Seq(Nat)
          /\ Len(SubSeq(stamps, n + 1, Len(stamps))) = Len(stamps) - n
          /\ \A i \in 1..Len(stamps) - n :
                SubSeq(stamps, n + 1, Len(stamps))[i] = stamps[n + i]
      <3>1. n + 1 \in 1..Len(stamps) + 1 /\ (n + 1) - 1 = n
        BY <1>1, <1>3
      <3>2. \A i \in 1..Len(stamps) - n : i + n = n + i
        BY <1>1, <1>3
      <3> QED BY <3>1, <3>2, Suffix
    <2> QED BY <1>1, <1>2, <1>4, <2>1
  <1>6. stamps' = Append(Recent(stamps), 0) /\ log' = Append(log, 0) /\ Len(log) < BucketMax
    BY <1>5 DEF TakeToken, Send, HasRoom
  <1>7. /\ stamps' \in Seq(Nat) /\ Len(stamps') = Len(log) + 1 /\ Len(log') = Len(log) + 1
        /\ \A i \in 1..Len(log) + 1 : stamps'[i] = log'[i]
    BY <1>3, <1>5, <1>6
  <1>8. LogIsBucket'
    <2>1. 0 \in 0..Len(stamps') /\ Len(log') = Len(stamps') - 0
      BY <1>3, <1>7
    <2>2. \A i \in 1..Len(log') : log'[i] = stamps'[0 + i]
      BY <1>3, <1>7
    <2> QED BY <2>1, <2>2 DEF LogIsBucket
  <1>9. Len(log') <= BucketMax
    BY <1>3, <1>6, <1>7
  <1> QED BY <1>7, <1>8, <1>9 DEF BucketInv

\* Kraken: a request is granted once the last one is as old as the spacing.
LEMMA GrantKeepsRate ==
    ASSUME Types, LogInOrder, SpacedInv, NEW t \in Tasks, AwaitThrottle(t)
    PROVE  SpacedInv' /\ (log' = log \/ log' = Append(log, 0))
  <1>1. CASE UNCHANGED <<since, log>>
    BY <1>1 DEF SpacedInv
  <1>2. CASE Granted(t) /\ since' = 0 /\ Send(t)
    <2> DEFINE spacing == IF slow > 0 THEN Spacing + ExtraSpacing ELSE Spacing
               onPair  == IF req[t] = "own" THEN PairSpacing - pair[PairOf[t]] ELSE 0
    <2>1. /\ spacing - since \in Int /\ onPair \in Int /\ spacing >= Spacing
          /\ since \in Int /\ backoff \in Nat /\ Spacing \in Nat /\ spacing \in Nat
      BY RequestsAssumption DEF Types, Pairs
    <2>2. Delay(t) = Larger(backoff, Larger(spacing - since, onPair))
      BY DEF Delay
    <2> HIDE DEF spacing, onPair
    <2>3. Larger(spacing - since, onPair) \in Int /\ Larger(spacing - since, onPair) >= spacing - since
      BY <2>1, LargerIsMax
    <2>4. Delay(t) \in Int /\ Delay(t) >= spacing - since
      BY <2>1, <2>2, <2>3, LargerIsMax
    <2>5. since >= Spacing
      BY <1>2, <2>1, <2>4 DEF Granted
    <2>6. /\ log \in Seq(Nat) /\ Len(log) \in Nat /\ log' = Append(log, 0)
          /\ Len(log') = Len(log) + 1 /\ log'[Len(log')] = 0
          /\ \A i \in 1..Len(log) : log'[i] = log[i] /\ log[i] \in Nat
      BY <1>2 DEF LogInOrder, Send
    <2>7. log' # <<>> => log'[Len(log')] >= since'
      BY <1>2, <2>6
    <2>8. ASSUME NEW i \in 1..Len(log') - 1 PROVE log'[i] - log'[i + 1] >= Spacing
      <3>1. CASE i = Len(log)
        <4>1. log # <<>> /\ log'[i] = log[Len(log)] /\ log'[i + 1] = 0 /\ log[Len(log)] \in Nat
          BY <2>6, <3>1
        <4>2. log[Len(log)] >= since
          BY <4>1 DEF SpacedInv
        <4> QED BY <2>1, <2>5, <4>1, <4>2
      <3>2. CASE i # Len(log)
        <4>1. i \in 1..Len(log) - 1 /\ log'[i] = log[i] /\ log'[i + 1] = log[i + 1]
          BY <2>6, <3>2
        <4> QED BY <4>1 DEF SpacedInv
      <3> QED BY <3>1, <3>2
    <2> QED BY <2>6, <2>7, <2>8 DEF SpacedInv
  <1> QED BY <1>1, <1>2 DEF AwaitThrottle

\* A step of a task keeps the limits of its venue.
LEMMA TaskKeepsRate ==
    ASSUME RateInv, NEW t \in Tasks, Step(t)
    PROVE  RateInv'
  <1>1. StaleInv'
    BY TaskKeepsStale DEF RateInv
  <1>2. CASE SendAfterDeadline(t)
    <2>1. /\ log' = Append(log, 0) /\ adapter' = adapter /\ stamps' = stamps
          /\ adapter.pace = "sleep"
      BY <1>2 DEF SendAfterDeadline, Send, pacing
    <2> QED BY <1>1, <2>1, SentInOrder DEF RateInv
  <1>3. CASE TakeToken(t)
    <2>1. log' = Append(log, 0) /\ adapter' = adapter /\ adapter.pace = "bucket"
      BY <1>3 DEF TakeToken, Send
    <2> QED BY <1>1, <1>3, <2>1, SentInOrder, TokenKeepsRate DEF RateInv
  <1>4. CASE AwaitThrottle(t)
    <2>1. adapter' = adapter /\ adapter.pace = "spaced" /\ stamps' = stamps
      BY <1>4 DEF AwaitThrottle
    <2>2. SpacedInv' /\ (log' = log \/ log' = Append(log, 0))
      BY <1>4, <2>1, GrantKeepsRate DEF RateInv, StaleInv
    <2>3. LogInOrder'
      BY <2>2, SentInOrder DEF RateInv, LogInOrder
    <2> QED BY <1>1, <2>1, <2>2, <2>3 DEF RateInv
  <1>5. CASE \/ Admit(t) \/ TakeTable(t) \/ AwaitDeadline(t) \/ EnterGate(t) \/ Succeed(t)
             \/ Throttled(t) \/ Busy(t) \/ PauseOver(t) \/ Refused(t)
    <2>1. UNCHANGED <<adapter, log, stamps, since>>
      BY <1>5 DEF Admit, TakeTable, AwaitDeadline, EnterGate, Succeed, Throttled, Busy,
         PauseOver, Refused, Answered, pacing
    <2> QED BY <1>1, <2>1 DEF RateInv, LogInOrder, BucketInv, LogIsBucket, SpacedInv
  <1> QED BY <1>2, <1>3, <1>4, <1>5 DEF Step

\* A tick: everything ages, and what leaves the window is no longer counted.
LEMMA TickKeepsRate ==
    ASSUME RateInv, Tick
    PROVE  RateInv'
  <1>1. StaleInv' /\ adapter' = adapter
    BY TickKeepsStale DEF RateInv, Tick
  <1>2. /\ BucketWindow \in Nat /\ stamps \in Seq(Nat) /\ log \in Seq(Nat)
        /\ Len(log) \in Nat /\ Len(stamps) \in Nat
        /\ \A i \in 1..Len(log) : log[i] \in Nat /\ log[i] <= BucketWindow
        /\ \A i \in 1..Len(stamps) : stamps[i] \in Nat
    BY PacingConstants DEF RateInv, LogInOrder
  <1>3. /\ stamps' \in Seq(Nat) /\ Len(stamps') = Len(stamps)
        /\ \A i \in 1..Len(stamps) :
              /\ stamps[i] <= BucketWindow => stamps'[i] = stamps[i] + 1
              /\ stamps[i] > BucketWindow => stamps'[i] > BucketWindow
    <2>1. stamps' = [i \in 1..Len(stamps) |-> Smaller(stamps[i] + 1, BucketWindow + 1)]
      BY <1>2 DEF Tick, Older
    <2>2. \A i \in 1..Len(stamps) :
              /\ Smaller(stamps[i] + 1, BucketWindow + 1) \in Nat
              /\ stamps[i] <= BucketWindow => Smaller(stamps[i] + 1, BucketWindow + 1) = stamps[i] + 1
              /\ stamps[i] > BucketWindow => Smaller(stamps[i] + 1, BucketWindow + 1) > BucketWindow
      BY <1>2 DEF Smaller
    <2> QED BY <1>2, <2>1, <2>2
  <1> DEFINE old == Older(log)
  <1>4. /\ old \in Seq(Nat) /\ Len(old) = Len(log)
        /\ \A i \in 1..Len(log) : old[i] = log[i] + 1
    <2>1. old = [i \in 1..Len(log) |-> Smaller(log[i] + 1, BucketWindow + 1)]
      BY <1>2 DEF Older
    <2>2. \A i \in 1..Len(log) : Smaller(log[i] + 1, BucketWindow + 1) = log[i] + 1
      BY <1>2 DEF Smaller
    <2> HIDE DEF old
    <2> QED BY <1>2, <2>1, <2>2
  <1>5. log' = Recent(old)
    BY DEF Tick
  <1> HIDE DEF old
  <1>6. PICK k \in 1..Len(old) + 1 :
           /\ \A i \in 1..k - 1 : old[i] > BucketWindow
           /\ k <= Len(old) => old[k] <= BucketWindow
           /\ Recent(old) = SubSeq(old, k, Len(old))
    BY <1>4, RecentSplits
  \* the log is the old one from its k-th entry on, a tick older
  <1>7. /\ log' \in Seq(Nat) /\ Len(log') = Len(log) - (k - 1)
        /\ \A i \in 1..Len(log') : /\ i + (k - 1) \in 1..Len(log)
                                   /\ log'[i] = log[i + (k - 1)] + 1
    <2>1. /\ SubSeq(old, k, Len(old)) \in Seq(Nat)
          /\ Len(SubSeq(old, k, Len(old))) = Len(old) - (k - 1)
          /\ \A i \in 1..Len(old) - (k - 1) :
                SubSeq(old, k, Len(old))[i] = old[i + (k - 1)]
      BY <1>4, <1>6, Suffix
    <2>2. log' \in Seq(Nat) /\ Len(log') = Len(log) - (k - 1)
      BY <1>4, <1>5, <1>6, <2>1
    <2>3. ASSUME NEW i \in 1..Len(log')
          PROVE  i + (k - 1) \in 1..Len(log) /\ log'[i] = log[i + (k - 1)] + 1
      <3>1. i \in 1..Len(old) - (k - 1) /\ i + (k - 1) \in 1..Len(log)
        BY <1>2, <1>4, <1>6, <2>2
      <3> QED BY <1>4, <1>5, <1>6, <2>1, <3>1
    <2> QED BY <2>2, <2>3
  <1>8. LogInOrder'
    <2>1. ASSUME NEW i \in 1..Len(log'), NEW j \in 1..Len(log'), i <= j
          PROVE  log'[i] >= log'[j]
      <3>1. i + (k - 1) <= j + (k - 1)
        BY <1>6, <1>7, <2>1
      <3>2. log[i + (k - 1)] >= log[j + (k - 1)]
        BY <1>7, <3>1 DEF RateInv, LogInOrder
      <3>3. log[i + (k - 1)] \in Nat /\ log[j + (k - 1)] \in Nat
        BY <1>2, <1>7
      <3>4. log'[i] = log[i + (k - 1)] + 1 /\ log'[j] = log[j + (k - 1)] + 1
        BY <1>7
      <3> QED BY <3>2, <3>3, <3>4
    <2>2. ASSUME NEW i \in 1..Len(log') PROVE log'[i] <= BucketWindow
      <3>1. 1 \in 1..Len(log') /\ 1 <= i /\ k <= Len(old) /\ k \in 1..Len(log)
        BY <1>2, <1>4, <1>6, <1>7
      <3>2. log'[1] = old[k] /\ old[k] <= BucketWindow
        <4>1. 1 + (k - 1) = k
          BY <1>6
        <4> QED BY <1>4, <1>6, <1>7, <3>1, <4>1
      <3>3. log'[1] >= log'[i]
        BY <2>1, <3>1
      <3>4. log'[i] \in Nat /\ log'[1] \in Nat
        BY SMTT(20), <1>7, <3>1
      <3> QED BY <1>2, <3>2, <3>3, <3>4
    <2> QED BY <1>7, <2>1, <2>2 DEF LogInOrder
  <1>9. ASSUME adapter.pace = "bucket" PROVE BucketInv'
    <2>1. PICK n \in 0..Len(stamps) :
             /\ Len(log) = Len(stamps) - n
             /\ \A i \in 1..Len(log) : log[i] = stamps[n + i]
             /\ \A i \in 1..n : stamps[i] > BucketWindow
      BY <1>9 DEF RateInv, BucketInv, LogIsBucket
    <2> DEFINE n2 == n + (k - 1)
    <2>2. n2 \in 0..Len(stamps') /\ Len(log') = Len(stamps') - n2
      BY <1>2, <1>3, <1>4, <1>6, <1>7, <2>1
    <2>3. ASSUME NEW i \in 1..Len(log') PROVE log'[i] = stamps'[n2 + i]
      <3>1. /\ i + (k - 1) \in 1..Len(log) /\ log'[i] = log[i + (k - 1)] + 1
            /\ n + (i + (k - 1)) \in 1..Len(stamps) /\ n + (i + (k - 1)) = n2 + i
        BY <1>2, <1>6, <1>7, <2>1
      <3>2. log[i + (k - 1)] = stamps[n2 + i] /\ stamps[n2 + i] <= BucketWindow
        BY <1>2, <2>1, <3>1
      <3> QED BY <1>3, <3>1, <3>2
    <2>4. ASSUME NEW i \in 1..n2 PROVE stamps'[i] > BucketWindow
      <3>1. CASE i <= n
        BY <1>3, <2>1, <3>1
      <3>2. CASE i > n
        <4>1. i - n \in 1..k - 1 /\ i - n \in 1..Len(log) /\ n + (i - n) = i /\ i \in 1..Len(stamps)
          BY <1>2, <1>4, <1>6, <2>1, <3>2
        <4>2. log[i - n] = stamps[i] /\ old[i - n] > BucketWindow /\ old[i - n] = log[i - n] + 1
          BY <1>4, <1>6, <2>1, <4>1
        <4>3. stamps'[i] = stamps[i] + 1
          BY <1>2, <1>3, <4>1, <4>2
        <4> QED BY <4>2, <4>3
      <3> QED BY <2>1, <3>1, <3>2
    <2>5. Len(log') <= BucketMax
      <3>1. Len(log) <= BucketMax /\ BucketMax \in Nat
        BY <1>9, RequestsAssumption DEF RateInv, BucketInv
      <3> QED BY <1>2, <1>6, <1>7, <3>1
    <2> HIDE DEF n2
    <2> QED BY <2>2, <2>3, <2>4, <2>5 DEF BucketInv, LogIsBucket
  <1>10. ASSUME adapter.pace = "spaced" PROVE SpacedInv'
    <2>1. ASSUME NEW i \in 1..Len(log') - 1 PROVE log'[i] - log'[i + 1] >= Spacing
      <3>1. /\ i + (k - 1) \in 1..Len(log) - 1 /\ (i + 1) + (k - 1) = (i + (k - 1)) + 1
            /\ i \in 1..Len(log') /\ i + 1 \in 1..Len(log')
        <4>1. Len(log') = Len(log) - (k - 1) /\ k \in 1..Len(log) + 1
          BY <1>4, <1>6, <1>7
        <4> QED BY <1>2, <4>1
      <3>2. log[i + (k - 1)] - log[(i + (k - 1)) + 1] >= Spacing
        BY <1>10, <3>1 DEF RateInv, SpacedInv
      <3>3. log'[i] = log[i + (k - 1)] + 1 /\ log'[i + 1] = log[(i + (k - 1)) + 1] + 1
        BY <1>7, <3>1
      <3>4. log[i + (k - 1)] \in Nat /\ log[(i + (k - 1)) + 1] \in Nat
        <4>1. i + (k - 1) \in 1..Len(log) /\ (i + (k - 1)) + 1 \in 1..Len(log)
          BY <1>2, <1>6, <3>1
        <4> QED BY <1>2, <4>1
      <3>5. Spacing \in Nat
        BY PacingConstants
      <3> QED BY SMTT(20), <3>2, <3>3, <3>4, <3>5
    <2>2. ASSUME log' # <<>> PROVE log'[Len(log')] >= since'
      <3>1. /\ Len(log') \in 1..Len(log') /\ Len(log') + (k - 1) = Len(log) /\ log # <<>>
            /\ Len(log) \in 1..Len(log)
        BY SMTT(20), <1>2, <1>4, <1>6, <1>7, <2>2
      <3>2. log'[Len(log')] = log[Len(log)] + 1 /\ log[Len(log)] \in Nat
        BY <1>2, <1>7, <3>1
      <3>3. log[Len(log)] >= since
        BY <1>10, <3>1 DEF RateInv, SpacedInv
      <3>4. since \in Int /\ since' <= since + 1 /\ since' \in Int
        <4>1. since \in Int /\ LongAgo \in Int
          BY SMTT(20), RequestsAssumption, LargerIsMax DEF RateInv, StaleInv, Types, LongAgo
        <4> QED BY <4>1 DEF Tick, Smaller
      <3> QED BY <3>2, <3>3, <3>4
    <2> QED BY <2>1, <2>2 DEF SpacedInv
  <1> QED BY <1>1, <1>3, <1>8, <1>9, <1>10 DEF RateInv

\* However many sleepers wake together, no closed window holds more OKX
\* requests than the bucket's maximum, and two Kraken requests are never
\* closer than the spacing: for any number of tasks, any maximum, window and
\* spacing.
THEOREM VenueLimitsAreKept == Spec => []RateKept
  <1>1. Init => RateInv
    <2> SUFFICES ASSUME Init PROVE RateInv
      OBVIOUS
    <2>1. log = <<>> /\ stamps = <<>> /\ Len(log) = 0 /\ Len(stamps) = 0 /\ StaleInv
      BY StaleInit DEF Init
    <2>2. LogInOrder /\ stamps \in Seq(Nat)
      BY <2>1 DEF LogInOrder
    <2>3. BucketInv
      <3>1. LogIsBucket
        <4>1. 0 \in 0..Len(stamps)
          BY <2>1
        <4> QED BY <2>1, <4>1 DEF LogIsBucket
      <3> QED BY <2>1, <3>1, RequestsAssumption DEF BucketInv
    <2>4. SpacedInv
      BY <2>1 DEF SpacedInv
    <2> QED BY <2>1, <2>2, <2>3, <2>4 DEF RateInv
  <1>2. RateInv /\ [Next]_vars => RateInv'
    <2> SUFFICES ASSUME RateInv, [Next]_vars PROVE RateInv'
      OBVIOUS
    <2>1. CASE UNCHANGED vars
      BY <2>1 DEF vars, pacing, cache, RateInv, StaleInv, Types, NoneAtZero, StaleIsSpent,
         LogInOrder, BucketInv, LogIsBucket, SpacedInv
    <2> QED BY <2>1, TaskKeepsRate, TickKeepsRate DEF Next
  <1>3. RateInv => RateKept
    BY DEF RateInv, BucketInv, SpacedInv, RateKept
  <1> QED BY <1>1, <1>2, <1>3, PTL DEF Spec
===============================================================================
