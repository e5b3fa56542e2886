------------------------------- MODULE Requests -------------------------------
(***************************************************************************)
(* Concurrent calls of one adapter, as fetch_many makes them: each waits   *)
(* for a place in the batch, takes the exchange-info table (one lock, held *)
(* while the table is fetched) and then sends its own request, both        *)
(* through _make_request with its backoff deadline, its retries and the    *)
(* pacing of the venue.                                                    *)
(*                                                                         *)
(* Times are kept as what is left of them, so no clock bounds the model.   *)
(* Which error a failed call ends with is module Calls.                    *)
(***************************************************************************)
EXTENDS Sequences, Integers, FiniteSets

CONSTANTS
    Tasks,          \* the symbols of the batch
    None,           \* no task
    MaxConcurrent,  \* max_concurrent of fetch_many
    Retries,        \* tries of _make_request (3; 5 or 8 for Kraken)
    Patience,       \* the longest wait a request sleeps through (30 s; 60 s for OKX)
    ShortWait, LongWait,  \* waits a venue imposes, one on either side of Patience
    Slots,          \* OKX: places of _request_sem
    BucketMax, BucketWindow,   \* OKX: max and window of _RateBucket
    Spacing, ExtraSpacing, PairSpacing, SlowdownTime,  \* Kraken
    PairOf          \* Kraken: the pair of each task's own request

ASSUME RequestsAssumption ==
    /\ {MaxConcurrent, Retries, Slots, BucketMax, BucketWindow} \subseteq Nat \ {0}
    /\ {Patience, ShortWait, LongWait, Spacing, ExtraSpacing, PairSpacing,
        SlowdownTime} \subseteq Nat
    /\ ShortWait <= Patience /\ Patience < LongWait
    /\ IsFiniteSet(Tasks) /\ None \notin Tasks

-----------------------------------------------------------------------------
(* How the adapters differ.  pace: "sleep" until the deadline read before the  *)
(* request; "bucket", the same, then a semaphore and a sliding window;         *)
(* "spaced", a loop under a lock.  patient: no wait is too long.  waits: what  *)
(* a 429 imposes.  pauses: a good answer may announce a pause ("later" only    *)
(* when none is pending).  bans: a 403 is a ban.                               *)

Binance     == [pace |-> "sleep", patient |-> TRUE, waits |-> {ShortWait, LongWait},
                pauses |-> "later", bans |-> FALSE]
Bybit       == [pace |-> "sleep", patient |-> FALSE, waits |-> {ShortWait},
                pauses |-> "max", bans |-> TRUE]
Hyperliquid == [pace |-> "sleep", patient |-> FALSE, waits |-> {ShortWait},
                pauses |-> "never", bans |-> FALSE]
Kucoin      == [pace |-> "sleep", patient |-> FALSE, waits |-> {ShortWait},
                pauses |-> "never", bans |-> FALSE]
Okx         == [pace |-> "bucket", patient |-> FALSE, waits |-> {ShortWait, LongWait},
                pauses |-> "never", bans |-> FALSE]
Kraken      == [pace |-> "spaced", patient |-> TRUE, waits |-> {ShortWait, LongWait},
                pauses |-> "never", bans |-> FALSE]

VARIABLES
    adapter,  \* one of the above: never changes
    pc,       \* task -> "queued", "lock", "try", "asleep", "pause", "bucket", "flight", "done", "failed"
    req,      \* task -> the request it is busy with: "info" or "own"
    tries,    \* task -> tries left
    sleep,    \* task -> what is left of its sleep
    backoff,  \* what is left until _backoff_until
    slow,     \* Kraken: what is left until _slowdown_until
    since,    \* Kraken: time since _last_request_at (up to the longest spacing)
    pair,     \* Kraken: the same per pair
    stamps,   \* OKX: ages of the bucket's timestamps
    lock,     \* the holder of _info_cache_lock
    table,    \* "none", "fresh" or "stale"; a batch is over before a table goes stale
    log,      \* ages of the requests sent within BucketWindow
    stale     \* task -> requests it sent since the deadline was last set, before it

vars == <<adapter, pc, req, tries, sleep, backoff, slow, since, pair, stamps, lock, table,
          log, stale>>

pacing == <<slow, since, pair, stamps>>
cache  == <<lock, table>>

Pairs == {PairOf[t] : t \in Tasks}

Larger(m, n)  == IF m > n THEN m ELSE n
Smaller(m, n) == IF m < n THEN m ELSE n

\* Times since a request are kept no longer than any spacing.
LongAgo == Larger(Spacing + ExtraSpacing, PairSpacing)

Init ==
    /\ adapter \in {Binance, Bybit, Hyperliquid, Kucoin, Okx, Kraken}
    /\ pc = [t \in Tasks |-> "queued"]
    /\ req = [t \in Tasks |-> "info"]
    /\ tries = [t \in Tasks |-> Retries]
    /\ sleep = [t \in Tasks |-> 0]
    /\ backoff = 0 /\ slow = 0
    /\ since = LongAgo
    /\ pair = [p \in Pairs |-> LongAgo]
    /\ stamps = <<>> /\ log = <<>>
    /\ lock = None
    /\ table \in {"none", "fresh", "stale"}
    /\ stale = [t \in Tasks |-> 0]

-----------------------------------------------------------------------------
(* fetch_many and the exchange-info table *)

Running == {t \in Tasks : pc[t] \notin {"queued", "done", "failed"}}

\* async with semaphore.
Admit(t) ==
    /\ pc[t] = "queued"
    /\ Cardinality(Running) < MaxConcurrent
    /\ pc' = [pc EXCEPT ![t] = "lock"]
    /\ UNCHANGED <<adapter, req, tries, sleep, backoff, pacing, cache, log, stale>>

\* The task turns to request r.
Start(t, r) ==
    /\ pc' = [pc EXCEPT ![t] = "try"]
    /\ req' = [req EXCEPT ![t] = r]
    /\ tries' = [tries EXCEPT ![t] = Retries]

\* Slip: whoever waited for the lock fetches, even if the table came meanwhile.
RefreshesAnyway == TRUE

\* cached is None, or older than INFO_REFRESH_S.
Refreshes == table # "fresh"

\* _ensure_info_cache, up to the fetch.
TakeTable(t) ==
    /\ pc[t] = "lock"
    /\ lock = None
    /\ IF Refreshes THEN lock' = t /\ Start(t, "info")
       ELSE UNCHANGED lock /\ Start(t, "own")
    /\ UNCHANGED <<adapter, sleep, backoff, pacing, table, log, stale>>

-----------------------------------------------------------------------------
(* _make_request, up to the request *)

\* Slip: the deadline is looked at before the first try only.
DeadlineOnce(t) == IF tries[t] = Retries THEN backoff ELSE 0

\* _backoff_until - now, read at the top of the loop.
Deadline(t) == backoff

\* The request goes out.
Send(t) ==
    /\ pc' = [pc EXCEPT ![t] = "flight"]
    /\ log' = Append(log, 0)
    /\ stale' = [stale EXCEPT ![t] = IF backoff > 0 THEN @ + 1 ELSE @]

\* The request is over without an answer.
Ends(t) ==
    IF req[t] = "own" THEN pc' = [pc EXCEPT ![t] = "failed"] /\ UNCHANGED <<req, tries, lock, table>>
    ELSE /\ lock' = None
         /\ IF table = "none"
            THEN pc' = [pc EXCEPT ![t] = "failed"] /\ UNCHANGED <<req, tries, table>>
            ELSE table' = "fresh" /\ Start(t, "own")   \* the cached table, for INFO_RETRY_S

\* The deadline has not come: sleep, or give up when it is too far off.
AwaitDeadline(t) ==
    /\ pc[t] = "try" /\ adapter.pace # "spaced" /\ Deadline(t) > 0
    /\ \/ /\ adapter.patient \/ Deadline(t) <= Patience
          /\ pc' = [pc EXCEPT ![t] = "asleep"]
          /\ sleep' = [sleep EXCEPT ![t] = Deadline(t)]
          /\ UNCHANGED <<req, tries, lock, table>>
       \/ /\ ~adapter.patient /\ Deadline(t) > Patience
          /\ Ends(t)
          /\ UNCHANGED sleep
    /\ UNCHANGED <<adapter, backoff, pacing, log, stale>>

\* The deadline is past, or has been slept through: it is not looked at again.
SendAfterDeadline(t) ==
    /\ adapter.pace = "sleep"
    /\ \/ pc[t] = "try" /\ Deadline(t) = 0
       \/ pc[t] = "asleep" /\ sleep[t] = 0
    /\ Send(t)
    /\ UNCHANGED <<adapter, req, tries, sleep, backoff, pacing, cache>>

\* async with self._request_sem (OKX).
EnterGate(t) ==
    /\ adapter.pace = "bucket"
    /\ \/ pc[t] = "try" /\ Deadline(t) = 0
       \/ pc[t] = "asleep" /\ sleep[t] = 0
    /\ Cardinality({u \in Tasks : pc[u] \in {"bucket", "flight"}}) < Slots
    /\ pc' = [pc EXCEPT ![t] = "bucket"]
    /\ UNCHANGED <<adapter, req, tries, sleep, backoff, pacing, cache, log, stale>>

\* The oldest entries, those of ages beyond the window, are popped.
Recent(ages) ==
    LET first == CHOOSE k \in 1..Len(ages) + 1 :
                     /\ \A i \in 1..k - 1 : ages[i] > BucketWindow
                     /\ k <= Len(ages) => ages[k] <= BucketWindow
    IN  SubSeq(ages, first, Len(ages))

\* Slip: the bucket takes one request more than its maximum.
HasRoomAtMax(ages) == Len(ages) <= BucketMax

HasRoom(ages) == Len(ages) < BucketMax

\* _RateBucket.acquire: the loop ends once there is room.
TakeToken(t) ==
    /\ adapter.pace = "bucket" /\ pc[t] = "bucket"
    /\ HasRoom(Recent(stamps))
    /\ stamps' = Append(Recent(stamps), 0)
    /\ Send(t)
    /\ UNCHANGED <<adapter, req, tries, sleep, backoff, slow, since, pair, cache>>

\* The delay _await_throttle finds (Kraken): the deadline, the spacing of all
\* requests and the spacing of the requests for a pair.
Delay(t) ==
    LET spacing == IF slow > 0 THEN Spacing + ExtraSpacing ELSE Spacing
        onPair  == IF req[t] = "own" THEN PairSpacing - pair[PairOf[t]] ELSE 0
    IN  Larger(backoff, Larger(spacing - since, onPair))

Granted(t) == Delay(t) <= 0

AwaitThrottle(t) ==
    /\ adapter.pace = "spaced"
    /\ pc[t] = "try" \/ (pc[t] = "asleep" /\ sleep[t] = 0)
    /\ \/ /\ ~Granted(t)
          /\ pc' = [pc EXCEPT ![t] = "asleep"]
          /\ sleep' = [sleep EXCEPT ![t] = Delay(t)]
          /\ UNCHANGED <<since, pair, log, stale>>
       \/ /\ Granted(t)
          /\ since' = 0
          /\ pair' = IF req[t] = "own" THEN [pair EXCEPT ![PairOf[t]] = 0] ELSE pair
          /\ Send(t)
          /\ UNCHANGED sleep
    /\ UNCHANGED <<adapter, req, tries, backoff, slow, stamps, cache>>

-----------------------------------------------------------------------------
(* _make_request, what comes back *)

Answered(t) ==
    pc[t] = "flight" /\ UNCHANGED <<adapter, since, pair, stamps, log>>

\* self._backoff_until = max(self._backoff_until, time.time() + w); a deadline
\* that moves is one that no request has been sent against.
SetBackoff(w) ==
    /\ backoff' = Larger(backoff, w)
    /\ stale' = IF w > backoff THEN [t \in Tasks |-> 0] ELSE stale

\* An answer.  It may say that the limit is near (Binance, Bybit).
Succeed(t) ==
    /\ Answered(t)
    /\ \/ UNCHANGED <<backoff, stale>>
       \/ adapter.pauses = "max" /\ SetBackoff(ShortWait)
       \/ adapter.pauses = "later" /\ backoff = 0 /\ SetBackoff(ShortWait)
    /\ \/ /\ req[t] = "own"
          /\ pc' = [pc EXCEPT ![t] = "done"]
          /\ UNCHANGED <<req, tries, lock, table>>
       \/ /\ req[t] = "info"
          /\ table' = "fresh"
          /\ lock' = None
          /\ Start(t, "own")
    /\ UNCHANGED <<sleep, slow>>

\* Slip: the try is not counted.
KeepsTries(n) == n

\* retries -= 1.
LessTries(n) == n - 1

\* One try less: the loop goes on after `pause`, or is over.
TryAgain(t, pause) ==
    IF LessTries(tries[t]) = 0 THEN Ends(t) /\ UNCHANGED sleep
    ELSE /\ tries' = [tries EXCEPT ![t] = LessTries(@)]
         /\ pc' = [pc EXCEPT ![t] = IF pause = 0 THEN "try" ELSE "pause"]
         /\ sleep' = [sleep EXCEPT ![t] = pause]
         /\ UNCHANGED <<req, lock, table>>

\* 429, 418, Bybit's 10006, Kraken's rate-limit errors.
Throttled(t) ==
    /\ Answered(t)
    /\ \E w \in adapter.waits : SetBackoff(w)
    /\ slow' = IF adapter.pace = "spaced" THEN SlowdownTime ELSE slow
    /\ TryAgain(t, 0)

\* 502, 503, 504, 520, no answer at all: again after a second, or (Kraken)
\* after a backoff for everybody.
Busy(t) ==
    /\ Answered(t)
    /\ IF adapter.pace = "spaced" THEN SetBackoff(ShortWait) ELSE UNCHANGED <<backoff, stale>>
    /\ TryAgain(t, IF adapter.pace = "spaced" THEN 0 ELSE 1)
    /\ UNCHANGED slow

\* The second is over.
PauseOver(t) ==
    /\ pc[t] = "pause" /\ sleep[t] = 0
    /\ pc' = [pc EXCEPT ![t] = "try"]
    /\ UNCHANGED <<adapter, req, tries, sleep, backoff, pacing, cache, log, stale>>

\* Any other status, an error in the answer; a 403 from Bybit.
Refused(t) ==
    /\ Answered(t)
    /\ \/ UNCHANGED <<backoff, stale>>
       \/ adapter.bans /\ SetBackoff(LongWait)
    /\ Ends(t)
    /\ UNCHANGED <<sleep, slow>>

-----------------------------------------------------------------------------
Less(n) == IF n = 0 THEN 0 ELSE n - 1
Older(ages) == [i \in DOMAIN ages |-> Smaller(ages[i] + 1, BucketWindow + 1)]

Tick ==
    /\ sleep' = [t \in Tasks |-> Less(sleep[t])]
    /\ backoff' = Less(backoff)
    /\ stale' = IF backoff <= 1 THEN [t \in Tasks |-> 0] ELSE stale
    /\ slow' = Less(slow)
    /\ since' = Smaller(since + 1, LongAgo)
    /\ pair' = [p \in Pairs |-> Smaller(pair[p] + 1, LongAgo)]
    /\ stamps' = Older(stamps)
    /\ log' = Recent(Older(log))
    /\ UNCHANGED <<adapter, pc, req, tries, cache>>

Step(t) ==
    \/ Admit(t) \/ TakeTable(t)
    \/ AwaitDeadline(t) \/ SendAfterDeadline(t) \/ EnterGate(t) \/ TakeToken(t)
    \/ AwaitThrottle(t)
    \/ Succeed(t) \/ Throttled(t) \/ Busy(t) \/ PauseOver(t) \/ Refused(t)

AllEnded == \A t \in Tasks : pc[t] \in {"done", "failed"}

Next ==
    \/ \E t \in Tasks : Step(t)
    \/ Tick

\* A task that can go on does, requests are answered or time out, time passes.
Spec == Init /\ [][Next]_vars /\ \A t \in Tasks : WF_vars(Step(t)) /\ WF_vars(Tick)

-----------------------------------------------------------------------------
\* A 429 or a ban stops the adapter's requests: after a deadline is set, a task
\* sends at most one more request before it, the one for which it had read an
\* earlier deadline, whatever it is asked to retry meanwhile.  Kraken, which
\* reads the deadline again under its lock, sends none.
OneStaleRequest ==
    \A t \in Tasks : stale[t] <= IF adapter.pace = "spaced" THEN 0 ELSE 1

\* What the venue counts: no closed window of the bucket's length holds more
\* than its maximum (OKX), two requests are never closer than the spacing
\* (Kraken), however many sleepers wake together.
RateKept ==
    /\ adapter.pace = "bucket" => Len(log) <= BucketMax
    /\ adapter.pace = "spaced" =>
          \A i \in 1..Len(log) - 1 : log[i] - log[i + 1] >= Spacing

\* Callers that queued behind a refresh use the table it brought: nobody
\* fetches exchange info while the table is fresh.
NoNeedlessRefresh ==
    \A t \in Tasks :
        pc[t] \notin {"queued", "lock", "done", "failed"} /\ req[t] = "info" => table # "fresh"

\* Every call of a batch ends, through the batch's semaphore, the table's lock,
\* the request semaphore and the bucket, all of which a task may hold while it
\* sleeps.
EveryCallEnds == <>[]AllEnded
=============================================================================
