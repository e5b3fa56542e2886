-------------------------------- MODULE Feeds --------------------------------
(***************************************************************************)
(* The data path of one topic: the venue's value (an order book, of which  *)
(* a ticker or an event list is the simple case), the frames it pushes,    *)
(* the bounded queue StreamHub keeps for each reader, and the stream_*     *)
(* methods that rebuild the value from the frames.  The method is any of   *)
(* the shapes of Channels; connecting and subscribing are the steps of     *)
(* StreamHub, here as far as they decide which frames a reader receives.   *)
(***************************************************************************)
EXTENDS Channels, Sequences

CONSTANTS
    Readers,     \* the streams opened on the topic
    Bids, Asks,  \* the price levels of the two sides
    Qtys,        \* quantities a level may have; 0 is no level
    QueueSize,   \* maxsize of a reader's asyncio.Queue
    Restarts,    \* whether an ended stream is entered again at once, as
                 \* AsyncCore.stream does over LocalBackend, or is closed
    None,        \* no value
    MaxUpdates,  \* bound: changes of the venue's book
    MaxFaults    \* bound: broken connections and malformed frames

ASSUME FeedsAssumption ==
    /\ Bids \cap Asks = {}
    /\ 0 \in Qtys
    /\ QueueSize \in Nat \ {0}
    /\ Restarts \subseteq BOOLEAN
    /\ None \notin Nat
    /\ MaxUpdates \in Nat /\ MaxFaults \in Nat

Levels == Bids \cup Asks
Books  == [Levels -> Qtys]

VARIABLES
    shape,   \* the stream method and who runs it: never changes
    hist,    \* the venue's books; frame number u describes hist[u]
    up,      \* the hub is connected
    asked,   \* the venue streams the topic on this connection
    state,   \* reader: "idle", "reading", or "ended" and not yet unsubscribed
    stale,   \* readers entered again whose previous queue is still registered
    queue,   \* the reader's asyncio.Queue
    book,    \* bids and asks of the method
    last,    \* last_u, last_seq: None without a number
    boot,    \* bootstrapped
    at,      \* ghost: the frame the book was brought up to
    out,     \* what the method yielded last: the frame, the book, and whether
             \* the book was in doubt
    missed,  \* ghost: readers that lost a frame after the snapshot they use
    doubt,   \* ghost: readers whose book took a delta, with no number to
             \* compare, after they had lost a frame
    faults   \* faults so far

vars == <<shape, hist, up, asked, state, stale, queue, book, last, boot, at, out,
          missed, doubt, faults>>

Numbered == {"sequenced", "chained"}
Deltas   == {"patch"} \cup Numbered

Registered == {r \in Readers : state[r] # "idle"}

NoBook == [l \in Levels |-> 0]

\* Frame u of the venue.  num and prev are the numbers a method reads off it
\* (Bybit's u; OKX's seqId and prevSeqId), None where there is none to read.
Num(u)  == IF shape.frame \in Numbered THEN u ELSE None
Prev(u) == IF shape.frame = "chained" THEN u - 1 ELSE None

Whole(u, b) == [type |-> "whole", u |-> u, book |-> b]
Snapshot(num) ==
    [type |-> "snapshot", u |-> Len(hist), num |-> num, book |-> hist[Len(hist)]]
Delta(u, l, q, num, prev) ==
    [type |-> "update", u |-> u, level |-> l, qty |-> q, num |-> num, prev |-> prev]
Garbage == [type |-> "bad"]

\* What may come in place of the delta of a change: a frame that will not
\* parse, or one that lacks a number.
Damaged(u, l, q) ==
    ({Garbage} \cup {Delta(u, l, q, n, p) : n \in {Num(u), None}, p \in {Prev(u), None}})
        \ {Delta(u, l, q, Num(u), Prev(u))}

Init ==
    /\ shape \in {[frame |-> s.frame, bad |-> s.bad, both |-> s.both,
                   replay |-> s.replay, restart |-> x] :
                      s \in StreamShapes, x \in Restarts}
    /\ hist = <<NoBook>>
    /\ up = FALSE /\ asked = FALSE
    /\ state  = [r \in Readers |-> "idle"]
    /\ stale  = {}
    /\ queue  = [r \in Readers |-> <<>>]
    /\ book   = [r \in Readers |-> NoBook]
    /\ last   = [r \in Readers |-> None]
    /\ boot   = [r \in Readers |-> FALSE]
    /\ at     = [r \in Readers |-> 0]
    /\ out    = [r \in Readers |-> None]
    /\ missed = {} /\ doubt = {}
    /\ faults = 0

-----------------------------------------------------------------------------
(* StreamHub: frames into the queues *)

\* Slip: a full queue refuses the new frame instead of the oldest one.
PutDropsNewest(q, f) == IF Len(q) < QueueSize THEN Append(q, f) ELSE q

\* Slip: the queue has no limit.
PutUnbounded(q, f) == Append(q, f)

\* put_nowait; on QueueFull the oldest frame is taken out first.
Put(q, f) == IF Len(q) < QueueSize THEN Append(q, f) ELSE Append(Tail(q), f)

\* A frame of the topic reaches the queues registered in rs.
Deliver(rs, f) ==
    /\ queue'  = [r \in Readers |-> IF r \in rs THEN Put(queue[r], f) ELSE queue[r]]
    /\ missed' = missed \cup {r \in rs : Len(queue[r]) = QueueSize}

\* What the venue sends when it is asked for the topic: a delta feed starts
\* with a snapshot, which may lack its number; a feed with replay starts with
\* some recent event.
Opening(rs) ==
    \/ /\ shape.frame \in Deltas
       /\ Deliver(rs, Snapshot(Num(Len(hist))))
       /\ UNCHANGED faults
    \/ /\ shape.frame \in Numbered
       /\ faults < MaxFaults
       /\ faults' = faults + 1
       /\ Deliver(rs, Snapshot(None))
    \/ /\ shape.replay
       /\ \E u \in 1..Len(hist) : Deliver(rs, Whole(u, hist[u]))
       /\ UNCHANGED faults
    \/ /\ shape.frame \notin Deltas /\ ~shape.replay
       /\ UNCHANGED <<queue, missed, faults>>

readerVars == <<state, stale, book, last, boot, at, out, doubt>>

\* The hub connects: it subscribes to every topic that has a queue.
Connect ==
    /\ ~up
    /\ up' = TRUE
    /\ asked' = (Registered # {})
    /\ IF Registered # {} THEN Opening(Registered) ELSE UNCHANGED <<queue, missed, faults>>
    /\ UNCHANGED <<shape, hist, readerVars>>

Disconnect ==
    /\ up
    /\ faults < MaxFaults
    /\ faults' = faults + 1
    /\ up' = FALSE
    /\ asked' = FALSE
    /\ UNCHANGED <<shape, hist, queue, missed, readerVars>>

-----------------------------------------------------------------------------
(* The venue *)

\* One level changes; the change is pushed while the topic is subscribed.
VenueChanges(l, q) ==
    /\ Len(hist) <= MaxUpdates
    /\ hist[Len(hist)][l] # q
    /\ hist' = Append(hist, [hist[Len(hist)] EXCEPT ![l] = q])
    /\ IF asked
       THEN LET u == Len(hist) + 1
            IN  Deliver(Registered, IF shape.frame \in Deltas
                                    THEN Delta(u, l, q, Num(u), Prev(u))
                                    ELSE Whole(u, [hist[Len(hist)] EXCEPT ![l] = q]))
       ELSE UNCHANGED <<queue, missed>>
    /\ UNCHANGED <<shape, up, asked, faults, readerVars>>

\* A damaged frame takes the place of a change's frame.
VenueGarbles(l, q) ==
    /\ asked
    /\ faults < MaxFaults
    /\ Len(hist) <= MaxUpdates
    /\ hist[Len(hist)][l] # q
    /\ faults' = faults + 1
    /\ hist' = Append(hist, [hist[Len(hist)] EXCEPT ![l] = q])
    /\ \E f \in Damaged(Len(hist) + 1, l, q) : Deliver(Registered, f)
    /\ UNCHANGED <<shape, up, asked, readerVars>>

-----------------------------------------------------------------------------
(* Opening and leaving a stream *)

\* The method's variables before its generator starts.
Fresh(r) ==
    /\ out'  = [out EXCEPT ![r] = None]
    /\ book' = [book EXCEPT ![r] = NoBook]
    /\ last' = [last EXCEPT ![r] = None]
    /\ boot' = [boot EXCEPT ![r] = FALSE]
    /\ at'   = [at EXCEPT ![r] = 0]
    /\ missed' = missed \ {r}
    /\ doubt'  = doubt \ {r}

\* _ws_connect and StreamHub.subscribe: only the first queue of a topic makes
\* the hub ask the venue for it.
Open(r) ==
    /\ state[r] = "idle"
    /\ state' = [state EXCEPT ![r] = "reading"]
    /\ UNCHANGED <<shape, hist, up, stale, book, last, boot, at, out, doubt>>
    /\ IF up /\ ~asked
       THEN asked' = TRUE /\ Opening({r})
       ELSE UNCHANGED <<asked, queue, missed, faults>>

\* The generator is closed: its finally clause unsubscribes the queue, and
\* the last queue of a topic makes the hub unsubscribe upstream.
Leave(r) ==
    /\ state[r] \in {"reading", "ended"}
    /\ r \notin stale
    /\ state' = [state EXCEPT ![r] = "idle"]
    /\ queue' = [queue EXCEPT ![r] = <<>>]
    /\ asked' = (asked /\ Registered # {r})
    /\ Fresh(r)
    /\ UNCHANGED <<shape, hist, up, stale, faults>>

\* Leaving the body of `async for` only schedules aclose() of _ws_connect:
\* a stream that is entered again has its new queue registered first.
OldQueueGone(r) ==
    /\ r \in stale
    /\ stale' = stale \ {r}
    /\ UNCHANGED <<shape, hist, up, asked, state, queue, book, last, boot, at, out,
                   missed, doubt, faults>>

-----------------------------------------------------------------------------
(* The stream methods: one frame out of the queue *)

TwoSided(b) == /\ \E l \in Bids : b[l] # 0
               /\ \E l \in Asks : b[l] # 0

\* The value is yielded, unless a side it needs is empty.
Yield(r, u, b) ==
    out' = IF shape.both /\ ~TwoSided(b) THEN out
           ELSE [out EXCEPT ![r] = [u |-> u, book |-> b, sure |-> r \notin doubt']]

\* The method returns.
Ends(r) ==
    /\ IF shape.restart
       THEN /\ stale' = stale \cup {r}
            /\ queue' = [queue EXCEPT ![r] = <<>>]
            /\ Fresh(r)
            /\ UNCHANGED state
       ELSE /\ state' = [state EXCEPT ![r] = "ended"]
            /\ queue' = [queue EXCEPT ![r] = Tail(@)]
            /\ UNCHANGED <<stale, book, last, boot, at, out, missed, doubt>>

Taken(r) == /\ queue' = [queue EXCEPT ![r] = Tail(@)]
            /\ UNCHANGED <<state, stale>>

\* A frame that fails to parse.
ReadBad(r, f) ==
    /\ f.type = "bad"
    /\ \/ shape.bad = "end" /\ Ends(r)
       \/ /\ shape.bad = "skip"
          /\ Taken(r)
          /\ missed' = missed \cup {r}
          /\ UNCHANGED <<book, last, boot, at, out, doubt>>

\* A frame with a whole value or independent events.
ReadWhole(r, f) ==
    /\ f.type = "whole"
    /\ Taken(r)
    /\ UNCHANGED <<book, last, boot, at, missed, doubt>>
    /\ Yield(r, f.u, f.book)

\* A snapshot replaces the book.
ReadSnapshot(r, f) ==
    /\ f.type = "snapshot"
    /\ Taken(r)
    /\ book' = [book EXCEPT ![r] = f.book]
    /\ last' = [last EXCEPT ![r] = f.num]
    /\ boot' = [boot EXCEPT ![r] = TRUE]
    /\ at'   = [at EXCEPT ![r] = f.u]
    /\ missed' = missed \ {r}
    /\ doubt'  = doubt \ {r}
    /\ Yield(r, f.u, f.book)

\* Slip: the sequence numbers are not compared.
NeverGap(r, f) == FALSE

\* Slip: only frames from the past count as a gap.
GapBehindOnly(r, f) ==
    /\ last[r] # None
    /\ \/ shape.frame = "sequenced" /\ f.num # None /\ f.num <= last[r]
       \/ shape.frame = "chained" /\ f.prev # None /\ f.prev < last[r]

\* The delta and the frame before both have the number it takes to compare
\* them, Bybit u with last_u, OKX prevSeqId with last_seq ...
Compared(r, f) ==
    /\ last[r] # None
    /\ \/ shape.frame = "sequenced" /\ f.num # None
       \/ shape.frame = "chained" /\ f.prev # None

\* ... and the delta does not follow that frame.
Gap(r, f) ==
    /\ Compared(r, f)
    /\ IF shape.frame = "chained" THEN f.prev # last[r] ELSE f.num # last[r] + 1

\* Deltas are ignored until a snapshot has been seen.
Booted(r) == boot[r]

\* Slip: a level whose quantity is 0 stays in the book.
AppliedKeepsZero(b, f) == IF f.qty = 0 THEN b ELSE [b EXCEPT ![f.level] = f.qty]

\* A delta sets one level, a quantity of 0 removes it.
Applied(b, f) == [b EXCEPT ![f.level] = f.qty]

ReadUpdate(r, f) ==
    /\ f.type = "update"
    /\ \/ Gap(r, f) /\ Ends(r)
       \/ /\ ~Gap(r, f)
          /\ Taken(r)
          /\ last' = [last EXCEPT ![r] = f.num]
          /\ UNCHANGED <<boot, missed>>
          /\ IF Booted(r)
             THEN /\ book' = [book EXCEPT ![r] = Applied(@, f)]
                  /\ at' = [at EXCEPT ![r] = f.u]
                  /\ doubt' = IF r \in missed /\ ~Compared(r, f) THEN doubt \cup {r} ELSE doubt
                  /\ Yield(r, f.u, Applied(book[r], f))
             ELSE UNCHANGED <<book, at, doubt, out>>

Read(r) ==
    /\ state[r] = "reading"
    /\ queue[r] # <<>>
    /\ \/ ReadBad(r, Head(queue[r]))
       \/ ReadWhole(r, Head(queue[r]))
       \/ ReadSnapshot(r, Head(queue[r]))
       \/ ReadUpdate(r, Head(queue[r]))
    /\ UNCHANGED <<shape, hist, up, asked, faults>>

-----------------------------------------------------------------------------
Next ==
    \/ Connect
    \/ Disconnect
    \/ \E l \in Levels, q \in Qtys : VenueChanges(l, q) \/ VenueGarbles(l, q)
    \/ \E r \in Readers : Open(r) \/ Leave(r) \/ OldQueueGone(r) \/ Read(r)

\* The reconnect loop of _run always dials again, the event loop runs every
\* coroutine that is ready, and asyncio runs the aclose() it has scheduled.
\* The venue, the network and the users are under no obligation, except that
\* an ended generator is closed.
Fairness ==
    /\ WF_vars(Connect)
    /\ \A r \in Readers : /\ WF_vars(Read(r))
                          /\ WF_vars(OldQueueGone(r))
                          /\ WF_vars(state[r] = "ended" /\ Leave(r))

Spec == Init /\ [][Next]_vars
FairSpec == Spec /\ Fairness

-----------------------------------------------------------------------------
Numbers == Nat \cup {None}

Frames == [type : {"whole"}, u : Nat, book : Books]
          \cup [type : {"snapshot"}, u : Nat, num : Numbers, book : Books]
          \cup [type : {"update"}, u : Nat, level : Levels, qty : Qtys,
                num : Numbers, prev : Numbers]
          \cup [type : {"bad"}]

Yields == [u : Nat, book : Books, sure : BOOLEAN]

\* Every variable keeps its type, and no queue outgrows its maxsize whatever
\* the venue sends to a reader that has stopped reading.
TypeOK ==
    /\ hist \in Seq(Books) /\ Len(hist) >= 1
    /\ up \in BOOLEAN /\ asked \in BOOLEAN
    /\ state \in [Readers -> {"idle", "reading", "ended"}]
    /\ stale \subseteq Readers /\ missed \subseteq Readers /\ doubt \subseteq missed
    /\ queue \in [Readers -> Seq(Frames)]
    /\ \A r \in Readers : Len(queue[r]) <= QueueSize
    /\ book \in [Readers -> Books]
    /\ last \in [Readers -> Numbers]
    /\ boot \in [Readers -> BOOLEAN]
    /\ at \in [Readers -> Nat]
    /\ out \in [Readers -> Yields \cup {None}]
    /\ faults \in Nat

\* Every value a stream yields is one the venue had: the frames a slow
\* reader's queue drops, the updates lost while the connection is down and
\* malformed frames never leave a book that mixes levels of different
\* moments.  There is one exception, a book in doubt: after losing a frame the
\* reader applied a delta it could not compare, because that kind of stream
\* looks at no number or because the delta, or the frame before it, had none.
\* The book stays in doubt until the next snapshot.
YieldedIsReal ==
    \A r \in Readers : out[r] # None /\ out[r].sure =>
        out[r].u \in 1..Len(hist) /\ out[r].book = hist[out[r].u]

\* A stream that applies deltas without looking at sequence numbers (the
\* Kraken books, the Bybit ticker) holds the venue's value as of the last
\* frame it applied, as long as its own queue has dropped nothing and it has
\* skipped nothing since the snapshot it builds on.  Reconnects alone never
\* corrupt it.
PatchedIsReal ==
    shape.frame = "patch" =>
        \A r \in Readers \ missed : boot[r] =>
            at[r] \in 1..Len(hist) /\ book[r] = hist[at[r]]

\* What the readers see, without the values out of a book in doubt and the
\* subscriptions that ask for a replay.
Shown == [r \in Readers |-> IF shape.replay \/ out[r] = None \/ ~out[r].sure THEN None
                            ELSE [u |-> out[r].u, book |-> out[r].book]]

Live == INSTANCE LiveValue WITH out <- Shown

\* Hub queue, reconnects and stream method together implement LiveValue: what
\* a reader is shown is a value the venue had, and until its stream starts
\* over or its book is in doubt never an older one after a newer one,
\* whatever its queue dropped and however often the connection was lost.
ShowsLiveValue == Live!Spec

\* A delta stream that has its snapshot and stays open catches up: when the
\* venue has gone quiet the last frame it yielded from is the latest one,
\* however many frames its queue dropped, unless it skipped a malformed one.
CatchesUp ==
    \A r \in Readers :
        <>[](/\ shape.frame \in Deltas /\ ~shape.both
             /\ state[r] = "reading" /\ boot[r] /\ up
             /\ (shape.bad = "end" \/ r \notin missed)
             => out[r] # None /\ out[r].u = Len(hist))

\* "ending stream so clients resync": a delta stream that ended and was
\* entered again has a book again, unless its user leaves.
Resyncs ==
    \A r \in Readers :
        (r \in stale /\ shape.frame \in Numbered) ~> (boot[r] \/ state[r] # "reading")
=============================================================================
