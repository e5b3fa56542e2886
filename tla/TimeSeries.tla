------------------------------ MODULE TimeSeries ------------------------------
(***************************************************************************)
(* One read of a time series (candles, aggregate trades, funding, open     *)
(* interest, liquidations, long/short ratio) while the venue's newest row  *)
(* is revised and new rows appear: _paginate_backwards of the base class   *)
(* with the page requests of the adapters, the forward walk of Kraken, the *)
(* recent-then-archive read of OKX and the funding windows of Binance.     *)
(* Module Methods says which method reads in which way.                    *)
(*                                                                         *)
(* A row is <<timestamp, k>>; one unit of time is one interval.  k is the  *)
(* revision of the row, or tells apart rows that share a timestamp where   *)
(* the method says there may be `many`.                                    *)
(***************************************************************************)
EXTENDS Channels, Methods, FiniteSets, Integers, FiniteSetsExt

CONSTANTS
    None,         \* no anchor
    Now,          \* the clock
    First,        \* the timestamp of the oldest row there may be
    MaxLimit,     \* bound: rows asked for
    PageSize,     \* rows of a full page
    ArchivePage,  \* rows of a full page of the OKX archive
    VenueKeeps,   \* rows the endpoints without an archive keep
    MaxPages,     \* max_requests, the 20 pages of the walk, safety_pages
    MaxFaults,    \* bound: requests that fail
    MaxChanges    \* bound: revisions and new rows during the read

ASSUME SeriesAssumption ==
    /\ First \in Nat \ {0} /\ Now \in Nat /\ First <= Now
    /\ {MaxLimit, PageSize, ArchivePage, VenueKeeps, MaxPages} \subseteq Nat \ {0}
    /\ {MaxFaults, MaxChanges} \subseteq Nat
    /\ PageSize <= VenueKeeps
    /\ None \notin Int

VARIABLES
    ask,      \* what the caller wants and how the method reads it: never changes
    rows,     \* the venue's rows
    pc,       \* "direct", "page", "bulk", "walk", "recent", "cadence", "older", "done", "failed"
    first,    \* the anchor of the first page of _paginate_backwards
    at,       \* current_end; from_ts of the walk; cadence_ms of the windows
    total,    \* total_limit of _paginate_backwards
    recent,   \* rows of the recent page, to be put in front of the archive's
    acc,      \* the rows collected
    pages,    \* pages read
    result,   \* the rows the caller gets
    short,    \* the read was cut short: a rejected page, the page cap, a full window
    fresh,    \* timestamps of the rows that appeared during the read
    faults, changes

vars == <<ask, rows, pc, first, at, total, recent, acc, pages, result, short, fresh,
          faults, changes>>

venue == <<rows, fresh, changes>>

Times == First..Now

Shapes ==
    {MethodOf(ex, mt, route).pages : ex \in Exchanges, mt \in MarketTypes,
                                     route \in DOMAIN BinanceMethod} \ {NoPages}

-----------------------------------------------------------------------------
(* Sets of rows *)

TimesOf(S) == {r[1] : r \in S}
Oldest(S)  == Min(TimesOf(S))
Latest(S)  == Max(TimesOf(S))

Key(r) == 2 * r[1] + (1 - r[2])

\* The n newest and the n oldest rows of S.
Newest(S, n)  == {r \in S : Cardinality({q \in S : Key(q) > Key(r)}) < n}
Earliest(S, n) == {r \in S : Cardinality({q \in S : Key(q) < Key(r)}) < n}

UpTo(S, anchor) == IF anchor = None THEN S ELSE {r \in S : r[1] <= anchor}

Between(lo, hi) == {r \in rows : r[1] \in lo..hi}

\* Slips: the head of the sorted rows is returned; everything is.
CutHead(S, n)    == Earliest(S, n)
CutNothing(S, n) == S

\* out[-total_limit:], after the sort by timestamp.
Cut(S, n) == Newest(S, n)

-----------------------------------------------------------------------------
(* The call *)

\* start_time as the method sees it: most test it for truth, not for None.
Anchor == IF ask.start = 0 /\ ~ask.shape.zero THEN None ELSE ask.start

IsDirect(a) ==
    /\ a.shape.direct # "never"
    /\ a.limit <= PageSize
    /\ \/ a.start = None
       \/ a.start = 0 /\ a.shape.direct = "falsy"

Begin(a) ==
    IF IsDirect(a) THEN "direct"
    ELSE IF a.shape.fetch \in {"newest", "latest", "window"} THEN "page" ELSE a.shape.fetch

\* Where the walk of Kraken's futures candles ends: the anchor or the clock.
WalkEnd(a) == IF a.start \in {None, 0} THEN Now ELSE a.start

VenueRows(shape) ==
    IF shape.many THEN SUBSET (Times \X {0, 1}) ELSE {S \X {0} : S \in SUBSET Times}

Init ==
    /\ ask \in [shape : Shapes, start : {None, 0} \cup First..(Now + 1), limit : 1..MaxLimit]
    /\ rows \in VenueRows(ask.shape)
    /\ pc = Begin(ask)
    /\ first = Anchor
    /\ at = IF pc = "walk" THEN WalkEnd(ask) - ask.limit ELSE None
    /\ total = ask.limit
    /\ recent = {} /\ acc = {} /\ result = {} /\ fresh = {}
    /\ pages = 0 /\ faults = 0 /\ changes = 0
    /\ short = FALSE

\* The method returns S; `cut` when the read was cut short.
Return(S, cut) ==
    /\ pc' = "done"
    /\ result' = S
    /\ short' = cut

-----------------------------------------------------------------------------
(* What one request returns *)

\* The pages of n rows that end at an anchor.  Whether a window holds n rows
\* or n + 1 and whether its end is held to the clock differs between venues.
\* "if Bybit returns the most recent window regardless of `start`, the rows
\* still parse cleanly" (Exchange_Notes.md:262): nothing filters them.
Page(anchor, n) ==
    IF ask.shape.fetch = "window"
    THEN {Between(e - w, e) :
            w \in {n - 1, n},
            e \in IF anchor = None THEN {Now} ELSE {anchor, Min({anchor, Now})}}
    ELSE {Newest(UpTo(rows, a), n) : a \in IF ask.shape.fetch = "latest" THEN {anchor, None}
                                            ELSE {anchor}}

\* The endpoint for recent candles of OKX.
RecentPage(anchor, n) == Newest(UpTo(Newest(rows, VenueKeeps), anchor), n)

\* A window that holds more than n rows: which of them are sent is up to the venue.
Window(lo, hi, n) == {Newest(Between(lo, hi), n), Earliest(Between(lo, hi), n)}

-----------------------------------------------------------------------------
(* One request *)

Direct ==
    /\ pc = "direct"
    /\ \E p \in IF ask.shape.fetch = "recent" THEN {RecentPage(None, ask.limit)}
                ELSE Page(None, ask.limit) :
          Return(Cut(p, ask.limit), FALSE)
    /\ UNCHANGED <<ask, first, at, total, recent, acc, pages, faults, venue>>

\* Kraken: spot candles, funding, open interest and long/short ratio.  Some
\* requests name a first row, `limit` intervals before the anchor.
Bulk ==
    /\ pc = "bulk"
    /\ \E since \in {0, WalkEnd(ask) - ask.limit} :
          LET kept == {r \in Newest(rows, VenueKeeps) : r[1] >= since}
          IN  Return(Cut(UpTo(kept, Anchor), ask.limit), FALSE)
    /\ UNCHANGED <<ask, first, at, total, recent, acc, pages, faults, venue>>

-----------------------------------------------------------------------------
(* _paginate_backwards *)

\* Slips: the page is anchored at its newest row; an exclusive bound is
\* adjusted twice.
NextEndLatest(p) == Latest(p)
NextEndTwice(p)  == Oldest(p) - 2

\* next_end = batch[0].timestamp.
NextEnd(p) == Oldest(p)

\* The rows of the archive and of the recent page, one per timestamp.
Combined(S) == {r \in S : r[1] \notin TimesOf(recent)} \cup recent

PagedResult(S) ==
    IF recent = {} THEN Cut(S, total) ELSE Cut(Combined(Cut(S, total)), ask.limit)

Goes(p, S) ==
    /\ Cardinality(S) < total
    /\ pages + 1 < MaxPages
    /\ NextEnd(p) > 0
    /\ at = None \/ NextEnd(p) < at

NextPage ==
    /\ pc = "page"
    /\ \E p \in Page(IF at = None THEN first ELSE at,
                     IF ask.shape.fetch = "recent" THEN ArchivePage ELSE PageSize) :
          \/ /\ p \subseteq acc
             /\ Return(PagedResult(acc), FALSE)
             /\ UNCHANGED <<at, acc, pages>>
          \/ /\ ~(p \subseteq acc)
             /\ acc' = acc \cup p
             /\ pages' = pages + 1
             /\ IF Goes(p, acc \cup p)
                THEN at' = NextEnd(p) /\ UNCHANGED <<pc, result, short>>
                ELSE /\ Return(PagedResult(acc \cup p),
                               Cardinality(acc \cup p) < total /\ pages + 1 >= MaxPages)
                     /\ UNCHANGED at
    /\ UNCHANGED <<ask, first, total, recent, faults, venue>>

-----------------------------------------------------------------------------
(* OKX candles: a recent page, then the archive *)

Recent ==
    /\ pc = "recent"
    /\ LET p == RecentPage(Anchor, Min({ask.limit, PageSize}))
       IN  \/ /\ p = {}
              /\ pc' = "page"
              /\ UNCHANGED <<first, total, recent, result, short>>
           \/ /\ p # {} /\ Cardinality(p) >= ask.limit
              /\ Return(Cut(p, ask.limit), FALSE)
              /\ UNCHANGED <<first, total, recent>>
           \/ /\ p # {} /\ Cardinality(p) < ask.limit
              /\ pc' = "page"
              /\ recent' = p
              /\ first' = Oldest(p) - 1
              /\ total' = ask.limit - Cardinality(p)
              /\ UNCHANGED <<result, short>>
    /\ UNCHANGED <<ask, at, acc, pages, faults, venue>>

-----------------------------------------------------------------------------
(* Kraken futures candles: pages forward from `limit` rows before the end *)

WalkResult(S) == Cut(UpTo(S, Anchor), ask.limit)

Walk ==
    /\ pc = "walk"
    /\ LET p   == Earliest({r \in rows : r[1] >= at}, PageSize)
           new == {r \in p : r[1] \notin TimesOf(acc)}
       IN  \/ /\ new = {}
              /\ Return(WalkResult(acc), FALSE)
              /\ UNCHANGED <<at, acc, pages>>
           \/ /\ new # {}
              /\ acc' = acc \cup new
              /\ pages' = pages + 1
              /\ IF Latest(p) >= WalkEnd(ask) - 1 \/ pages + 1 >= MaxPages
                 THEN /\ Return(WalkResult(acc \cup new), Latest(p) < WalkEnd(ask) - 1)
                      /\ UNCHANGED at
                 ELSE at' = Latest(p) + 1 /\ UNCHANGED <<pc, result, short>>
    /\ UNCHANGED <<ask, first, total, recent, faults, venue>>

-----------------------------------------------------------------------------
(* Binance funding: a window that ends at the anchor, or recent rows and then  *)
(* windows before them, sized by the cadence of the recent rows                *)

\* The median of the gaps between rows, or eight hours.
Cadences(S) ==
    IF Cardinality(S) < 2 THEN {2}
    ELSE {d \in 1..Now : \E r \in S : /\ r[1] + d \in TimesOf(S)
                                      /\ \A q \in S : ~(r[1] < q[1] /\ q[1] < r[1] + d)}

AnchoredWindow ==
    /\ pc = "cadence" /\ ask.start # None
    /\ \E cycle \in {1, 2} :
          LET n  == Min({ask.limit, PageSize})
              lo == Max({0, ask.start - n * cycle})
          IN  \E p \in Window(lo, ask.start, n) :
                 Return(Cut(p, ask.limit), Cardinality(Between(lo, ask.start)) > n)
    /\ UNCHANGED <<ask, first, at, total, recent, acc, pages, faults, venue>>

RecentFunding ==
    /\ pc = "cadence" /\ ask.start = None
    /\ LET p == Newest(rows, Min({ask.limit, PageSize}))
       IN  \/ /\ ask.limit <= Cardinality(p)
              /\ Return(Cut(p, ask.limit), FALSE)
              /\ UNCHANGED <<at, acc>>
           \/ /\ p # {} /\ Cardinality(p) < ask.limit
              /\ acc' = p
              /\ at' \in Cadences(p)
              /\ pc' = "older"
              /\ UNCHANGED <<result, short>>
           \/ /\ p = {}              \* min() of no rows raises ValueError
              /\ pc' = "failed"
              /\ UNCHANGED <<at, acc, result, short>>
    /\ UNCHANGED <<ask, first, total, recent, pages, faults, venue>>

OlderFunding ==
    /\ pc = "older"
    /\ LET lo == Max({0, Oldest(acc) - PageSize * at})
           hi == Oldest(acc) - 1
       IN  \E p \in Window(lo, hi, PageSize) :
              /\ acc' = acc \cup p
              /\ pages' = pages + 1
              /\ short' = (short \/ Cardinality(Between(lo, hi)) > PageSize)
              /\ IF p = {} \/ Cardinality(acc \cup p) >= ask.limit \/ pages + 1 >= MaxPages
                 THEN pc' = "done" /\ result' = Cut(acc \cup p, ask.limit)
                 ELSE UNCHANGED <<pc, result>>
    /\ UNCHANGED <<ask, first, at, total, recent, faults, venue>>

-----------------------------------------------------------------------------
(* Requests that fail *)

Fails == pc \notin {"done", "failed"} /\ faults < MaxFaults /\ faults' = faults + 1

\* HTTPStatusError or ValueError: the pagination and the walk return what they
\* have, a quiet direct request returns nothing.
Rejected ==
    /\ Fails
    /\ \/ pc = "page" /\ Return(PagedResult(acc), TRUE)
       \/ pc = "walk" /\ Return(WalkResult(acc), TRUE)
       \/ pc = "direct" /\ ask.shape.quiet /\ Return({}, TRUE)
    /\ UNCHANGED <<ask, first, at, total, recent, acc, pages, venue>>

\* Everything else leaves the method: the venue is unreachable, or rejects a
\* request that is neither paged nor walked.
Raises ==
    /\ Fails
    /\ pc' = "failed"
    /\ UNCHANGED <<ask, first, at, total, recent, acc, pages, result, short, venue>>

-----------------------------------------------------------------------------
(* The venue *)

Changes ==
    /\ pc \notin {"done", "failed"} /\ rows # {}
    /\ changes < MaxChanges /\ changes' = changes + 1
    /\ UNCHANGED <<ask, pc, first, at, total, recent, acc, pages, result, short, faults>>

\* The newest row, whose interval is still open, changes.
Revised ==
    /\ Changes
    /\ ~ask.shape.many
    /\ <<Latest(rows), 0>> \in rows
    /\ rows' = (rows \ {<<Latest(rows), 0>>}) \cup {<<Latest(rows), 1>>}
    /\ UNCHANGED fresh

NewRow ==
    /\ Changes
    /\ Latest(rows) < Now
    /\ rows' = rows \cup {<<Latest(rows) + 1, 0>>}
    /\ fresh' = fresh \cup {Latest(rows) + 1}

-----------------------------------------------------------------------------
Ended == pc \in {"done", "failed"} /\ UNCHANGED vars

Next ==
    \/ Direct \/ Bulk \/ NextPage \/ Recent \/ Walk
    \/ AnchoredWindow \/ RecentFunding \/ OlderFunding
    \/ Rejected \/ Raises
    \/ Revised \/ NewRow
    \/ Ended

Spec == Init /\ [][Next]_vars

-----------------------------------------------------------------------------
\* What the code returns are rows of the venue, and at most `limit` of them.
TypeOK ==
    /\ rows \subseteq Times \X {0, 1}
    /\ pc \in {"direct", "page", "bulk", "walk", "recent", "cadence", "older", "done", "failed"}
    /\ {recent, acc, result} \subseteq SUBSET (Times \X {0, 1})
    /\ Cardinality(result) <= ask.limit
    /\ total \in 1..ask.limit /\ pages \in 0..MaxPages
    /\ pc # "done" => result = {}

\* Rows there were all along, up to the anchor.
Settled == {r \in UpTo(rows, Anchor) : r[1] \notin fresh}

\* A read that returns anything ends with the newest row at or before its
\* anchor, whatever page failed and whatever the venue changed meanwhile.
\* Excepted are rows past an anchor that the venue ignored, a walk or a funding
\* read that was cut short (by a failure, by the cap on pages, by a window that
\* holds more rows than were asked for), and the very row at which a walk ends.
EndsAtAnchor ==
    pc = "done" /\ result # {} =>
        /\ ask.shape.fetch # "latest" => UpTo(result, Anchor) = result
        /\ \A r \in Settled :
              \/ r[1] <= Latest(result)
              \/ ask.shape.fetch \in {"walk", "cadence"} /\ short
              \/ ask.shape.fetch = "walk" /\ r[1] = WalkEnd(ask)

\* A read leaves no hole: pages meet, the archive meets the recent page, a
\* boundary inside a group of rows with one timestamp loses none of them.
\* Excepted are a funding window that holds more rows than a page, and a venue
\* that honours the anchor of one page and not of the next.
Contiguous ==
    /\ pc = "done" /\ result # {}
    /\ ask.shape.fetch # "latest" /\ ~(ask.shape.fetch = "cadence" /\ short)
    => \A r \in rows : r[1] > Oldest(result) /\ r[1] < Latest(result) =>
            IF ask.shape.many THEN r \in result ELSE r[1] \in TimesOf(result)

\* A read that no failure and no cap cut short returns as many rows as were
\* asked for, or all there are, where the venue pages back from an anchor.
Exhaustive ==
    pc = "done" /\ ask.shape.fetch \in {"newest", "recent"} /\ ~short =>
        Cardinality(result) >= Min({ask.limit, Cardinality(Settled)})

\* The open row may be revised between two pages that both carry it.  Two
\* versions of a row are returned only when it is the venue's only one, alone
\* in a window of sparse rows, or sent twice by a venue that ignores anchors.
NoTwoVersions ==
    pc = "done" /\ ~ask.shape.many /\ ask.shape.fetch \notin {"window", "latest"} =>
        \A q, r \in result : q # r /\ q[1] = r[1] => TimesOf(result) = {q[1]}

\* "X is the newest record in the response when present in the dataset"
\* (HTTP_Reference.md:120), of the forward walk where nothing fails.
WalkEndsAtAnchor ==
    /\ pc = "done" /\ ask.shape.fetch = "walk" /\ result # {}
    /\ ask.start \in TimesOf(Settled)
    => ask.start \in TimesOf(result)
=============================================================================
