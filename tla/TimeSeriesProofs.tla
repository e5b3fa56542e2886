--------------------------- MODULE TimeSeriesProofs ---------------------------
(***************************************************************************)
(* Proofs about module TimeSeries, for any venue, limit and page size.     *)
(***************************************************************************)
EXTENDS TimeSeries, FiniteSetTheorems, NaturalsInduction, WellFoundedInduction, TLAPS

Row == Times \X {0, 1}

-----------------------------------------------------------------------------
(* Least and greatest elements *)

\* The well-ordering of the natural numbers.
LEMMA LeastNat ==
    ASSUME NEW S \in SUBSET Nat, S # {}
    PROVE  \E m \in S : \A n \in S : m <= n
  <1> DEFINE R == OpToRel(<, Nat)
  <1>1. IsWellFoundedOn(R, Nat)
    BY NatLessThanWellFounded, Zenon
  <1>2. \A n, m \in Nat : <<n, m>> \in R <=> n < m
    BY DEF OpToRel
  <1> HIDE DEF R
  <1>3. PICK m \in S : \A n \in S : ~ (<<n, m>> \in R)
    BY <1>1, WFMin
  <1>4. ASSUME NEW n \in S PROVE m <= n
    <2>1. n \in Nat /\ m \in Nat /\ ~ (<<n, m>> \in R)
      BY <1>3
    <2>2. ~(n < m)
      BY <1>2, <2>1
    <2> QED BY <2>1, <2>2
  <1> QED BY <1>4

\* A bounded set of natural numbers has a greatest element.
LEMMA GreatestNat ==
    ASSUME NEW S \in SUBSET Nat, S # {}, NEW b \in Nat, \A n \in S : n <= b
    PROVE  \E m \in S : \A n \in S : n <= m
  <1> DEFINE C == {b - n : n \in S}
  <1>1. C \in SUBSET Nat /\ C # {}
    <2>1. PICK n \in S : TRUE
      OBVIOUS
    <2>2. b - n \in C
      OBVIOUS
    <2>3. \A k \in S : b - k \in Nat
      OBVIOUS
    <2> QED BY <2>2, <2>3
  <1>2. PICK c \in C : \A d \in C : c <= d
    BY <1>1, LeastNat
  <1>3. PICK m \in S : c = b - m
    BY <1>2
  <1>4. ASSUME NEW n \in S PROVE n <= m
    <2>1. b - n \in C
      OBVIOUS
    <2>2. b - m <= b - n
      BY <1>2, <1>3, <2>1
    <2> QED BY <2>2
  <1> QED BY <1>4

\* What a row is, and how rows are ordered.
LEMMA RowFacts ==
    /\ \A r \in Row : r[1] \in Nat /\ r[1] >= First /\ r[1] <= Now /\ r[2] \in {0, 1}
    /\ \A r \in Row : Key(r) \in Nat /\ Key(r) <= 2 * Now + 1
    /\ \A q, r \in Row : q[1] < r[1] => Key(q) < Key(r)
    /\ \A q, r \in Row : Key(q) <= Key(r) => q[1] <= r[1]
    /\ \A q, r \in Row : Key(q) = Key(r) => q = r
    /\ \A q, r \in Row : q[1] = r[1] /\ q[2] = r[2] => q = r
    /\ First \in Nat \ {0} /\ Now \in Nat
  <1>1. First \in Nat \ {0} /\ Now \in Nat
    BY SeriesAssumption
  <1>2. \A r \in Row : /\ r[1] \in Nat /\ r[1] >= First /\ r[1] <= Now /\ r[2] \in {0, 1}
                       /\ r = <<r[1], r[2]>>
    BY <1>1 DEF Row, Times
  <1> QED BY <1>1, <1>2 DEF Key

\* Sets of rows are finite.
LEMMA RowsFinite ==
    ASSUME NEW S \in SUBSET Row
    PROVE  IsFiniteSet(S) /\ Cardinality(S) \in Nat
  <1>0. First \in Int /\ Now \in Int /\ 0 \in Int /\ 1 \in Int
    BY SeriesAssumption
  <1>1. IsFiniteSet(Times) /\ IsFiniteSet(0..1)
    BY <1>0, FS_Interval, Zenon DEF Times
  <1>2. IsFiniteSet(Row)
    BY <1>1, FS_Product, 0..1 = {0, 1} DEF Row
  <1>3. IsFiniteSet(S)
    BY <1>2, FS_Subset
  <1> QED BY <1>3, FS_CardinalityType

\* Cardinalities of sets of rows.
LEMMA Cards ==
    ASSUME NEW S \in SUBSET Row, NEW T \in SUBSET S
    PROVE  /\ Cardinality(S) \in Nat /\ Cardinality(T) \in Nat
           /\ Cardinality(T) <= Cardinality(S)
           /\ Cardinality(S) = Cardinality(T) => S = T
           /\ Cardinality(S) = 0 <=> S = {}
  <1>1. T \in SUBSET Row
    OBVIOUS
  <1> QED BY <1>1, RowsFinite, FS_Subset, FS_EmptySet

\* A set of rows has a first and a last one.
LEMMA FirstAndLast ==
    ASSUME NEW S \in SUBSET Row, S # {}
    PROVE  /\ \E m \in S : \A r \in S : Key(m) <= Key(r)
           /\ \E m \in S : \A r \in S : Key(r) <= Key(m)
  <1> DEFINE K == {Key(r) : r \in S}
  <1>1. K \in SUBSET Nat /\ K # {} /\ 2 * Now + 1 \in Nat /\ \A k \in K : k <= 2 * Now + 1
    BY RowFacts
  <1>2. PICK k \in K : \A l \in K : k <= l
    BY <1>1, LeastNat
  <1>3. PICK k2 \in K : \A l \in K : l <= k2
    BY <1>1, GreatestNat
  <1> QED BY <1>2, <1>3

\* Oldest and Latest are what they say.
LEMMA Ends ==
    ASSUME NEW S \in SUBSET Row, S # {}
    PROVE  /\ Oldest(S) \in Nat /\ Latest(S) \in Nat
           /\ \E m \in S : m[1] = Oldest(S)
           /\ \E m \in S : m[1] = Latest(S)
           /\ \A r \in S : Oldest(S) <= r[1] /\ r[1] <= Latest(S)
  <1>1. PICK m \in S : \A r \in S : Key(m) <= Key(r)
    BY FirstAndLast
  <1>2. PICK l \in S : \A r \in S : Key(r) <= Key(l)
    BY FirstAndLast
  <1>3. m[1] \in TimesOf(S) /\ \A t \in TimesOf(S) : m[1] <= t
    BY <1>1, RowFacts DEF TimesOf
  <1>4. l[1] \in TimesOf(S) /\ \A t \in TimesOf(S) : l[1] >= t
    BY <1>2, RowFacts DEF TimesOf
  <1>5. Oldest(S) \in TimesOf(S) /\ \A t \in TimesOf(S) : Oldest(S) <= t
    BY <1>3 DEF Oldest, Min
  <1>6. Latest(S) \in TimesOf(S) /\ \A t \in TimesOf(S) : Latest(S) >= t
    BY <1>4 DEF Latest, Max
  <1>7. TimesOf(S) \subseteq Nat
    BY RowFacts DEF TimesOf
  <1> QED BY <1>5, <1>6, <1>7 DEF TimesOf

-----------------------------------------------------------------------------
(* The newest and the oldest rows of a set *)

\* The n newest rows are at most n, they are closed under newer rows, and they
\* are n unless they are all.
LEMMA NewestFacts ==
    ASSUME NEW S \in SUBSET Row, NEW n \in Nat
    PROVE  /\ Newest(S, n) \in SUBSET S
           /\ \A r \in Newest(S, n) : \A q \in S : Key(r) <= Key(q) => q \in Newest(S, n)
           /\ Cardinality(Newest(S, n)) <= n
           /\ Newest(S, n) = S \/ Cardinality(Newest(S, n)) = n
           /\ Cardinality(S) <= n => Newest(S, n) = S
  <1> DEFINE Above(r) == {q \in S : Key(q) > Key(r)}
  <1>1. Newest(S, n) = {r \in S : Cardinality(Above(r)) < n}
    BY DEF Newest
  <1>2. \A r \in S : Above(r) \in SUBSET S /\ r \notin Above(r)
    BY RowFacts
  <1>3. Newest(S, n) \in SUBSET S
    BY <1>1
  <1>4. ASSUME NEW r \in Newest(S, n), NEW q \in S, Key(r) <= Key(q)
        PROVE  q \in Newest(S, n)
    <2>1. Above(q) \in SUBSET Above(r) /\ Above(r) \in SUBSET Row
      BY <1>3, <1>4, RowFacts
    <2>2. Cardinality(Above(q)) <= Cardinality(Above(r))
          /\ Cardinality(Above(q)) \in Nat /\ Cardinality(Above(r)) \in Nat
      BY <2>1, Cards
    <2>3. Cardinality(Above(r)) < n
      BY <1>1
    <2> HIDE DEF Above
    <2> QED BY <1>1, <2>2, <2>3
  <1>5. Cardinality(Newest(S, n)) <= n
    <2>1. CASE Newest(S, n) = {}
      BY <2>1, FS_EmptySet
    <2>2. CASE Newest(S, n) # {}
      <3>1. PICK m \in Newest(S, n) : \A r \in Newest(S, n) : Key(m) <= Key(r)
        BY <1>3, <2>2, FirstAndLast
      <3>2. Newest(S, n) \in SUBSET (Above(m) \cup {m})
        BY <1>3, <3>1, RowFacts
      <3>3. Above(m) \in SUBSET Row /\ m \notin Above(m) /\ Above(m) \cup {m} \in SUBSET Row
        BY <1>2, <1>3
      <3>4. Cardinality(Above(m)) < n
        BY <1>1
      <3> HIDE DEF Above
      <3>5. Cardinality(Above(m) \cup {m}) = Cardinality(Above(m)) + 1
        BY <3>3, RowsFinite, FS_AddElement
      <3>6. Cardinality(Newest(S, n)) <= Cardinality(Above(m) \cup {m})
        BY <3>2, <3>3, Cards
      <3>7. Cardinality(Above(m)) \in Nat /\ Cardinality(Newest(S, n)) \in Nat
        BY <1>3, <3>3, RowsFinite
      <3> QED BY <3>4, <3>5, <3>6, <3>7
    <2> QED BY <2>1, <2>2
  <1>6. ASSUME Newest(S, n) # S PROVE Cardinality(Newest(S, n)) >= n
    <2>1. S \ Newest(S, n) # {} /\ S \ Newest(S, n) \in SUBSET Row
      BY <1>3, <1>6
    <2>2. PICK m \in S \ Newest(S, n) : \A r \in S \ Newest(S, n) : Key(r) <= Key(m)
      BY <2>1, FirstAndLast
    <2>3. Above(m) \in SUBSET Newest(S, n) /\ Newest(S, n) \in SUBSET Row
      BY <1>3, <2>2, RowFacts
    <2>4. ~(Cardinality(Above(m)) < n)
      BY <1>1, <2>2
    <2> HIDE DEF Above
    <2>5. Cardinality(Above(m)) <= Cardinality(Newest(S, n))
          /\ Cardinality(Above(m)) \in Nat /\ Cardinality(Newest(S, n)) \in Nat
      BY <2>3, Cards
    <2> QED BY <2>4, <2>5
  <1>7. ASSUME Cardinality(S) <= n PROVE Newest(S, n) = S
    <2>1. /\ Cardinality(Newest(S, n)) <= Cardinality(S)
          /\ Cardinality(S) \in Nat /\ Cardinality(Newest(S, n)) \in Nat
          /\ Cardinality(S) = Cardinality(Newest(S, n)) => S = Newest(S, n)
      BY <1>3, Cards
    <2> QED BY <1>6, <1>7, <2>1
  <1>8. Cardinality(Newest(S, n)) \in Nat
    BY <1>3, RowsFinite
  <1> QED BY <1>3, <1>4, <1>5, <1>6, <1>7, <1>8

\* The n oldest rows are closed under older rows, and all of a small set.
LEMMA EarliestFacts ==
    ASSUME NEW S \in SUBSET Row, NEW n \in Nat
    PROVE  /\ Earliest(S, n) \in SUBSET S
           /\ \A r \in Earliest(S, n) : \A q \in S : Key(q) <= Key(r) => q \in Earliest(S, n)
           /\ Cardinality(S) <= n => Earliest(S, n) = S
           /\ S # {} /\ n > 0 => Earliest(S, n) # {}
  <1> DEFINE Below(r) == {q \in S : Key(q) < Key(r)}
  <1>1. Earliest(S, n) = {r \in S : Cardinality(Below(r)) < n}
    BY DEF Earliest
  <1>2. \A r \in S : Below(r) \in SUBSET S /\ r \notin Below(r)
    BY RowFacts
  <1>3. Earliest(S, n) \in SUBSET S
    BY <1>1
  <1>4. ASSUME NEW r \in Earliest(S, n), NEW q \in S, Key(q) <= Key(r)
        PROVE  q \in Earliest(S, n)
    <2>1. Below(q) \in SUBSET Below(r) /\ Below(r) \in SUBSET Row
      BY <1>3, <1>4, RowFacts
    <2>2. Cardinality(Below(q)) <= Cardinality(Below(r))
          /\ Cardinality(Below(q)) \in Nat /\ Cardinality(Below(r)) \in Nat
      BY <2>1, Cards
    <2>3. Cardinality(Below(r)) < n
      BY <1>1
    <2> HIDE DEF Below
    <2> QED BY <1>1, <2>2, <2>3
  <1>5. ASSUME Cardinality(S) <= n, NEW r \in S PROVE r \in Earliest(S, n)
    <2>1. /\ Cardinality(Below(r)) <= Cardinality(S)
          /\ Cardinality(S) \in Nat /\ Cardinality(Below(r)) \in Nat
          /\ Cardinality(S) = Cardinality(Below(r)) => S = Below(r)
      BY <1>2, Cards
    <2>2. S # Below(r)
      BY <1>2
    <2> HIDE DEF Below
    <2> QED BY <1>1, <1>5, <2>1, <2>2
  <1>6. ASSUME S # {}, n > 0 PROVE Earliest(S, n) # {}
    <2>1. PICK m \in S : \A r \in S : Key(m) <= Key(r)
      BY <1>6, FirstAndLast
    <2>2. Below(m) = {}
      BY <2>1, RowFacts
    <2>3. Cardinality(Below(m)) < n
      BY <1>6, <2>2, FS_EmptySet
    <2> QED BY <1>1, <2>3
  <1> QED BY <1>3, <1>4, <1>5, <1>6
-----------------------------------------------------------------------------
(* How the methods read *)

\* What the argument needs to know of the ways the methods of the adapters read
\* a series: rows that share a timestamp come in plain pages or windows only, and
\* a method that takes 0 for no anchor in one test takes it so in the others.
Fits(s) ==
    /\ s.fetch \in {"newest", "latest", "window", "bulk", "walk", "recent", "cadence"}
    /\ s.many \in BOOLEAN /\ s.zero \in BOOLEAN
    /\ s.direct = "falsy" => s.zero = FALSE
    /\ s.fetch \in {"walk", "recent", "cadence"} => s.many = FALSE

RouteSet == {"ticker", "book_ticker", "orderbook", "trades", "agg_trades", "candles",
             "mark_price", "funding_rate", "open_interest", "liquidations",
             "long_short_ratio", "margin_tiers", "symbol_info"}

\* How the Binance adapter reads.
LEMMA BinanceReads ==
    \A mt, route : route \in RouteSet =>
        \/ MethodOf("binance", mt, route).pages = NoPages
        \/ Fits(MethodOf("binance", mt, route).pages)
  <1> SUFFICES ASSUME NEW mt, NEW route \in RouteSet
               PROVE  \/ BinanceMethod[route].pages = NoPages
                      \/ Fits(BinanceMethod[route].pages)
    BY DEF MethodOf
  <1>1. /\ BinanceTicker.pages = NoPages
        /\ BinanceBookTicker.pages = NoPages
        /\ BinanceOrderbook.pages = NoPages
        /\ BinanceTrades.pages = NoPages
        /\ Fits(BinanceAggTrades.pages)
        /\ Fits(BinanceCandles.pages)
        /\ BinanceMarkPrice.pages = NoPages
        /\ Fits(BinanceFundingRate.pages)
        /\ Fits(BinanceOpenInterest.pages)
        /\ BinanceLiquidations.pages = NoPages
        /\ Fits(BinanceLongShort.pages)
        /\ BinanceSymbolInfo.pages = NoPages
        /\ Unserved.pages = NoPages
    BY DEF Fits, Reads, Series, Pages, NoPages, Unserved, BinanceTicker, BinanceBookTicker,
       BinanceOrderbook, BinanceTrades, BinanceAggTrades, BinanceCandles, BinanceMarkPrice,
       BinanceFundingRate, BinanceOpenInterest, BinanceLiquidations, BinanceLongShort,
       BinanceSymbolInfo
  <1> QED BY <1>1 DEF RouteSet, BinanceMethod

\* How the Bybit adapter reads.
LEMMA BybitReads ==
    \A mt, route : route \in RouteSet =>
        \/ MethodOf("bybit", mt, route).pages = NoPages
        \/ Fits(MethodOf("bybit", mt, route).pages)
  <1> SUFFICES ASSUME NEW mt, NEW route \in RouteSet
               PROVE  \/ BybitMethod[route].pages = NoPages
                      \/ Fits(BybitMethod[route].pages)
    BY DEF MethodOf
  <1>1. /\ BybitTicker.pages = NoPages
        /\ BybitBookTicker.pages = NoPages
        /\ BybitOrderbook.pages = NoPages
        /\ BybitTrades.pages = NoPages
        /\ BybitAggTrades.pages = NoPages
        /\ Fits(BybitCandles.pages)
        /\ BybitMarkPrice.pages = NoPages
        /\ Fits(BybitFundingRate.pages)
        /\ Fits(BybitOpenInterest.pages)
        /\ Fits(BybitLongShort.pages)
        /\ BybitMarginTiers.pages = NoPages
        /\ BybitSymbolInfo.pages = NoPages
        /\ Unserved.pages = NoPages
    BY DEF Fits, Reads, Series, Pages, NoPages, Unserved, BybitTicker, BybitBookTicker,
       BybitOrderbook, BybitTrades, BybitAggTrades, BybitCandles, BybitMarkPrice,
       BybitFundingRate, BybitOpenInterest, BybitLongShort, BybitMarginTiers,
       BybitSymbolInfo
  <1> QED BY <1>1 DEF RouteSet, BybitMethod

\* How the Hyperliquid adapter reads.
LEMMA HyperliquidReads ==
    \A mt, route : route \in RouteSet =>
        \/ MethodOf("hyperliquid", mt, route).pages = NoPages
        \/ Fits(MethodOf("hyperliquid", mt, route).pages)
  <1> SUFFICES ASSUME NEW mt, NEW route \in RouteSet
               PROVE  \/ HyperliquidMethod[route].pages = NoPages
                      \/ Fits(HyperliquidMethod[route].pages)
    BY DEF MethodOf
  <1>1. /\ HyperliquidTicker.pages = NoPages
        /\ HyperliquidBookTicker.pages = NoPages
        /\ HyperliquidOrderbook.pages = NoPages
        /\ HyperliquidTrades.pages = NoPages
        /\ HyperliquidAggTrades.pages = NoPages
        /\ Fits(HyperliquidCandles.pages)
        /\ HyperliquidMarkPrice.pages = NoPages
        /\ Fits(HyperliquidFundingRate.pages)
        /\ HyperliquidOpenInterest.pages = NoPages
        /\ HyperliquidMarginTiers.pages = NoPages
        /\ HyperliquidSymbolInfo.pages = NoPages
        /\ Unserved.pages = NoPages
    BY DEF Fits, Reads, Series, Pages, NoPages, Unserved, HyperliquidTicker,
       HyperliquidBookTicker, HyperliquidOrderbook, HyperliquidTrades, HyperliquidAggTrades,
       HyperliquidCandles, HyperliquidMarkPrice, HyperliquidFundingRate,
       HyperliquidOpenInterest, HyperliquidMarginTiers, HyperliquidSymbolInfo
  <1> QED BY <1>1 DEF RouteSet, HyperliquidMethod

\* How the Kraken adapter reads.
LEMMA KrakenReads ==
    \A mt, route : route \in RouteSet =>
        \/ MethodOf("kraken", mt, route).pages = NoPages
        \/ Fits(MethodOf("kraken", mt, route).pages)
  <1> SUFFICES ASSUME NEW mt, NEW route \in RouteSet
               PROVE  \/ KrakenMethod(mt)[route].pages = NoPages
                      \/ Fits(KrakenMethod(mt)[route].pages)
    BY DEF MethodOf
  <1>1. /\ KrakenSpotTicker.pages = NoPages
        /\ KrakenFuturesTicker.pages = NoPages
        /\ KrakenBookTicker.pages = NoPages
        /\ KrakenOrderbook.pages = NoPages
        /\ KrakenTrades.pages = NoPages
        /\ KrakenAggTrades.pages = NoPages
        /\ Fits(KrakenSpotCandles.pages)
        /\ Fits(KrakenFuturesCandles.pages)
        /\ KrakenMarkPrice.pages = NoPages
        /\ Fits(KrakenFundingRate.pages)
        /\ Fits(KrakenOpenInterest.pages)
        /\ KrakenLiquidations.pages = NoPages
        /\ Fits(KrakenLongShort.pages)
        /\ KrakenSymbolInfo.pages = NoPages
        /\ Unserved.pages = NoPages
    BY DEF Fits, Reads, Series, Pages, NoPages, Unserved, KrakenSpotTicker,
       KrakenFuturesTicker, KrakenBookTicker, KrakenOrderbook, KrakenTrades,
       KrakenAggTrades, KrakenSpotCandles, KrakenFuturesCandles, KrakenMarkPrice,
       KrakenFundingRate, KrakenOpenInterest, KrakenLiquidations, KrakenLongShort,
       KrakenSymbolInfo
  <1> QED BY <1>1 DEF RouteSet, KrakenMethod

\* How the Kucoin adapter reads.
LEMMA KucoinReads ==
    \A mt, route : route \in RouteSet =>
        \/ MethodOf("kucoin", mt, route).pages = NoPages
        \/ Fits(MethodOf("kucoin", mt, route).pages)
  <1> SUFFICES ASSUME NEW mt, NEW route \in RouteSet
               PROVE  \/ KucoinMethod(mt)[route].pages = NoPages
                      \/ Fits(KucoinMethod(mt)[route].pages)
    BY DEF MethodOf
  <1>1. /\ KucoinTicker.pages = NoPages
        /\ KucoinBookTicker.pages = NoPages
        /\ KucoinOrderbook.pages = NoPages
        /\ KucoinTrades.pages = NoPages
        /\ KucoinAggTrades.pages = NoPages
        /\ Fits(KucoinSpotCandles.pages)
        /\ Fits(KucoinFutCandles.pages)
        /\ KucoinMarkPrice.pages = NoPages
        /\ Fits(KucoinFundingRate.pages)
        /\ Fits(KucoinOpenInterest.pages)
        /\ KucoinSymbolInfo.pages = NoPages
        /\ Unserved.pages = NoPages
    BY DEF Fits, Reads, Series, Pages, NoPages, Unserved, KucoinTicker, KucoinBookTicker,
       KucoinOrderbook, KucoinTrades, KucoinAggTrades, KucoinSpotCandles, KucoinFutCandles,
       KucoinMarkPrice, KucoinFundingRate, KucoinOpenInterest, KucoinSymbolInfo
  <1> QED BY <1>1 DEF RouteSet, KucoinMethod

\* How the Okx adapter reads.
LEMMA OkxReads ==
    \A mt, route : route \in RouteSet =>
        \/ MethodOf("okx", mt, route).pages = NoPages
        \/ Fits(MethodOf("okx", mt, route).pages)
  <1> SUFFICES ASSUME NEW mt, NEW route \in RouteSet
               PROVE  \/ OkxMethod(mt)[route].pages = NoPages
                      \/ Fits(OkxMethod(mt)[route].pages)
    BY DEF MethodOf
  <1>1. /\ OkxTicker.pages = NoPages
        /\ OkxBookTicker.pages = NoPages
        /\ OkxOrderbook.pages = NoPages
        /\ OkxTrades.pages = NoPages
        /\ OkxAggTrades.pages = NoPages
        /\ Fits(OkxCandles.pages)
        /\ OkxMarkPrice.pages = NoPages
        /\ Fits(OkxFundingRate.pages)
        /\ Fits(OkxOpenInterest.pages)
        /\ Fits(OkxLiquidations.pages)
        /\ Fits(OkxLongShort.pages)
        /\ OkxMarginTiers.pages = NoPages
        /\ OkxSymbolInfo(mt).pages = NoPages
        /\ Unserved.pages = NoPages
    BY DEF Fits, Reads, Series, Pages, NoPages, Unserved, OkxTicker, OkxBookTicker,
       OkxOrderbook, OkxTrades, OkxAggTrades, OkxCandles, OkxMarkPrice, OkxFundingRate,
       OkxOpenInterest, OkxLiquidations, OkxLongShort, OkxMarginTiers, OkxSymbolInfo
  <1> QED BY <1>1 DEF RouteSet, OkxMethod

\* Every way in which a method reads.
LEMMA ShapesFit == \A s \in Shapes : Fits(s)
  <1>1. DOMAIN BinanceMethod = RouteSet
    BY DEF BinanceMethod, RouteSet
  <1> QED BY <1>1, BinanceReads, BybitReads, HyperliquidReads, KrakenReads, KucoinReads, OkxReads
          DEF Shapes, Exchanges
-----------------------------------------------------------------------------
(* The state of a read *)

AskOK == ask \in [shape : Shapes, start : {None, 0} \cup First..(Now + 1), limit : 1..MaxLimit]

\* Rows with one timestamp each, unless the method says there may be many.
OnePerTime(S) == ask.shape.many \/ \A q, r \in S : q[1] = r[1] => q = r

\* S holds the row r, or another version of it.
Has(S, r) == IF ask.shape.many THEN r \in S ELSE \E q \in S : q[1] = r[1]

Before(r, anchor) == anchor = None \/ r[1] <= anchor

\* The venue keeps to the anchor of a page.
Heeds == ask.shape.fetch # "latest"

\* What was read is, or once was, at the venue.
Known(S) == \A q \in S : Has(rows, q)

Types ==
    /\ AskOK
    /\ {rows, recent, acc, result} \subseteq SUBSET Row
    /\ OnePerTime(rows)
    /\ Known(acc \cup recent)
    /\ pc \in {"direct", "page", "bulk", "walk", "recent", "cadence", "older", "done", "failed"}
    /\ total \in 1..ask.limit
    /\ pages \in 0..MaxPages /\ (pc \notin {"done", "failed"} => pages < MaxPages)
    /\ Cardinality(result) <= ask.limit /\ (pc # "done" => result = {})

\* Nothing is read before the first request.
Starts ==
    pc \in {"direct", "bulk", "recent", "cadence"} =>
        /\ acc = {} /\ recent = {} /\ at = None /\ first = Anchor /\ total = ask.limit
        /\ pc = "direct" => Anchor = None
        /\ pc # "direct" => ask.shape.fetch = pc

\* current_end is the oldest timestamp that was read; a recent page is put in
\* front of the archive, which is read up to the row before it.
Paging ==
    pc = "page" =>
        /\ ask.shape.fetch \in {"newest", "latest", "window", "recent"}
        /\ at = None => acc = {}
        /\ at # None => /\ \E a \in acc : a[1] = at
                        /\ \A a \in acc : at <= a[1]
        /\ recent = {} => first = Anchor /\ total = ask.limit
        /\ recent # {} => /\ ask.shape.fetch = "recent"
                          /\ first = Oldest(recent) - 1
                          /\ total = ask.limit - Cardinality(recent)
        /\ Heeds => \A a \in acc : Before(a, first)

\* from_ts is past every candle that was read.
Walks ==
    pc = "walk" =>
        /\ ask.shape.fetch = "walk" /\ recent = {} /\ at \in Int
        /\ \A a \in acc : a[1] < at
        /\ acc # {} => \E a \in acc : a[1] = at - 1

Olders ==
    pc = "older" => ask.shape.fetch = "cadence" /\ ask.start = None /\ acc # {} /\ at \in Nat

\* No page is read past the anchor that the venue keeps to.
Anchored == pc = "page" /\ Heeds => \A q \in acc \cup recent : Before(q, Anchor)

ReadInv == Types /\ Starts /\ Paging /\ Walks /\ Olders /\ Anchored

PageRows == IF ask.shape.fetch = "recent" THEN ArchivePage ELSE PageSize

\* The constants.
LEMMA SeriesConstants ==
    /\ None \notin Int
    /\ PageSize \in Nat \ {0} /\ ArchivePage \in Nat \ {0} /\ VenueKeeps \in Nat \ {0}
    /\ MaxPages \in Nat \ {0} /\ MaxLimit \in Nat \ {0}
    /\ PageSize <= VenueKeeps
  BY SeriesAssumption

\* The call, its limit and its anchor.
LEMMA AskFacts ==
    ASSUME AskOK
    PROVE  /\ ask.limit \in Nat \ {0} /\ Fits(ask.shape)
           /\ ask.start = None \/ ask.start \in Nat
           /\ Anchor = None \/ Anchor \in Nat
           /\ WalkEnd(ask) \in Nat
           /\ PageRows \in Nat \ {0}
           /\ IsDirect(ask) => Anchor = None
           /\ ask.start = None => Anchor = None
           /\ Anchor = None \/ Anchor = ask.start
  <1>1. ask.limit \in Nat \ {0} /\ ask.shape \in Shapes
        /\ ask.start \in {None, 0} \cup First..(Now + 1)
    BY SeriesConstants DEF AskOK
  <1>2. Fits(ask.shape)
    BY <1>1, ShapesFit
  <1>3. ask.start = None \/ ask.start \in Nat
    BY <1>1, SeriesAssumption
  <1>4. IsDirect(ask) => Anchor = None
    BY <1>2 DEF IsDirect, Anchor, Fits
  <1>5. WalkEnd(ask) \in Nat
    BY <1>3, SeriesAssumption DEF WalkEnd
  <1>6. PageRows \in Nat \ {0}
    BY SeriesConstants DEF PageRows
  <1>7. /\ Anchor = None \/ Anchor \in Nat
        /\ ask.start = None => Anchor = None
        /\ Anchor = None \/ Anchor = ask.start
    BY <1>3 DEF Anchor
  <1> QED BY <1>1, <1>2, <1>3, <1>4, <1>5, <1>6, <1>7

\* out[-n:] of rows in order.
LEMMA CutFacts ==
    ASSUME NEW S \in SUBSET Row, NEW n \in Nat \ {0}
    PROVE  /\ Cut(S, n) \in SUBSET S /\ Cut(S, n) \in SUBSET Row
           /\ Cardinality(Cut(S, n)) <= n
           /\ \A a \in Cut(S, n) : \A q \in S : a[1] < q[1] => q \in Cut(S, n)
           /\ \A q \in S : \E m \in Cut(S, n) : q[1] <= m[1]
           /\ Cut(S, n) = S \/ Cardinality(Cut(S, n)) = n
  <1>1. /\ Cut(S, n) \in SUBSET S
        /\ Cardinality(Cut(S, n)) <= n
        /\ Cut(S, n) = S \/ Cardinality(Cut(S, n)) = n
        /\ \A r \in Cut(S, n) : \A q \in S : Key(r) <= Key(q) => q \in Cut(S, n)
    BY NewestFacts DEF Cut
  <1>2. \A a \in Cut(S, n) : \A q \in S : a[1] < q[1] => q \in Cut(S, n)
    BY <1>1, RowFacts
  <1>3. ASSUME NEW q \in S PROVE \E m \in Cut(S, n) : q[1] <= m[1]
    <2>1. Cut(S, n) # {}
      BY <1>1, <1>3, FS_EmptySet
    <2>2. PICK m \in Cut(S, n) : TRUE
      BY <2>1
    <2>3. CASE Key(m) <= Key(q)
      <3>1. q \in Cut(S, n)
        BY <1>1, <2>3
      <3> QED BY <3>1, RowFacts
    <2>4. CASE ~(Key(m) <= Key(q))
      <3>1. m \in Row /\ q \in Row /\ Key(q) <= Key(m)
        BY <1>1, <2>4, RowFacts
      <3> QED BY <3>1, RowFacts
    <2> QED BY <2>3, <2>4
  <1> QED BY <1>1, <1>2, <1>3

-----------------------------------------------------------------------------
(* What a request returns *)

\* p is rows of the venue up to an anchor, and has every row up to the anchor
\* that is newer than one of its own.
TopPart(p, anchor) ==
    /\ p \in SUBSET rows
    /\ \A q \in p : Before(q, anchor)
    /\ \A q \in p : \A r \in rows : q[1] < r[1] /\ Before(r, anchor) => r \in p

\* The newest of such rows, and those up to an earlier anchor, are such rows.
LEMMA TopPartOf ==
    ASSUME rows \in SUBSET Row, NEW p, NEW a, TopPart(p, a)
    PROVE  /\ \A n \in Nat : TopPart(Newest(p, n), a)
           /\ a = None => \A b : b = None \/ b \in Nat => TopPart(UpTo(p, b), b)
           /\ \A lo \in Int : TopPart({r \in p : r[1] >= lo}, a)
  <1>1. p \in SUBSET Row
    BY DEF TopPart
  <1>2. ASSUME NEW n \in Nat PROVE TopPart(Newest(p, n), a)
    <2>1. /\ Newest(p, n) \in SUBSET p
          /\ \A r \in Newest(p, n) : \A q \in p : Key(r) <= Key(q) => q \in Newest(p, n)
      BY <1>1, NewestFacts
    <2>2. ASSUME NEW q \in Newest(p, n), NEW r \in rows, q[1] < r[1], Before(r, a)
          PROVE  r \in Newest(p, n)
      <3>1. r \in p
        BY <2>1, <2>2 DEF TopPart
      <3>2. Key(q) <= Key(r)
        BY <1>1, <2>1, <2>2, <3>1, RowFacts
      <3> QED BY <2>1, <3>1, <3>2
    <2> QED BY <2>1, <2>2 DEF TopPart
  <1>3. ASSUME a = None, NEW b, b = None \/ b \in Nat PROVE TopPart(UpTo(p, b), b)
    BY <1>1, <1>3 DEF TopPart, UpTo, Before
  <1>4. ASSUME NEW lo \in Int PROVE TopPart({r \in p : r[1] >= lo}, a)
    BY <1>1, <1>4, RowFacts DEF TopPart
  <1> QED BY <1>2, <1>3, <1>4

\* The venue's rows up to an anchor, and the newest of them.
LEMMA TopOfVenue ==
    ASSUME rows \in SUBSET Row, NEW a, a = None \/ a \in Nat
    PROVE  /\ TopPart(rows, None)
           /\ TopPart(UpTo(rows, a), a)
           /\ \A n \in Nat : TopPart(Newest(rows, n), None) /\ TopPart(Newest(UpTo(rows, a), n), a)
           /\ \A n \in Nat : TopPart(RecentPage(a, n), a)
  <1>1. TopPart(rows, None)
    BY DEF TopPart, Before
  <1>2. TopPart(UpTo(rows, a), a)
    BY <1>1, TopPartOf
  <1>3. \A n \in Nat : TopPart(Newest(rows, n), None)
    BY <1>1, TopPartOf
  <1>4. \A n \in Nat : TopPart(Newest(UpTo(rows, a), n), a)
    BY <1>2, TopPartOf
  <1>5. ASSUME NEW n \in Nat PROVE TopPart(RecentPage(a, n), a)
    <2>1. TopPart(Newest(rows, VenueKeeps), None)
      BY <1>3, SeriesConstants
    <2>2. TopPart(UpTo(Newest(rows, VenueKeeps), a), a)
      BY <2>1, TopPartOf
    <2> QED BY <2>2, TopPartOf DEF RecentPage
  <1> QED BY <1>1, <1>2, <1>3, <1>4, <1>5

\* A page of _paginate_backwards, plain or a window.
LEMMA TopOfPage ==
    ASSUME rows \in SUBSET Row, NEW a, a = None \/ a \in Nat, NEW n \in Nat,
           NEW p \in Page(a, n)
    PROVE  /\ p \in SUBSET rows
           /\ TopPart(p, a) \/ TopPart(p, None)
           /\ Heeds => TopPart(p, a)
  <1>1. CASE ask.shape.fetch # "window"
    <2>1. CASE Heeds
      <3>1. p = Newest(UpTo(rows, a), n)
        BY <1>1, <2>1 DEF Page, Heeds
      <3> QED BY <3>1, TopOfVenue DEF TopPart
    <2>2. CASE ~Heeds
      <3>1. p \in {Newest(UpTo(rows, b), n) : b \in {a, None}}
        BY <1>1, <2>2 DEF Page, Heeds
      <3>2. PICK b \in {a, None} : p = Newest(UpTo(rows, b), n)
        BY <3>1
      <3>3. TopPart(p, b)
        BY <3>2, TopOfVenue
      <3> QED BY <2>2, <3>3 DEF TopPart
    <2> QED BY <2>1, <2>2
  <1>2. CASE ask.shape.fetch = "window"
    <2> DEFINE Widths == {n - 1, n}
               Stops  == IF a = None THEN {Now} ELSE {a, Min({a, Now})}
    <2>0. p \in {Between(e - w, e) : w \in Widths, e \in Stops}
      BY <1>2 DEF Page
    <2> HIDE DEF Widths, Stops
    <2>1. PICK w \in Widths, e \in Stops : p = Between(e - w, e)
      BY <2>0
    <2> USE DEF Widths, Stops
    <2>2. a # None => Min({a, Now}) \in {a, Now} /\ Min({a, Now}) <= a /\ Min({a, Now}) <= Now
      <3> SUFFICES ASSUME a \in Nat
                   PROVE  Min({a, Now}) \in {a, Now} /\ Min({a, Now}) <= a /\ Min({a, Now}) <= Now
        OBVIOUS
      <3>1. \E x \in {a, Now} : \A y \in {a, Now} : x <= y
        BY RowFacts
      <3> QED BY <3>1 DEF Min
    <2>3. e \in Nat /\ (a # None => e <= a) /\ \A r \in Row : Before(r, a) => r[1] <= e
      BY <2>1, <2>2, RowFacts DEF Before
    <2>4. p = {r \in rows : e - w <= r[1] /\ r[1] <= e}
      BY <2>1, <2>3, RowFacts DEF Between
    <2> QED BY <2>1, <2>3, <2>4, RowFacts DEF TopPart, Before
  <1> QED BY <1>1, <1>2

\* The three pages that are no part of the pagination.
LEMMA OtherPages ==
    ASSUME rows \in SUBSET Row, AskOK
    PROVE  /\ \A p \in (IF ask.shape.fetch = "recent" THEN {RecentPage(None, ask.limit)}
                        ELSE Page(None, ask.limit)) : TopPart(p, None)
           /\ \A since \in {0, WalkEnd(ask) - ask.limit} :
                 TopPart(UpTo({r \in Newest(rows, VenueKeeps) : r[1] >= since}, Anchor), Anchor)
           /\ Min({ask.limit, PageSize}) \in Nat \ {0}
           /\ Min({ask.limit, PageSize}) <= ask.limit /\ Min({ask.limit, PageSize}) <= PageSize
  <1>1. ask.limit \in Nat \ {0} /\ WalkEnd(ask) \in Nat /\ (Anchor = None \/ Anchor \in Nat)
    BY AskFacts
  <1>2. \A p \in (IF ask.shape.fetch = "recent" THEN {RecentPage(None, ask.limit)}
                  ELSE Page(None, ask.limit)) : TopPart(p, None)
    BY <1>1, TopOfVenue, TopOfPage, Zenon
  <1>3. ASSUME NEW since \in {0, WalkEnd(ask) - ask.limit}
        PROVE  TopPart(UpTo({r \in Newest(rows, VenueKeeps) : r[1] >= since}, Anchor), Anchor)
    <2>1. since \in Int
      BY <1>1
    <2>2. TopPart(Newest(rows, VenueKeeps), None)
      BY TopOfVenue, SeriesConstants
    <2>3. TopPart({r \in Newest(rows, VenueKeeps) : r[1] >= since}, None)
      BY <2>1, <2>2, TopPartOf
    <2> QED BY <1>1, <2>3, TopPartOf
  <1>5. /\ Min({ask.limit, PageSize}) \in Nat \ {0}
        /\ Min({ask.limit, PageSize}) <= ask.limit /\ Min({ask.limit, PageSize}) <= PageSize
    <2>1. \E x \in {ask.limit, PageSize} : \A y \in {ask.limit, PageSize} : x <= y
      BY <1>1, SeriesConstants
    <2> QED BY <1>1, <2>1, SeriesConstants DEF Min
  <1> QED BY <1>2, <1>3, <1>5

\* A funding window: some of its rows, or all of few.
LEMMA WindowFacts ==
    ASSUME rows \in SUBSET Row, NEW lo, NEW hi, NEW n \in Nat, NEW p \in Window(lo, hi, n)
    PROVE  /\ Between(lo, hi) \in SUBSET rows /\ p \in SUBSET Between(lo, hi)
           /\ Cardinality(Between(lo, hi)) \in Nat
           /\ Cardinality(Between(lo, hi)) <= n => p = Between(lo, hi)
           /\ \A a, b \in p : \A r \in Between(lo, hi) : a[1] < r[1] /\ r[1] < b[1] => r \in p
  <1> DEFINE B == Between(lo, hi)
  <1>1. B \in SUBSET rows /\ B \in SUBSET Row
    BY DEF Between
  <1>2. p = Newest(B, n) \/ p = Earliest(B, n)
    BY DEF Window
  <1> HIDE DEF B
  <1>3. Cardinality(B) \in Nat
    BY <1>1, RowsFinite
  <1>4. CASE p = Newest(B, n)
    <2>1. /\ p \in SUBSET B
          /\ Cardinality(B) <= n => p = B
          /\ \A r \in p : \A q \in B : Key(r) <= Key(q) => q \in p
      BY <1>1, <1>4, NewestFacts
    <2>2. \A a \in p : \A r \in B : a[1] < r[1] => r \in p
      BY <1>1, <2>1, RowFacts
    <2> QED BY <1>1, <1>3, <2>1, <2>2 DEF B
  <1>5. CASE p = Earliest(B, n)
    <2>1. /\ p \in SUBSET B
          /\ Cardinality(B) <= n => p = B
          /\ \A r \in p : \A q \in B : Key(q) <= Key(r) => q \in p
      BY <1>1, <1>5, EarliestFacts
    <2>2. \A b \in p : \A r \in B : r[1] < b[1] => r \in p
      BY <1>1, <2>1, RowFacts
    <2> QED BY <1>1, <1>3, <2>1, <2>2 DEF B
  <1> QED BY <1>2, <1>4, <1>5

\* What the pagination returns: rows it read and recent rows, `limit` at most.
LEMMA PagedFacts ==
    ASSUME Types, NEW S \in SUBSET Row
    PROVE  /\ PagedResult(S) \in SUBSET (S \cup recent)
           /\ PagedResult(S) \in SUBSET Row
           /\ Cardinality(PagedResult(S)) <= ask.limit
  <1>1. total \in Nat \ {0} /\ total <= ask.limit /\ ask.limit \in Nat \ {0}
    BY AskFacts DEF Types
  <1>2. Cut(S, total) \in SUBSET S /\ Cardinality(Cut(S, total)) <= total
    BY <1>1, CutFacts
  <1>3. Cardinality(Cut(S, total)) \in Nat
    BY <1>2, RowsFinite
  <1>4. Combined(Cut(S, total)) \in SUBSET (S \cup recent) /\ recent \in SUBSET Row
    BY <1>2 DEF Combined, Types
  <1>5. /\ Cut(Combined(Cut(S, total)), ask.limit) \in SUBSET Combined(Cut(S, total))
        /\ Cardinality(Cut(Combined(Cut(S, total)), ask.limit)) <= ask.limit
    <2>1. Combined(Cut(S, total)) \in SUBSET Row
      BY <1>4
    <2> QED BY <1>1, <2>1, CutFacts
  <1>6. CASE recent = {}
    BY <1>1, <1>2, <1>3, <1>6 DEF PagedResult
  <1>7. CASE recent # {}
    BY <1>4, <1>5, <1>7 DEF PagedResult
  <1> QED BY <1>6, <1>7

-----------------------------------------------------------------------------
(* The state of a read is an invariant *)

\* The state at the call.
LEMMA ReadInit == Init => ReadInv
  <1> SUFFICES ASSUME Init PROVE ReadInv
    OBVIOUS
  <1> USE DEF Init
  <1>1. AskOK
    BY DEF AskOK
  <1>2. rows \in SUBSET Row /\ OnePerTime(rows)
    <2>1. CASE ask.shape.many
      BY <2>1 DEF VenueRows, Row, OnePerTime
    <2>2. CASE ~ask.shape.many
      <3>1. PICK S \in SUBSET Times : rows = S \X {0}
        BY <2>2 DEF VenueRows
      <3>2. \A r \in rows : r[1] \in S /\ r[2] = 0 /\ r \in Row
        BY <3>1 DEF Row
      <3> QED BY <3>2, RowFacts DEF OnePerTime
    <2> QED BY <2>1, <2>2
  <1>3. /\ ask.limit \in Nat \ {0}
        /\ ask.shape.fetch \in {"newest", "latest", "window", "bulk", "walk", "recent", "cadence"}
    BY <1>1, AskFacts DEF Fits
  <1>4. pc \in {"direct", "page", "bulk", "walk", "recent", "cadence"}
        /\ (pc = "direct" => IsDirect(ask))
        /\ (pc = "page" => ask.shape.fetch \in {"newest", "latest", "window"})
        /\ (pc \notin {"direct", "page"} => pc = ask.shape.fetch)
    BY <1>3 DEF Begin
  <1>5. Cardinality({}) = 0
    BY FS_EmptySet
  <1>6. Types
    BY <1>1, <1>2, <1>3, <1>4, <1>5, SeriesConstants DEF Types, Known
  <1>7. Starts
    BY <1>1, <1>3, <1>4, AskFacts DEF Starts
  <1>8. Paging
    BY <1>3, <1>4 DEF Paging
  <1>9. Walks
    BY <1>1, <1>3, <1>4, AskFacts DEF Walks
  <1>10. Olders /\ Anchored
    BY <1>4 DEF Olders, Anchored
  <1> QED BY <1>6, <1>7, <1>8, <1>9, <1>10 DEF ReadInv

\* A step that ends the read.
LEMMA ReturnKeeps ==
    ASSUME Types, UNCHANGED <<ask, rows, total, recent>>,
           pc' = "done", result' \in SUBSET Row, Cardinality(result') <= ask.limit,
           acc' \in SUBSET Row, Known(acc' \cup recent), pages' \in 0..MaxPages
    PROVE  ReadInv'
  <1>1. Types'
    BY DEF Types, AskOK, OnePerTime, Known, Has
  <1> QED BY <1>1 DEF ReadInv, Starts, Paging, Walks, Olders, Anchored

\* A single request.
LEMMA DirectKeeps == ReadInv /\ Direct => ReadInv'
  <1> SUFFICES ASSUME ReadInv, Direct PROVE ReadInv'
    OBVIOUS
  <1>1. Types /\ AskOK /\ rows \in SUBSET Row /\ acc \in SUBSET Row /\ Known(acc \cup recent)
    BY DEF ReadInv, Types
  <1>2. PICK p \in (IF ask.shape.fetch = "recent" THEN {RecentPage(None, ask.limit)}
                    ELSE Page(None, ask.limit)) : Return(Cut(p, ask.limit), FALSE)
    BY DEF Direct
  <1>3. p \in SUBSET Row
    BY <1>1, <1>2, OtherPages DEF TopPart
  <1>4. Cut(p, ask.limit) \in SUBSET Row /\ Cardinality(Cut(p, ask.limit)) <= ask.limit
    BY <1>1, <1>3, CutFacts, AskFacts
  <1> QED BY <1>1, <1>2, <1>4, ReturnKeeps DEF Direct, Return, Types, venue

\* A request of Kraken without pages.
LEMMA BulkKeeps == ReadInv /\ Bulk => ReadInv'
  <1> SUFFICES ASSUME ReadInv, Bulk PROVE ReadInv'
    OBVIOUS
  <1>1. Types /\ AskOK /\ rows \in SUBSET Row /\ acc \in SUBSET Row /\ Known(acc \cup recent)
    BY DEF ReadInv, Types
  <1>2. PICK since \in {0, WalkEnd(ask) - ask.limit} :
           Return(Cut(UpTo({r \in Newest(rows, VenueKeeps) : r[1] >= since}, Anchor), ask.limit), FALSE)
    BY DEF Bulk
  <1> DEFINE p == UpTo({r \in Newest(rows, VenueKeeps) : r[1] >= since}, Anchor)
  <1>3. p \in SUBSET Row
    BY <1>1, <1>2, OtherPages DEF TopPart
  <1> HIDE DEF p
  <1>4. Cut(p, ask.limit) \in SUBSET Row /\ Cardinality(Cut(p, ask.limit)) <= ask.limit
    BY <1>1, <1>3, CutFacts, AskFacts
  <1>5. Return(Cut(p, ask.limit), FALSE)
    BY <1>2 DEF p
  <1> QED BY <1>1, <1>4, <1>5, ReturnKeeps DEF Bulk, Return, Types, venue

\* Where the next page ends.
End == IF at = None THEN first ELSE at

\* The anchors of the pages lie before one another.
LEMMA PageAnchor ==
    ASSUME ReadInv, pc = "page"
    PROVE  /\ End = None \/ End \in Nat
           /\ first = None \/ first \in Nat
           /\ at = None \/ at \in Nat
           /\ Heeds => \A r \in Row : Before(r, End) => Before(r, first)
           /\ \A r \in Row : Before(r, first) => Before(r, Anchor)
           /\ recent # {} => \A q \in recent : first < q[1]
           /\ recent # {} => first # None
           /\ acc \in SUBSET Row /\ recent \in SUBSET Row /\ rows \in SUBSET Row /\ AskOK
  <1>1. acc \in SUBSET Row /\ recent \in SUBSET Row /\ rows \in SUBSET Row /\ AskOK
    BY DEF ReadInv, Types
  <1>2. Anchor = None \/ Anchor \in Nat
    BY <1>1, AskFacts
  <1>3. ASSUME recent # {}
        PROVE  /\ first \in Nat
               /\ \A q \in recent : first < q[1]
               /\ \A r \in Row : Before(r, first) => Before(r, Anchor)
    <2>1. /\ Oldest(recent) \in Nat /\ \A q \in recent : Oldest(recent) <= q[1]
          /\ \E m \in recent : m[1] = Oldest(recent)
      BY <1>1, <1>3, Ends
    <2>2. PICK m \in recent : m[1] = Oldest(recent)
      BY <2>1
    <2>3. m[1] >= 1 /\ Before(m, Anchor)
      BY <1>1, <1>3, RowFacts DEF ReadInv, Anchored, Paging, Heeds
    <2>4. first = m[1] - 1 /\ m[1] \in Nat
      BY <1>3, <2>1, <2>2 DEF ReadInv, Paging
    <2>5. \A q \in recent : q[1] \in Nat
      BY <1>1, RowFacts
    <2> QED BY <1>2, <2>1, <2>2, <2>3, <2>4, <2>5, RowFacts, SeriesConstants DEF Before
  <1>4. recent = {} => first = Anchor
    BY DEF ReadInv, Paging
  <1>5. first = None \/ first \in Nat
    BY <1>2, <1>3, <1>4
  <1>6. ASSUME at # None
        PROVE  at \in Nat /\ (Heeds => \A r \in Row : r[1] <= at => Before(r, first))
    <2>1. PICK a \in acc : a[1] = at /\ (Heeds => Before(a, first))
      BY <1>6 DEF ReadInv, Paging
    <2> QED BY <1>1, <1>5, <2>1, RowFacts, SeriesConstants DEF Before
  <1> QED BY <1>1, <1>2, <1>3, <1>4, <1>5, <1>6, SeriesConstants DEF End, Before

\* What a page with new rows adds.
LEMMA PageAdds ==
    ASSUME ReadInv, pc = "page", NEW p \in Page(End, PageRows)
    PROVE  /\ p \in SUBSET rows /\ p \in SUBSET Row
           /\ TopPart(p, End) \/ TopPart(p, None)
           /\ acc \cup p \in SUBSET Row /\ Known((acc \cup p) \cup recent)
           /\ Heeds => /\ TopPart(p, End)
                       /\ \A a \in acc \cup p : Before(a, first)
                       /\ at # None => \A a \in p : a[1] <= at
           /\ p # {} => /\ NextEnd(p) \in Nat /\ NextEnd(p) > 0
                        /\ \E a \in p : a[1] = NextEnd(p)
                        /\ Heeds \/ Goes(p, acc \cup p) =>
                              \A a \in acc \cup p : NextEnd(p) <= a[1]
  <1>1. /\ p \in SUBSET rows
        /\ TopPart(p, End) \/ TopPart(p, None)
        /\ Heeds => TopPart(p, End)
    <2>1. PageRows \in Nat /\ rows \in SUBSET Row /\ (End = None \/ End \in Nat)
      BY PageAnchor, AskFacts
    <2> QED BY <2>1, TopOfPage
  <1>2. p \in SUBSET rows /\ p \in SUBSET Row /\ (Heeds => \A a \in p : Before(a, End))
    BY <1>1, PageAnchor DEF TopPart
  <1>3. Known((acc \cup p) \cup recent)
    BY <1>2 DEF Known, Has, ReadInv, Types
  <1>4. Heeds => \A a \in acc \cup p : Before(a, first)
    BY <1>2, PageAnchor DEF ReadInv, Paging
  <1>5. Heeds /\ at # None => \A a \in p : a[1] <= at
    BY <1>2, PageAnchor, SeriesConstants DEF End, Before
  <1>6. ASSUME p # {}
        PROVE  /\ NextEnd(p) \in Nat /\ NextEnd(p) > 0
               /\ \E a \in p : a[1] = NextEnd(p)
               /\ Heeds \/ Goes(p, acc \cup p) => \A a \in acc \cup p : NextEnd(p) <= a[1]
    <2>1. /\ NextEnd(p) \in Nat
          /\ \E a \in p : a[1] = NextEnd(p)
          /\ \A a \in p : NextEnd(p) <= a[1]
      BY <1>2, <1>6, Ends DEF NextEnd
    <2>2. NextEnd(p) > 0
      BY <1>2, <2>1, RowFacts
    <2>3. ASSUME NEW a \in acc, Heeds \/ Goes(p, acc \cup p) PROVE NextEnd(p) <= a[1]
      <3>1. at # None /\ at <= a[1] /\ at \in Nat
        BY PageAnchor DEF ReadInv, Paging
      <3>2. PICK m \in p : m[1] = NextEnd(p)
        BY <2>1
      <3>3. NextEnd(p) <= at
        <4>1. CASE Heeds
          BY <1>5, <3>1, <3>2, <4>1
        <4>2. CASE Goes(p, acc \cup p)
          BY <2>1, <3>1, <4>2 DEF Goes
        <4> QED BY <2>3, <4>1, <4>2
      <3>4. a[1] \in Nat
        BY PageAnchor, RowFacts
      <3> QED BY <2>1, <3>1, <3>3, <3>4
    <2> QED BY <2>1, <2>2, <2>3
  <1> QED BY <1>1, <1>2, <1>3, <1>4, <1>5, <1>6, PageAnchor

\* The three outcomes of a page: nothing new, an end, another page.
NothingNew(p) ==
    /\ p \subseteq acc
    /\ Return(PagedResult(acc), FALSE)
    /\ UNCHANGED <<at, acc, pages>>

LastPage(p) ==
    /\ ~(p \subseteq acc) /\ ~Goes(p, acc \cup p)
    /\ acc' = acc \cup p /\ pages' = pages + 1
    /\ Return(PagedResult(acc \cup p), Cardinality(acc \cup p) < total /\ pages + 1 >= MaxPages)
    /\ UNCHANGED at

OnePage(p) ==
    /\ ~(p \subseteq acc) /\ Goes(p, acc \cup p)
    /\ acc' = acc \cup p /\ pages' = pages + 1
    /\ at' = NextEnd(p) /\ UNCHANGED <<pc, result, short>>

\* NextPage, by its outcomes.
LEMMA PageOutcomes ==
    ASSUME NextPage
    PROVE  /\ pc = "page" /\ UNCHANGED <<ask, first, total, recent, faults, rows, fresh, changes>>
           /\ \E p \in Page(End, PageRows) : NothingNew(p) \/ LastPage(p) \/ OnePage(p)
  BY DEF NextPage, End, PageRows, NothingNew, LastPage, OnePage, venue

\* A page of _paginate_backwards.
LEMMA NextPageKeeps == ReadInv /\ NextPage => ReadInv'
  <1> SUFFICES ASSUME ReadInv, NextPage PROVE ReadInv'
    OBVIOUS
  <1>1. Types /\ AskOK /\ rows \in SUBSET Row /\ acc \in SUBSET Row /\ Known(acc \cup recent)
        /\ pc = "page" /\ pages \in Nat /\ pages < MaxPages
    BY DEF ReadInv, Types, NextPage
  <1>2. UNCHANGED <<ask, first, total, recent, faults, rows, fresh, changes>>
    BY PageOutcomes
  <1>3. PICK p \in Page(End, PageRows) : NothingNew(p) \/ LastPage(p) \/ OnePage(p)
    BY PageOutcomes
  <1>4. acc \cup p \in SUBSET Row /\ Known((acc \cup p) \cup recent)
    BY <1>1, PageAdds
  <1>5. CASE NothingNew(p)
    BY <1>1, <1>2, <1>5, ReturnKeeps, PagedFacts DEF NothingNew, Return, Types
  <1>6. CASE LastPage(p)
    <2>1. pages' \in 0..MaxPages
      BY <1>1, <1>6, SeriesConstants DEF LastPage
    <2> QED BY <1>1, <1>2, <1>4, <1>6, <2>1, ReturnKeeps, PagedFacts DEF LastPage, Return
  <1>7. CASE OnePage(p)
    <2>1. /\ acc' = acc \cup p /\ pages' = pages + 1 /\ at' = NextEnd(p)
          /\ UNCHANGED <<pc, result, short>> /\ pages + 1 < MaxPages /\ p # {}
      BY <1>7 DEF OnePage, Goes
    <2>2. Types'
      BY <1>1, <1>2, <1>4, <2>1, SeriesConstants DEF Types, AskOK, OnePerTime, Known, Has
    <2>3. Anchor' = Anchor
      BY <1>2 DEF Anchor
    <2>4. /\ NextEnd(p) \in Nat /\ \E a \in p : a[1] = NextEnd(p)
          /\ \A a \in acc \cup p : NextEnd(p) <= a[1]
          /\ Heeds => \A a \in acc \cup p : Before(a, first)
      BY <1>1, <1>7, <2>1, PageAdds DEF OnePage
    <2>5. Paging'
      BY <1>1, <1>2, <2>1, <2>3, <2>4, SeriesConstants DEF ReadInv, Paging, Before, Heeds
    <2>6. Anchored'
      <3>1. Heeds => \A q \in acc \cup p : Before(q, Anchor)
        BY <1>1, <1>4, <2>4, PageAnchor
      <3> QED BY <1>1, <1>2, <2>1, <2>3, <3>1 DEF ReadInv, Anchored, Before, Heeds
    <2> QED BY <1>1, <2>1, <2>2, <2>5, <2>6 DEF ReadInv, Starts, Walks, Olders
  <1> QED BY <1>3, <1>5, <1>6, <1>7

\* The recent page of OKX.
RecentRows == RecentPage(Anchor, Min({ask.limit, PageSize}))

\* The recent page is the top of the venue's rows.
LEMMA RecentAdds ==
    ASSUME ReadInv, pc = "recent"
    PROVE  /\ TopPart(RecentRows, Anchor) /\ RecentRows \in SUBSET Row
           /\ RecentRows \in SUBSET rows
           /\ Cardinality(RecentRows) \in Nat
           /\ Cardinality(RecentRows) = 0 <=> RecentRows = {}
           /\ ask.limit \in Nat \ {0} /\ AskOK /\ rows \in SUBSET Row
  <1>1. rows \in SUBSET Row /\ AskOK
    BY DEF ReadInv, Types
  <1>2. /\ Min({ask.limit, PageSize}) \in Nat /\ (Anchor = None \/ Anchor \in Nat)
        /\ ask.limit \in Nat \ {0}
    BY <1>1, OtherPages, AskFacts
  <1>3. TopPart(RecentRows, Anchor)
    BY <1>1, <1>2, TopOfVenue DEF RecentRows
  <1>4. RecentRows \in SUBSET Row /\ RecentRows \in SUBSET rows
    BY <1>1, <1>3 DEF TopPart
  <1> QED BY <1>1, <1>2, <1>3, <1>4, Cards

\* The outcomes of the recent page.
NoRecent ==
    /\ RecentRows = {}
    /\ pc' = "page"
    /\ UNCHANGED <<first, total, recent, result, short>>

RecentIsAll ==
    /\ RecentRows # {} /\ Cardinality(RecentRows) >= ask.limit
    /\ Return(Cut(RecentRows, ask.limit), FALSE)
    /\ UNCHANGED <<first, total, recent>>

RecentFirst ==
    /\ RecentRows # {} /\ Cardinality(RecentRows) < ask.limit
    /\ pc' = "page" /\ recent' = RecentRows /\ first' = Oldest(RecentRows) - 1
    /\ total' = ask.limit - Cardinality(RecentRows) /\ UNCHANGED <<result, short>>

\* Recent, by its outcomes.
LEMMA RecentOutcomes ==
    ASSUME Recent
    PROVE  /\ pc = "recent" /\ UNCHANGED <<ask, at, acc, pages, faults, rows, fresh, changes>>
           /\ NoRecent \/ RecentIsAll \/ RecentFirst
  BY DEF Recent, RecentRows, NoRecent, RecentIsAll, RecentFirst, venue

\* The recent page, which moves the anchor of the archive before it.
LEMMA RecentKeeps == ReadInv /\ Recent => ReadInv'
  <1> SUFFICES ASSUME ReadInv, Recent PROVE ReadInv'
    OBVIOUS
  <1>1. /\ pc = "recent" /\ Types /\ acc = {} /\ recent = {} /\ at = None /\ first = Anchor
        /\ total = ask.limit /\ ask.shape.fetch = "recent" /\ pages \in 0..MaxPages
        /\ UNCHANGED <<ask, at, acc, pages, faults, rows, fresh, changes>>
    BY RecentOutcomes DEF ReadInv, Starts, Types
  <1>2. /\ RecentRows \in SUBSET Row /\ RecentRows \in SUBSET rows
        /\ Cardinality(RecentRows) \in Nat
        /\ Cardinality(RecentRows) = 0 <=> RecentRows = {}
        /\ ask.limit \in Nat \ {0}
        /\ \A q \in RecentRows : Before(q, Anchor)
    BY <1>1, RecentAdds DEF TopPart
  <1>3. Anchor' = Anchor
    BY <1>1 DEF Anchor
  <1>4. CASE NoRecent
    <2>1. pc' = "page" /\ UNCHANGED <<first, total, recent, result, short>>
      BY <1>4 DEF NoRecent
    <2>2. Types'
      BY <1>1, <2>1 DEF Types, AskOK, OnePerTime, Known, Has
    <2> QED BY <1>1, <1>3, <2>1, <2>2
            DEF ReadInv, Starts, Paging, Walks, Olders, Anchored
  <1>5. CASE RecentIsAll
    <2>1. Return(Cut(RecentRows, ask.limit), FALSE) /\ UNCHANGED <<first, total, recent>>
      BY <1>5 DEF RecentIsAll
    <2>2. Cut(RecentRows, ask.limit) \in SUBSET Row
          /\ Cardinality(Cut(RecentRows, ask.limit)) <= ask.limit
      BY <1>2, CutFacts
    <2>3. acc' \in SUBSET Row /\ Known(acc' \cup recent)
      BY <1>1 DEF Types
    <2> QED BY <1>1, <2>1, <2>2, <2>3, ReturnKeeps DEF Return
  <1>6. CASE RecentFirst
    <2>1. /\ pc' = "page" /\ recent' = RecentRows /\ first' = Oldest(RecentRows) - 1
          /\ total' = ask.limit - Cardinality(RecentRows) /\ UNCHANGED <<result, short>>
          /\ RecentRows # {} /\ Cardinality(RecentRows) < ask.limit
      BY <1>6 DEF RecentFirst
    <2>2. Known(acc' \cup RecentRows)
      BY <1>1, <1>2 DEF Known, Has
    <2>3. total' \in 1..ask.limit
      BY <1>2, <2>1
    <2>4. Types'
      BY <1>1, <1>2, <2>1, <2>2, <2>3 DEF Types, AskOK, OnePerTime, Known, Has
    <2>5. Paging'
      BY <1>1, <2>1 DEF Paging
    <2>6. Anchored'
      BY <1>1, <1>2, <1>3, <2>1 DEF Anchored, Before
    <2> QED BY <2>1, <2>4, <2>5, <2>6 DEF ReadInv, Starts, Walks, Olders
  <1> QED BY <1>4, <1>5, <1>6, RecentOutcomes

\* A page of the forward walk.
WalkPage == Earliest({r \in rows : r[1] >= at}, PageSize)

\* A page of the walk has nothing that was read before it.
LEMMA WalkAdds ==
    ASSUME ReadInv, pc = "walk"
    PROVE  /\ WalkPage \in SUBSET rows /\ WalkPage \in SUBSET Row
           /\ {r \in WalkPage : r[1] \notin TimesOf(acc)} = WalkPage
           /\ at \in Int /\ \A q \in WalkPage : at <= q[1]
           /\ \A b \in WalkPage : \A r \in rows : at <= r[1] /\ r[1] < b[1] => r \in WalkPage
           /\ Known((acc \cup WalkPage) \cup recent) /\ acc \cup WalkPage \in SUBSET Row
           /\ rows \in SUBSET Row /\ AskOK /\ acc \in SUBSET Row
  <1>1. rows \in SUBSET Row /\ AskOK /\ acc \in SUBSET Row /\ at \in Int
    BY DEF ReadInv, Types, Walks
  <1> DEFINE S == {r \in rows : r[1] >= at}
  <1>2. S \in SUBSET Row
    BY <1>1
  <1>3. /\ WalkPage \in SUBSET S
        /\ \A r \in WalkPage : \A q \in S : Key(q) <= Key(r) => q \in WalkPage
    BY <1>2, EarliestFacts, SeriesConstants DEF WalkPage
  <1>4. \A r \in rows : at <= r[1] => r \in S
    BY <1>1, RowFacts
  <1>5. \A q \in WalkPage : at <= q[1] /\ q \in rows
    BY <1>1, <1>3, RowFacts
  <1> HIDE DEF S
  <1>6. \A b \in WalkPage : \A r \in rows : at <= r[1] /\ r[1] < b[1] => r \in WalkPage
    BY <1>1, <1>2, <1>3, <1>4, RowFacts
  <1>7. {r \in WalkPage : r[1] \notin TimesOf(acc)} = WalkPage
    <2>1. ASSUME NEW r \in WalkPage, NEW a \in acc, r[1] = a[1] PROVE FALSE
      <3>1. a[1] < at /\ at <= r[1] /\ a[1] \in Nat /\ r[1] \in Nat
        BY <1>1, <1>5, RowFacts DEF ReadInv, Walks
      <3> QED BY <1>1, <2>1, <3>1
    <2> QED BY <2>1 DEF TimesOf
  <1>8. Known((acc \cup WalkPage) \cup recent)
    BY <1>5 DEF Known, Has, ReadInv, Types
  <1> QED BY <1>1, <1>5, <1>6, <1>7, <1>8

\* The outcomes of a page of the walk.
WalkEnds ==
    /\ WalkPage = {}
    /\ Return(WalkResult(acc), FALSE)
    /\ UNCHANGED <<at, acc, pages>>

WalkArrives ==
    /\ WalkPage # {}
    /\ acc' = acc \cup WalkPage /\ pages' = pages + 1
    /\ Return(WalkResult(acc \cup WalkPage), Latest(WalkPage) < WalkEnd(ask) - 1)
    /\ UNCHANGED at

WalkGoes ==
    /\ WalkPage # {} /\ ~(Latest(WalkPage) >= WalkEnd(ask) - 1 \/ pages + 1 >= MaxPages)
    /\ acc' = acc \cup WalkPage /\ pages' = pages + 1
    /\ at' = Latest(WalkPage) + 1 /\ UNCHANGED <<pc, result, short>>

\* Walk, by its outcomes.
LEMMA WalkOutcomes ==
    ASSUME ReadInv, Walk
    PROVE  /\ pc = "walk" /\ UNCHANGED <<ask, first, total, recent, faults, rows, fresh, changes>>
           /\ WalkEnds \/ WalkArrives \/ WalkGoes
  <1>1. pc = "walk"
    BY DEF Walk
  <1>2. {r \in WalkPage : r[1] \notin TimesOf(acc)} = WalkPage
    BY <1>1, WalkAdds
  <1> QED BY <1>1, <1>2 DEF Walk, WalkPage, WalkEnds, WalkArrives, WalkGoes, venue

\* What the walk returns.
LEMMA WalkFacts ==
    ASSUME AskOK, NEW S \in SUBSET Row
    PROVE  /\ WalkResult(S) \in SUBSET S /\ WalkResult(S) \in SUBSET Row
           /\ Cardinality(WalkResult(S)) <= ask.limit
           /\ \A q \in WalkResult(S) : Before(q, Anchor)
           /\ UpTo(S, Anchor) \in SUBSET Row
  <1>1. UpTo(S, Anchor) \in SUBSET S /\ \A q \in UpTo(S, Anchor) : Before(q, Anchor)
    BY DEF UpTo, Before
  <1>2. /\ WalkResult(S) \in SUBSET UpTo(S, Anchor)
        /\ Cardinality(WalkResult(S)) <= ask.limit
    BY <1>1, CutFacts, AskFacts DEF WalkResult
  <1> QED BY <1>1, <1>2

\* A page of the walk.
LEMMA WalkKeeps == ReadInv /\ Walk => ReadInv'
  <1> SUFFICES ASSUME ReadInv, Walk PROVE ReadInv'
    OBVIOUS
  <1>1. pc = "walk" /\ UNCHANGED <<ask, first, total, recent, faults, rows, fresh, changes>>
    BY WalkOutcomes
  <1>2. Types /\ AskOK /\ acc \in SUBSET Row /\ Known(acc \cup recent)
        /\ pages \in Nat /\ pages < MaxPages /\ recent = {}
    BY <1>1 DEF ReadInv, Types, Walks
  <1>3. CASE WalkEnds
    BY <1>1, <1>2, <1>3, WalkFacts, ReturnKeeps DEF WalkEnds, Return, Types
  <1>4. CASE WalkArrives
    <2>1. pages' \in 0..MaxPages
      BY <1>2, <1>4, SeriesConstants DEF WalkArrives
    <2>2. acc \cup WalkPage \in SUBSET Row /\ Known((acc \cup WalkPage) \cup recent)
      BY <1>1, WalkAdds
    <2> QED BY <1>1, <1>2, <1>4, <2>1, <2>2, WalkFacts, ReturnKeeps DEF WalkArrives, Return
  <1>5. CASE WalkGoes
    <2>1. /\ acc \cup WalkPage \in SUBSET Row /\ Known((acc \cup WalkPage) \cup recent)
          /\ WalkPage \in SUBSET Row /\ WalkPage # {} /\ at \in Int
          /\ \A q \in WalkPage : at <= q[1]
      BY <1>1, <1>5, WalkAdds DEF WalkGoes
    <2>2. Types'
      <3>1. pages' \in 0..MaxPages /\ pages' < MaxPages
        BY <1>2, <1>5, SeriesConstants DEF WalkGoes
      <3> QED BY <1>1, <1>2, <1>5, <2>1, <3>1 DEF WalkGoes, Types, AskOK, OnePerTime, Known, Has
    <2>3. /\ Latest(WalkPage) \in Nat /\ \E m \in WalkPage : m[1] = Latest(WalkPage)
          /\ \A q \in WalkPage : q[1] <= Latest(WalkPage)
      BY <2>1, Ends
    <2>4. \A q \in acc \cup WalkPage : q[1] \in Nat
      BY <2>1, RowFacts
    <2>5. \A q \in acc : q[1] < at
      BY <1>1 DEF ReadInv, Walks
    <2>6. \A q \in acc \cup WalkPage : q[1] < Latest(WalkPage) + 1
      BY <2>1, <2>3, <2>4, <2>5
    <2>7. Walks'
      BY <1>1, <1>2, <1>5, <2>3, <2>6 DEF WalkGoes, Walks, ReadInv
    <2> QED BY <1>1, <1>5, <2>2, <2>7 DEF WalkGoes, ReadInv, Starts, Paging, Olders, Anchored
  <1> QED BY <1>3, <1>4, <1>5, WalkOutcomes

\* max() of two integers.
LEMMA MaxInt == \A x \in Int : Max({0, x}) \in Int
  <1> SUFFICES ASSUME NEW x \in Int PROVE Max({0, x}) \in Int
    OBVIOUS
  <1>1. \E m \in {0, x} : \A y \in {0, x} : m >= y
    OBVIOUS
  <1> QED BY <1>1 DEF Max

\* A funding window that ends at the anchor.
WindowRows == Min({ask.limit, PageSize})

\* The bounds of the window.
LEMMA AnchoredOutcome ==
    ASSUME ReadInv, AnchoredWindow
    PROVE  /\ pc = "cadence" /\ ask.start # None
           /\ UNCHANGED <<ask, first, at, total, recent, acc, pages, faults, rows, fresh, changes>>
           /\ \E lo \in Int : \E p \in Window(lo, ask.start, WindowRows) :
                 Return(Cut(p, ask.limit), Cardinality(Between(lo, ask.start)) > WindowRows)
  <1>1. /\ pc = "cadence" /\ ask.start # None
        /\ UNCHANGED <<ask, first, at, total, recent, acc, pages, faults, rows, fresh, changes>>
    BY DEF AnchoredWindow, venue
  <1>2. PICK cycle \in {1, 2} :
           \E p \in Window(Max({0, ask.start - WindowRows * cycle}), ask.start, WindowRows) :
              Return(Cut(p, ask.limit),
                     Cardinality(Between(Max({0, ask.start - WindowRows * cycle}), ask.start))
                         > WindowRows)
    BY DEF AnchoredWindow, WindowRows
  <1>3. ask.start \in Nat /\ WindowRows \in Nat
    BY <1>1, AskFacts, OtherPages DEF ReadInv, Types, WindowRows
  <1>4. Max({0, ask.start - WindowRows * cycle}) \in Int
    <2> DEFINE x == ask.start - WindowRows * cycle
    <2>1. x \in Int
      BY <1>3
    <2> HIDE DEF x
    <2>2. Max({0, x}) \in Int
      BY <2>1, MaxInt
    <2> QED BY <2>2 DEF x
  <1> QED BY <1>1, <1>2, <1>4

\* A window that ends at the anchor.
LEMMA AnchoredKeeps == ReadInv /\ AnchoredWindow => ReadInv'
  <1> SUFFICES ASSUME ReadInv, AnchoredWindow PROVE ReadInv'
    OBVIOUS
  <1>1. Types /\ AskOK /\ rows \in SUBSET Row /\ acc \in SUBSET Row /\ Known(acc \cup recent)
    BY DEF ReadInv, Types
  <1>2. PICK lo \in Int : \E p \in Window(lo, ask.start, WindowRows) :
           Return(Cut(p, ask.limit), Cardinality(Between(lo, ask.start)) > WindowRows)
    BY AnchoredOutcome
  <1>3. PICK p \in Window(lo, ask.start, WindowRows) :
           Return(Cut(p, ask.limit), Cardinality(Between(lo, ask.start)) > WindowRows)
    BY <1>2
  <1>4. WindowRows \in Nat
    BY <1>1, OtherPages DEF WindowRows
  <1>5. p \in SUBSET Row
    BY <1>1, <1>4, WindowFacts
  <1>6. Cut(p, ask.limit) \in SUBSET Row /\ Cardinality(Cut(p, ask.limit)) <= ask.limit
    BY <1>1, <1>5, CutFacts, AskFacts
  <1> QED BY <1>1, <1>3, <1>6, AnchoredOutcome, ReturnKeeps DEF Return, Types

\* The outcomes of the request for recent funding.
FundingRows == Newest(rows, Min({ask.limit, PageSize}))

FundingIsAll ==
    /\ Return(Cut(FundingRows, ask.limit), FALSE)
    /\ UNCHANGED <<at, acc>>

FundingFirst ==
    /\ FundingRows # {}
    /\ acc' = FundingRows
    /\ at' \in Cadences(FundingRows)
    /\ pc' = "older"
    /\ UNCHANGED <<result, short>>

NoFunding == pc' = "failed" /\ UNCHANGED <<at, acc, result, short>>

\* RecentFunding, by its outcomes.
LEMMA FundingOutcomes ==
    ASSUME ReadInv, RecentFunding
    PROVE  /\ pc = "cadence" /\ ask.start = None
           /\ UNCHANGED <<ask, first, total, recent, pages, faults, rows, fresh, changes>>
           /\ FundingIsAll \/ FundingFirst \/ NoFunding
           /\ FundingRows \in SUBSET Row /\ FundingRows \in SUBSET rows
           /\ TopPart(FundingRows, None)
           /\ recent = {} /\ ask.shape.fetch = "cadence"
  <1>1. rows \in SUBSET Row /\ AskOK /\ pc = "cadence"
    BY DEF ReadInv, Types, RecentFunding
  <1>2. TopPart(FundingRows, None)
    BY <1>1, OtherPages, TopOfVenue DEF FundingRows
  <1>3. recent = {} /\ ask.shape.fetch = "cadence"
    BY <1>1 DEF ReadInv, Starts
  <1>4. /\ pc = "cadence" /\ ask.start = None
        /\ UNCHANGED <<ask, first, total, recent, pages, faults, rows, fresh, changes>>
        /\ FundingIsAll \/ FundingFirst \/ NoFunding
    BY DEF RecentFunding, FundingRows, FundingIsAll, FundingFirst, NoFunding, venue
  <1> QED BY <1>1, <1>2, <1>3, <1>4 DEF TopPart

\* The recent rows of the funding.
LEMMA FundingKeeps == ReadInv /\ RecentFunding => ReadInv'
  <1> SUFFICES ASSUME ReadInv, RecentFunding PROVE ReadInv'
    OBVIOUS
  <1>1. Types /\ AskOK /\ rows \in SUBSET Row /\ acc \in SUBSET Row /\ Known(acc \cup recent)
    BY DEF ReadInv, Types
  <1>2. /\ UNCHANGED <<ask, first, total, recent, pages, rows>>
        /\ FundingRows \in SUBSET Row /\ FundingRows \in SUBSET rows
        /\ pc = "cadence" /\ ask.start = None /\ recent = {} /\ ask.shape.fetch = "cadence"
    BY FundingOutcomes
  <1>3. CASE FundingIsAll
    <2>1. Cut(FundingRows, ask.limit) \in SUBSET Row
          /\ Cardinality(Cut(FundingRows, ask.limit)) <= ask.limit
      BY <1>1, <1>2, CutFacts, AskFacts
    <2> QED BY <1>1, <1>2, <1>3, <2>1, ReturnKeeps DEF FundingIsAll, Return, Types
  <1>4. CASE FundingFirst
    <2>1. Known(FundingRows \cup recent)
      BY <1>2 DEF Known, Has
    <2>2. Types'
      BY <1>1, <1>2, <1>4, <2>1 DEF FundingFirst, Types, AskOK, OnePerTime, Known, Has
    <2>3. at' \in Nat
      BY <1>4, RowFacts DEF FundingFirst, Cadences
    <2> QED BY <1>2, <1>4, <2>2, <2>3
            DEF FundingFirst, ReadInv, Starts, Paging, Walks, Olders, Anchored
  <1>5. CASE NoFunding
    <2>1. Types'
      BY <1>1, <1>2, <1>5 DEF NoFunding, Types, AskOK, OnePerTime, Known, Has
    <2> QED BY <1>5, <2>1 DEF NoFunding, ReadInv, Starts, Paging, Walks, Olders, Anchored
  <1> QED BY <1>3, <1>4, <1>5, FundingOutcomes

\* The outcomes of an older funding window.
OlderStep(lo, hi, p) ==
    /\ lo \in Int /\ hi = Oldest(acc) - 1
    /\ acc' = acc \cup p
    /\ pages' = pages + 1
    /\ short' = (short \/ Cardinality(Between(lo, hi)) > PageSize)
    /\ \/ pc' = "done" /\ result' = Cut(acc \cup p, ask.limit)
       \/ pages + 1 < MaxPages /\ UNCHANGED <<pc, result>>

\* OlderFunding, by its outcomes and with the bounds of its window.
LEMMA OlderOutcome ==
    ASSUME ReadInv, OlderFunding
    PROVE  /\ pc = "older" /\ ask.start = None /\ ask.shape.fetch = "cadence" /\ acc # {}
           /\ UNCHANGED <<ask, first, at, total, recent, faults, rows, fresh, changes>>
           /\ \E lo, hi : \E p \in Window(lo, hi, PageSize) : OlderStep(lo, hi, p)
  <1>1. pc = "older" /\ pages \in Nat /\ MaxPages \in Nat
    BY SeriesConstants DEF OlderFunding, ReadInv, Types
  <1> DEFINE lo == Max({0, Oldest(acc) - PageSize * at})
             hi == Oldest(acc) - 1
             ends(p) == p = {} \/ Cardinality(acc \cup p) >= ask.limit \/ pages + 1 >= MaxPages
  <1>2. \E l, h : \E p \in Window(l, h, PageSize) : OlderStep(l, h, p)
    <2>1. PICK p \in Window(lo, hi, PageSize) :
              /\ acc' = acc \cup p
              /\ pages' = pages + 1
              /\ short' = (short \/ Cardinality(Between(lo, hi)) > PageSize)
              /\ IF ends(p) THEN pc' = "done" /\ result' = Cut(acc \cup p, ask.limit)
                 ELSE UNCHANGED <<pc, result>>
      BY Zenon DEF OlderFunding
    <2>2. lo \in Int
      <3>1. acc \in SUBSET Row /\ acc # {} /\ at \in Nat
        BY <1>1 DEF ReadInv, Types, Olders
      <3> DEFINE x == Oldest(acc) - PageSize * at
      <3>2. x \in Int
        BY <3>1, Ends, SeriesConstants
      <3> HIDE DEF x
      <3>3. Max({0, x}) \in Int
        BY <3>2, MaxInt
      <3> QED BY <3>3 DEF x
    <2>4. hi = Oldest(acc) - 1
      OBVIOUS
    <2> HIDE DEF lo, hi
    <2>3. OlderStep(lo, hi, p)
      BY <1>1, <2>1, <2>2, <2>4 DEF OlderStep
    <2> QED BY <2>3
  <1> QED BY <1>1, <1>2 DEF OlderFunding, ReadInv, Olders, venue

\* A window before the rows that were read.
LEMMA OlderKeeps == ReadInv /\ OlderFunding => ReadInv'
  <1> SUFFICES ASSUME ReadInv, OlderFunding PROVE ReadInv'
    OBVIOUS
  <1>1. Types /\ AskOK /\ rows \in SUBSET Row /\ acc \in SUBSET Row /\ Known(acc \cup recent)
        /\ pages \in Nat /\ pages < MaxPages /\ pc = "older"
    BY OlderOutcome DEF ReadInv, Types
  <1>2. /\ UNCHANGED <<ask, first, at, total, recent, rows>>
        /\ ask.start = None /\ ask.shape.fetch = "cadence" /\ acc # {}
    BY OlderOutcome
  <1>3. PICK lo, hi : \E p \in Window(lo, hi, PageSize) : OlderStep(lo, hi, p)
    BY OlderOutcome
  <1>4. PICK p \in Window(lo, hi, PageSize) : OlderStep(lo, hi, p)
    BY <1>3
  <1>5. p \in SUBSET rows /\ p \in SUBSET Row
    BY <1>1, WindowFacts, SeriesConstants
  <1>6. acc \cup p \in SUBSET Row /\ Known((acc \cup p) \cup recent)
    BY <1>1, <1>5 DEF Known, Has
  <1>7. pages' \in 0..MaxPages /\ acc' = acc \cup p
    BY <1>1, <1>4, SeriesConstants DEF OlderStep
  <1>8. CASE pc' = "done" /\ result' = Cut(acc \cup p, ask.limit)
    <2>1. Cut(acc \cup p, ask.limit) \in SUBSET Row
          /\ Cardinality(Cut(acc \cup p, ask.limit)) <= ask.limit
      BY <1>1, <1>6, CutFacts, AskFacts
    <2> QED BY <1>1, <1>2, <1>6, <1>7, <1>8, <2>1, ReturnKeeps
  <1>9. CASE pages + 1 < MaxPages /\ UNCHANGED <<pc, result>>
    <2>1. pages' < MaxPages
      BY <1>4, <1>9 DEF OlderStep
    <2>2. Types'
      BY <1>1, <1>2, <1>6, <1>7, <1>9, <2>1 DEF Types, AskOK, OnePerTime, Known, Has
    <2> QED BY <1>1, <1>2, <1>7, <1>9, <2>2
            DEF ReadInv, Starts, Paging, Walks, Olders, Anchored
  <1> QED BY <1>4, <1>8, <1>9 DEF OlderStep

\* A request that fails.
LEMMA FailureKeeps == ReadInv /\ (Rejected \/ Raises) => ReadInv'
  <1> SUFFICES ASSUME ReadInv, Rejected \/ Raises PROVE ReadInv'
    OBVIOUS
  <1>1. Types /\ AskOK /\ acc \in SUBSET Row /\ Known(acc \cup recent)
    BY DEF ReadInv, Types
  <1>2. UNCHANGED <<ask, first, at, total, recent, acc, pages, rows>>
    BY DEF Rejected, Raises, venue
  <1>3. CASE Raises
    <2>1. Types'
      BY <1>1, <1>2, <1>3 DEF Raises, Fails, Types, AskOK, OnePerTime, Known, Has
    <2> QED BY <1>3, <2>1 DEF Raises, ReadInv, Starts, Paging, Walks, Olders, Anchored
  <1>4. CASE Rejected
    <2>1. pc' = "done" /\ result' \in {PagedResult(acc), WalkResult(acc), {}}
      BY <1>4 DEF Rejected, Return
    <2>2. Cardinality({}) <= ask.limit
      BY <1>1, FS_EmptySet, AskFacts
    <2>3. result' \in SUBSET Row /\ Cardinality(result') <= ask.limit
      BY <1>1, <2>1, <2>2, PagedFacts, WalkFacts
    <2> QED BY <1>1, <1>2, <2>1, <2>3, ReturnKeeps DEF Types
  <1> QED BY <1>3, <1>4

\* What the venue does: the rows there were stay, in a newer version perhaps,
\* and a new row is newer than all of them.
LEMMA VenueMoves ==
    ASSUME ReadInv, Revised \/ NewRow
    PROVE  /\ UNCHANGED <<ask, pc, first, at, total, recent, acc, pages, result, short, faults>>
           /\ pc \notin {"done", "failed"}
           /\ rows' \in SUBSET Row /\ OnePerTime(rows')
           /\ \A r \in rows : Has(rows', r)
           /\ \A r \in rows' : \/ Has(rows, r)
                               \/ r[1] \in fresh' /\ \A q \in rows : q[1] < r[1]
           /\ fresh \subseteq fresh'
           /\ ask.shape.many => rows \subseteq rows'
           /\ \A r \in rows : (\E q \in rows : r[1] < q[1]) => r \in rows'
  <1>1. rows \in SUBSET Row /\ OnePerTime(rows) /\ rows # {}
        /\ UNCHANGED <<ask, pc, first, at, total, recent, acc, pages, result, short, faults>>
        /\ pc \notin {"done", "failed"}
    BY DEF ReadInv, Types, Revised, NewRow, Changes
  <1>2. /\ Latest(rows) \in Nat /\ \E m \in rows : m[1] = Latest(rows)
        /\ \A r \in rows : r[1] <= Latest(rows) /\ r[1] \in Nat
    BY <1>1, Ends, RowFacts
  <1>3. CASE Revised
    <2> DEFINE old == <<Latest(rows), 0>>
               new == <<Latest(rows), 1>>
    <2>1. /\ ~ask.shape.many /\ old \in rows /\ rows' = (rows \ {old}) \cup {new}
          /\ fresh' = fresh
      BY <1>3 DEF Revised
    <2>2. old[1] = Latest(rows) /\ new[1] = Latest(rows) /\ new \in Row
      BY <1>1, <2>1 DEF Row
    <2> HIDE DEF old, new
    <2>3. rows' \in SUBSET Row
      BY <1>1, <2>1, <2>2
    <2>4. OnePerTime(rows')
      BY <1>1, <2>1, <2>2 DEF OnePerTime
    <2>5. /\ \A r \in rows : Has(rows', r)
          /\ \A r \in rows' : Has(rows, r)
      BY <2>1, <2>2 DEF Has
    <2>6. \A r \in rows : (\E q \in rows : r[1] < q[1]) => r \in rows'
      BY <1>2, <2>1, <2>2
    <2> QED BY <1>1, <2>1, <2>3, <2>4, <2>5, <2>6
  <1>4. CASE NewRow
    <2> DEFINE new == <<Latest(rows) + 1, 0>>
    <2>1. rows' = rows \cup {new} /\ fresh' = fresh \cup {Latest(rows) + 1} /\ Latest(rows) < Now
      BY <1>4 DEF NewRow
    <2>2. new[1] = Latest(rows) + 1 /\ new \in Row
      BY <1>1, <1>2, <2>1, RowFacts DEF Row, Times
    <2> HIDE DEF new
    <2>3. \A q \in rows : q[1] < new[1]
      BY <1>2, <2>2
    <2>4. rows' \in SUBSET Row
      BY <1>1, <2>1, <2>2
    <2>5. OnePerTime(rows')
      BY <1>1, <1>2, <2>1, <2>2, <2>3 DEF OnePerTime
    <2>6. \A r \in rows : Has(rows', r) /\ Has(rows, r) /\ r \in rows'
      BY <2>1 DEF Has
    <2>7. \A r \in rows' : \/ Has(rows, r)
                           \/ r[1] \in fresh' /\ \A q \in rows : q[1] < r[1]
      BY <2>1, <2>2, <2>3, <2>6
    <2> QED BY <1>1, <2>1, <2>4, <2>5, <2>6, <2>7
  <1> QED BY <1>3, <1>4

\* A revision or a new row while the read is under way.
LEMMA ChangeKeeps == ReadInv /\ (Revised \/ NewRow) => ReadInv'
  <1> SUFFICES ASSUME ReadInv, Revised \/ NewRow PROVE ReadInv'
    OBVIOUS
  <1>1. /\ UNCHANGED <<ask, pc, first, at, total, recent, acc, pages, result, short, faults>>
        /\ rows' \in SUBSET Row /\ OnePerTime(rows')
        /\ \A r \in rows : Has(rows', r)
        /\ ask.shape.many => rows \subseteq rows'
    BY VenueMoves
  <1>2. \A q \in acc \cup recent : Has(rows', q)
    <2> SUFFICES ASSUME NEW q \in acc \cup recent PROVE Has(rows', q)
      OBVIOUS
    <2>1. Has(rows, q)
      BY DEF ReadInv, Types, Known
    <2> QED BY <1>1, <2>1 DEF Has
  <1>3. Types'
    BY <1>1, <1>2 DEF ReadInv, Types, AskOK, OnePerTime, Known, Has
  <1>4. Anchor' = Anchor
    BY <1>1 DEF Anchor
  <1> QED BY <1>1, <1>3, <1>4
          DEF ReadInv, Starts, Paging, Walks, Olders, Anchored, Before, Heeds

\* Every step keeps the state of a read.
LEMMA ReadStep == ReadInv /\ [Next]_vars => ReadInv'
  <1> SUFFICES ASSUME ReadInv, [Next]_vars PROVE ReadInv'
    OBVIOUS
  <1>1. CASE UNCHANGED vars
    BY <1>1 DEF vars, ReadInv, Types, Starts, Paging, Walks, Olders, Anchored, AskOK, OnePerTime,
       Known, Has, Before, Heeds, Anchor
  <1> QED BY <1>1, DirectKeeps, BulkKeeps, NextPageKeeps, RecentKeeps, WalkKeeps, AnchoredKeeps,
             FundingKeeps, OlderKeeps, FailureKeeps, ChangeKeeps
          DEF Next, Ended

\* Whether the venue keeps to anchors is settled by the call.
LEMMA HeedsStays == [Next]_vars => (Heeds' <=> Heeds)
  <1>1. [Next]_vars => UNCHANGED ask
    BY DEF Next, Direct, Bulk, NextPage, Recent, Walk, AnchoredWindow, RecentFunding,
       OlderFunding, Rejected, Raises, Revised, NewRow, Changes, Ended, vars
  <1> QED BY <1>1 DEF Heeds

\* The state of a read is an invariant of the specification.
LEMMA ReadAlways == Spec => []ReadInv
  BY ReadInit, ReadStep, PTL DEF Spec

\* A read returns rows of the venue, `limit` of them at most, within MaxPages pages.
THEOREM ReadsAreBounded == Spec => []TypeOK
  <1>1. ReadInv => TypeOK
    BY DEF ReadInv, Types, TypeOK, Row
  <1> QED BY <1>1, ReadAlways, PTL
-----------------------------------------------------------------------------
(* A read ends at its anchor *)

\* No row up to the anchor that was there all along is newer than S.
Tops(S) == \A r \in Settled : \E q \in S : r[1] <= q[1]

\* What a read reaches that nothing cut short: the newest row, or of a walk the
\* row before the one at which it ends.
Reaches(S) ==
    \/ Tops(S)
    \/ ask.shape.fetch \in {"walk", "cadence"} /\ short
    \/ /\ ask.shape.fetch = "walk"
       /\ \A r \in Settled : r[1] = WalkEnd(ask) \/ \E q \in S : r[1] <= q[1]

\* The first page that has rows has the newest, and no row that was there all
\* along turns up above them later.  A walk that goes on is not at its end yet.
EndInv ==
    /\ pc = "page" => /\ at # None /\ recent = {} => Tops(acc)
                      /\ recent # {} => Tops(recent)
    /\ pc = "older" => Tops(acc)
    /\ pc = "walk" /\ acc # {} => at < WalkEnd(ask)
    /\ pc = "done" => /\ Heeds => \A q \in result : Before(q, Anchor)
                      /\ result # {} => Reaches(result)

\* The rows that were there all along.
LEMMA SettledRows ==
    ASSUME rows \in SUBSET Row
    PROVE  \A r \in Settled : r \in rows /\ r \in Row /\ Before(r, Anchor) /\ r[1] \notin fresh
  BY DEF Settled, UpTo, Before

\* The top of the venue's rows up to the anchor, and the newest of rows that
\* reach the top.
LEMMA TopsOf ==
    ASSUME rows \in SUBSET Row, NEW S \in SUBSET Row
    PROVE  /\ (TopPart(S, Anchor) \/ TopPart(S, None)) /\ S # {} => Tops(S)
           /\ \A n \in Nat \ {0} : Tops(S) => Tops(Cut(S, n))
           /\ \A T \in SUBSET Row : Tops(S) => Tops(S \cup T)
  <1>1. ASSUME TopPart(S, Anchor) \/ TopPart(S, None), S # {} PROVE Tops(S)
    <2> SUFFICES ASSUME NEW r \in Settled PROVE \E q \in S : r[1] <= q[1]
      BY DEF Tops
    <2>1. PICK q \in S : TRUE
      BY <1>1
    <2>2. r[1] \in Nat /\ q[1] \in Nat
      BY SettledRows, RowFacts
    <2>3. q[1] < r[1] => r \in S
      BY <1>1, SettledRows DEF TopPart, Before
    <2> QED BY <2>2, <2>3
  <1>2. ASSUME NEW n \in Nat \ {0}, Tops(S) PROVE Tops(Cut(S, n))
    <2> SUFFICES ASSUME NEW r \in Settled PROVE \E m \in Cut(S, n) : r[1] <= m[1]
      BY DEF Tops
    <2>1. PICK q \in S : r[1] <= q[1]
      BY <1>2 DEF Tops
    <2>2. PICK m \in Cut(S, n) : q[1] <= m[1]
      BY CutFacts
    <2>3. r[1] \in Nat /\ q[1] \in Nat /\ m[1] \in Nat
      BY SettledRows, CutFacts, RowFacts
    <2> QED BY <2>1, <2>2, <2>3
  <1>3. \A T \in SUBSET Row : Tops(S) => Tops(S \cup T)
    BY DEF Tops
  <1> QED BY <1>1, <1>2, <1>3

\* What the pagination returns reaches the top if what it has does.
LEMMA PagedTops ==
    ASSUME ReadInv, pc = "page", NEW S \in SUBSET Row,
           Heeds => \A q \in S : Before(q, Anchor),
           recent = {} /\ S # {} => Tops(S),
           recent # {} => Tops(recent)
    PROVE  /\ Heeds => \A q \in PagedResult(S) : Before(q, Anchor)
           /\ PagedResult(S) # {} => Tops(PagedResult(S))
  <1>1. Types /\ rows \in SUBSET Row /\ recent \in SUBSET Row
        /\ ask.limit \in Nat \ {0} /\ total \in Nat \ {0}
    BY AskFacts DEF ReadInv, Types
  <1>2. PagedResult(S) \in SUBSET (S \cup recent)
    BY <1>1, PagedFacts
  <1>3. Heeds => \A q \in PagedResult(S) : Before(q, Anchor)
    BY <1>2 DEF ReadInv, Anchored
  <1>4. ASSUME recent = {}, PagedResult(S) # {} PROVE Tops(PagedResult(S))
    <2>1. S # {}
      BY <1>2, <1>4
    <2> QED BY <1>1, <1>4, <2>1, TopsOf DEF PagedResult
  <1>5. ASSUME recent # {} PROVE Tops(PagedResult(S))
    <2> DEFINE C == Combined(Cut(S, total))
    <2>1. C \in SUBSET Row /\ recent \subseteq C
      BY <1>1, CutFacts DEF Combined
    <2>2. Tops(C)
      BY <1>5, <2>1 DEF Tops
    <2> HIDE DEF C
    <2>3. Tops(Cut(C, ask.limit))
      BY <1>1, <2>1, <2>2, TopsOf
    <2> QED BY <1>5, <2>3 DEF C, PagedResult
  <1> QED BY <1>3, <1>4, <1>5

\* A page keeps the top.
LEMMA PageTops ==
    ASSUME ReadInv, EndInv, pc = "page", NEW p \in Page(End, PageRows), ~(p \subseteq acc)
    PROVE  recent = {} => Tops(acc \cup p)
  <1>1. /\ TopPart(p, End) \/ TopPart(p, None)
        /\ p \in SUBSET Row /\ p # {}
        /\ acc \in SUBSET Row /\ rows \in SUBSET Row
    BY PageAdds, PageAnchor
  <1> SUFFICES ASSUME recent = {} PROVE Tops(acc \cup p)
    OBVIOUS
  <1>2. CASE at = None
    <2>1. End = Anchor
      BY <1>2 DEF End, ReadInv, Paging
    <2>2. Tops(p)
      BY <1>1, <2>1, TopsOf
    <2> QED BY <2>2 DEF Tops
  <1>3. CASE at # None
    BY <1>1, <1>3, TopsOf DEF EndInv
  <1> QED BY <1>2, <1>3

\* What a walk returns that nothing cut short.
LEMMA WalkReaches ==
    ASSUME ReadInv, EndInv, pc = "walk", NEW S \in {acc, acc \cup WalkPage},
           \/ WalkPage = {}
           \/ S = acc \cup WalkPage /\ \E b \in WalkPage : b[1] >= WalkEnd(ask) - 1,
           WalkResult(S) # {},
           NEW r \in Settled
    PROVE  r[1] = WalkEnd(ask) \/ \E q \in WalkResult(S) : r[1] <= q[1]
  <1>1. /\ rows \in SUBSET Row /\ acc \in SUBSET Row /\ S \in SUBSET Row /\ AskOK
        /\ WalkPage \in SUBSET Row /\ at \in Int /\ acc \subseteq S
        /\ \A q \in WalkPage : at <= q[1]
    BY WalkAdds
  <1>2. r \in rows /\ r \in Row /\ Before(r, Anchor) /\ r[1] \in First..Now
    BY <1>1, SettledRows DEF Row, Times
  <1>3. /\ WalkEnd(ask) \in Nat /\ r[1] \in Nat /\ r[1] <= WalkEnd(ask)
        /\ Anchor = None \/ (Anchor \in Nat /\ Anchor = WalkEnd(ask))
    <2>1. ask.start = None \/ ask.start \in Nat
      BY <1>1, AskFacts
    <2> QED BY <1>2, <2>1, SeriesAssumption DEF Anchor, WalkEnd, Before
  <1>4. ASSUME NEW q \in S, r[1] <= q[1], Before(q, Anchor)
        PROVE  \E m \in WalkResult(S) : r[1] <= m[1]
    <2>1. q \in UpTo(S, Anchor) /\ UpTo(S, Anchor) \in SUBSET Row /\ ask.limit \in Nat \ {0}
      BY <1>1, <1>4, WalkFacts, AskFacts DEF UpTo, Before
    <2>2. PICK m \in WalkResult(S) : q[1] <= m[1]
      BY <2>1, CutFacts DEF WalkResult
    <2>3. q[1] \in Nat /\ m[1] \in Nat
      BY <1>1, WalkFacts, RowFacts
    <2> QED BY <1>3, <1>4, <2>2, <2>3
  <1>5. CASE r[1] < at /\ acc # {}
    <2>1. PICK a \in acc : a[1] = at - 1
      BY <1>5 DEF ReadInv, Walks
    <2>2. at < WalkEnd(ask)
      BY <1>5 DEF EndInv
    <2>3. r[1] <= a[1] /\ Before(a, Anchor)
      BY <1>1, <1>3, <1>5, <2>1, <2>2 DEF Before
    <2> QED BY <1>1, <1>4, <2>1, <2>3
  <1>6. CASE r[1] < at /\ acc = {}
    <2>1. PICK q \in WalkResult(S) : q \in WalkPage
      BY <1>1, <1>6, WalkFacts
    <2>2. at <= q[1] /\ q[1] \in Nat
      BY <1>1, <2>1, RowFacts
    <2> QED BY <1>1, <1>3, <1>6, <2>1, <2>2
  <1>7. CASE at <= r[1]
    <2>1. WalkPage # {}
      <3> DEFINE T == {q \in rows : q[1] >= at}
      <3>1. r \in T /\ T \in SUBSET Row /\ WalkPage = Earliest(T, PageSize)
        BY <1>1, <1>2, <1>3, <1>7 DEF WalkPage
      <3> HIDE DEF T
      <3>2. T # {} /\ PageSize \in Nat /\ PageSize > 0
        BY <3>1, SeriesConstants
      <3> QED BY <3>1, <3>2, EarliestFacts
    <2>2. PICK b \in WalkPage : S = acc \cup WalkPage /\ b[1] >= WalkEnd(ask) - 1
      BY <2>1
    <2>3. b[1] \in Nat /\ b \in S
      BY <1>1, <2>2, RowFacts
    <2>4. CASE Before(b, Anchor)
      <3>1. r[1] = WalkEnd(ask) \/ r[1] <= b[1]
        BY <1>3, <2>2, <2>3
      <3> QED BY <1>4, <2>3, <2>4, <3>1
    <2>5. CASE ~Before(b, Anchor)
      <3>1. r[1] < b[1]
        BY <1>2, <1>3, <2>3, <2>5 DEF Before
      <3>2. r \in WalkPage
        BY <1>2, <1>7, <3>1, WalkAdds
      <3>3. r \in S /\ r[1] <= r[1]
        BY <1>3, <2>2, <3>2
      <3> QED BY <1>2, <1>4, <3>3
    <2> QED BY <2>4, <2>5
  <1> QED BY <1>1, <1>3, <1>5, <1>6, <1>7

\* Every step keeps what is needed for the end of a read.
LEMMA EndStep == ReadInv /\ EndInv /\ [Next]_vars => EndInv'
  <1> SUFFICES ASSUME ReadInv, EndInv, [Next]_vars PROVE EndInv'
    OBVIOUS
  <1>1. rows \in SUBSET Row /\ acc \in SUBSET Row /\ AskOK /\ Types
        /\ ask.limit \in Nat \ {0} /\ (Anchor = None \/ Anchor \in Nat)
    BY AskFacts DEF ReadInv, Types
  <1>2. UNCHANGED ask
    BY DEF Next, Direct, Bulk, NextPage, Recent, Walk, AnchoredWindow, RecentFunding,
       OlderFunding, Rejected, Raises, Revised, NewRow, Changes, Ended, vars
  <1>3. Anchor' = Anchor
    BY <1>2 DEF Anchor
  <1>4. ASSUME UNCHANGED <<rows, fresh>> PROVE \A S : Tops(S)' <=> Tops(S')
    BY <1>3, <1>4 DEF Tops, Settled, UpTo
  <1>0. Tops(result)' => Reaches(result)'
    BY DEF Reaches
  <1>5. CASE Direct
    <2>1. PICK p \in (IF ask.shape.fetch = "recent" THEN {RecentPage(None, ask.limit)}
                      ELSE Page(None, ask.limit)) : Return(Cut(p, ask.limit), FALSE)
      BY <1>5 DEF Direct
    <2>2. Anchor = None /\ TopPart(p, Anchor) /\ p \in SUBSET Row
      BY <1>1, <1>5, <2>1, OtherPages DEF Direct, ReadInv, Starts, TopPart
    <2>3. Cut(p, ask.limit) \in SUBSET p
      BY <1>1, <2>2, CutFacts
    <2>4. p # {} => Tops(Cut(p, ask.limit))
      BY <1>1, <2>2, TopsOf
    <2>5. pc' = "done" /\ result' = Cut(p, ask.limit) /\ UNCHANGED <<rows, fresh>>
      BY <1>5, <2>1 DEF Direct, Return, venue
    <2>6. result' # {} => Tops(result)'
      BY <1>4, <2>3, <2>4, <2>5
    <2> QED BY <1>0, <1>3, <2>2, <2>5, <2>6 DEF EndInv, Before
  <1>6. CASE Bulk
    <2>1. PICK since \in {0, WalkEnd(ask) - ask.limit} :
             Return(Cut(UpTo({r \in Newest(rows, VenueKeeps) : r[1] >= since}, Anchor), ask.limit),
                    FALSE)
      BY <1>6 DEF Bulk
    <2> DEFINE p == UpTo({r \in Newest(rows, VenueKeeps) : r[1] >= since}, Anchor)
    <2>2. TopPart(p, Anchor)
      BY <1>1, OtherPages
    <2>3. pc' = "done" /\ result' = Cut(p, ask.limit) /\ UNCHANGED <<rows, fresh>>
      BY <1>6, <2>1 DEF Bulk, Return, venue
    <2> HIDE DEF p
    <2>4. p \in SUBSET Row /\ \A q \in p : Before(q, Anchor)
      BY <1>1, <2>2 DEF TopPart
    <2>5. Cut(p, ask.limit) \in SUBSET p
      BY <1>1, <2>4, CutFacts
    <2>6. p # {} => Tops(Cut(p, ask.limit))
      BY <1>1, <2>2, <2>4, TopsOf
    <2>7. result' # {} => Tops(result)'
      BY <1>4, <2>3, <2>5, <2>6
    <2> QED BY <1>0, <1>3, <2>3, <2>4, <2>5, <2>7 DEF EndInv, Before
  <1>7. CASE NextPage
    <2>1. pc = "page" /\ UNCHANGED <<recent, rows, fresh>>
      BY <1>7, PageOutcomes
    <2>2. PICK p \in Page(End, PageRows) : NothingNew(p) \/ LastPage(p) \/ OnePage(p)
      BY <1>7, PageOutcomes
    <2>3. recent # {} => Tops(recent)
      BY <2>1 DEF EndInv
    <2>4. CASE NothingNew(p)
      <3>1. pc' = "done" /\ result' = PagedResult(acc)
        BY <2>4 DEF NothingNew, Return
      <3>2. /\ Heeds => \A q \in acc : Before(q, Anchor)
            /\ recent = {} /\ acc # {} => Tops(acc)
        BY <2>1 DEF ReadInv, Anchored, Paging, EndInv
      <3>3. /\ Heeds => \A q \in PagedResult(acc) : Before(q, Anchor)
            /\ PagedResult(acc) # {} => Tops(PagedResult(acc))
        BY <1>1, <2>1, <2>3, <3>2, PagedTops
      <3>4. result' # {} => Tops(result)'
        BY <1>4, <2>1, <3>1, <3>3
      <3> QED BY <1>0, <1>2, <1>3, <3>1, <3>3, <3>4 DEF EndInv, Before, Heeds
    <2>5. CASE LastPage(p)
      <3>1. pc' = "done" /\ result' = PagedResult(acc \cup p) /\ ~(p \subseteq acc)
        BY <2>5 DEF LastPage, Return
      <3>2. acc \cup p \in SUBSET Row /\ (Heeds => \A q \in acc \cup p : Before(q, Anchor))
        BY <2>1, PageAdds, PageAnchor
      <3>3. recent = {} => Tops(acc \cup p)
        BY <2>1, <3>1, PageTops
      <3>4. /\ Heeds => \A q \in PagedResult(acc \cup p) : Before(q, Anchor)
            /\ PagedResult(acc \cup p) # {} => Tops(PagedResult(acc \cup p))
        BY <2>1, <2>3, <3>2, <3>3, PagedTops
      <3>5. result' # {} => Tops(result)'
        BY <1>4, <2>1, <3>1, <3>4
      <3> QED BY <1>0, <1>2, <1>3, <3>1, <3>4, <3>5 DEF EndInv, Before, Heeds
    <2>6. CASE OnePage(p)
      <3>1. pc' = "page" /\ acc' = acc \cup p /\ ~(p \subseteq acc)
        BY <2>1, <2>6 DEF OnePage
      <3>2. recent = {} => Tops(acc \cup p)
        BY <2>1, <3>1, PageTops
      <3>3. (recent = {} => Tops(acc)') /\ (recent # {} => Tops(recent)')
        BY <1>4, <2>1, <2>3, <3>1, <3>2
      <3> QED BY <2>1, <3>1, <3>3 DEF EndInv
    <2> QED BY <2>2, <2>4, <2>5, <2>6
  <1>8. CASE Recent
    <2>1. pc = "recent" /\ UNCHANGED <<at, acc, rows, fresh>>
      BY <1>8, RecentOutcomes
    <2>2. at = None /\ recent = {}
      BY <2>1 DEF ReadInv, Starts
    <2>3. /\ TopPart(RecentRows, Anchor) /\ RecentRows \in SUBSET Row
          /\ \A q \in RecentRows : Before(q, Anchor)
      BY <2>1, RecentAdds DEF TopPart
    <2>4. CASE NoRecent
      BY <2>1, <2>2, <2>4 DEF NoRecent, EndInv
    <2>5. CASE RecentIsAll
      <3>1. pc' = "done" /\ result' = Cut(RecentRows, ask.limit) /\ RecentRows # {}
        BY <2>5 DEF RecentIsAll, Return
      <3>2. Cut(RecentRows, ask.limit) \in SUBSET RecentRows
        BY <1>1, <2>3, CutFacts
      <3>3. Tops(Cut(RecentRows, ask.limit))
        BY <1>1, <2>3, <3>1, TopsOf
      <3>4. Tops(result)'
        BY <1>4, <2>1, <3>1, <3>3
      <3> QED BY <1>0, <1>3, <2>3, <3>1, <3>2, <3>4 DEF EndInv, Before
    <2>6. CASE RecentFirst
      <3>1. pc' = "page" /\ recent' = RecentRows /\ RecentRows # {}
        BY <2>6 DEF RecentFirst
      <3>2. Tops(RecentRows)
        BY <1>1, <2>3, <3>1, TopsOf
      <3>3. Tops(recent)'
        BY <1>4, <2>1, <3>1, <3>2
      <3> QED BY <2>1, <2>2, <3>1, <3>3 DEF EndInv
    <2> QED BY <1>8, <2>4, <2>5, <2>6, RecentOutcomes
  <1>9. CASE Walk
    <2>1. pc = "walk" /\ ask.shape.fetch = "walk"
      BY <1>9 DEF Walk, ReadInv, Walks
    <2>2. acc \cup WalkPage \in SUBSET Row /\ WalkPage \in SUBSET Row
      BY <2>1, WalkAdds
    <2>3. /\ UNCHANGED <<rows, fresh>>
          /\ WalkEnds \/ WalkArrives \/ WalkGoes
      BY <1>9, WalkOutcomes
    <2>4. \A q \in WalkResult(acc) \cup WalkResult(acc \cup WalkPage) : Before(q, Anchor)
      BY <1>1, <2>2, WalkFacts
    <2>5. Settled' = Settled /\ WalkEnd(ask)' = WalkEnd(ask)
      BY <1>2, <1>3, <2>3 DEF Settled, UpTo, WalkEnd
    <2>6. CASE WalkEnds
      <3>1. pc' = "done" /\ result' = WalkResult(acc) /\ WalkPage = {}
        BY <2>6 DEF WalkEnds, Return
      <3>2. result' # {} =>
              \A r \in Settled : r[1] = WalkEnd(ask) \/ \E q \in result' : r[1] <= q[1]
        BY <2>1, <3>1, WalkReaches
      <3>3. result' # {} => Reaches(result)'
        BY <1>2, <2>1, <2>5, <3>2 DEF Reaches
      <3> QED BY <1>3, <2>4, <3>1, <3>3 DEF EndInv, Before
    <2>7. CASE WalkArrives
      <3>1. /\ pc' = "done" /\ result' = WalkResult(acc \cup WalkPage) /\ WalkPage # {}
            /\ short' = (Latest(WalkPage) < WalkEnd(ask) - 1)
        BY <2>7 DEF WalkArrives, Return
      <3>2. PICK b \in WalkPage : b[1] = Latest(WalkPage) /\ b[1] \in Nat
        BY <2>2, <3>1, Ends
      <3>3. ~short' => b[1] >= WalkEnd(ask) - 1
        <4>1. ~short' => ~(Latest(WalkPage) < WalkEnd(ask) - 1)
          BY <3>1, Zenon
        <4>2. WalkEnd(ask) \in Nat
          BY <1>1, AskFacts
        <4> QED BY <3>2, <4>1, <4>2
      <3>4. ~short' /\ result' # {} =>
              \A r \in Settled : r[1] = WalkEnd(ask) \/ \E q \in result' : r[1] <= q[1]
        BY <2>1, <3>1, <3>3, WalkReaches
      <3>5. result' # {} => Reaches(result)'
        BY <1>2, <2>1, <2>5, <3>4 DEF Reaches
      <3> QED BY <1>3, <2>4, <3>1, <3>5 DEF EndInv, Before
    <2>8. CASE WalkGoes
      <3>1. /\ pc' = "walk" /\ at' = Latest(WalkPage) + 1
            /\ WalkPage # {} /\ ~(Latest(WalkPage) >= WalkEnd(ask) - 1)
        BY <2>1, <2>8 DEF WalkGoes
      <3>2. Latest(WalkPage) \in Nat /\ WalkEnd(ask) \in Nat
        BY <1>1, <2>2, <3>1, Ends, AskFacts
      <3>3. at' < WalkEnd(ask)'
        BY <2>5, <3>1, <3>2
      <3> QED BY <3>1, <3>3 DEF EndInv
    <2> QED BY <2>3, <2>6, <2>7, <2>8
  <1>10. CASE AnchoredWindow
    <2>1. pc = "cadence" /\ ask.start # None /\ ask.shape.fetch = "cadence"
      BY <1>10, AnchoredOutcome DEF ReadInv, Starts
    <2>2. PICK lo \in Int : \E p \in Window(lo, ask.start, WindowRows) :
             Return(Cut(p, ask.limit), Cardinality(Between(lo, ask.start)) > WindowRows)
      BY <1>10, AnchoredOutcome
    <2>3. PICK p \in Window(lo, ask.start, WindowRows) :
             Return(Cut(p, ask.limit), Cardinality(Between(lo, ask.start)) > WindowRows)
      BY <2>2
    <2>4. WindowRows \in Nat /\ ask.start \in Nat /\ (Anchor = None \/ Anchor = ask.start)
      BY <1>1, <2>1, OtherPages, AskFacts DEF WindowRows
    <2>5. p \in SUBSET Between(lo, ask.start) /\ p \in SUBSET Row
      BY <1>1, <2>4, WindowFacts
    <2>6. Cut(p, ask.limit) \in SUBSET p
      BY <1>1, <2>5, CutFacts
    <2>7. \A q \in Cut(p, ask.limit) : Before(q, Anchor)
      BY <1>1, <2>4, <2>5, <2>6, RowFacts DEF Between, Before
    <2>8. /\ pc' = "done" /\ result' = Cut(p, ask.limit) /\ UNCHANGED <<rows, fresh>>
          /\ short' = (Cardinality(Between(lo, ask.start)) > WindowRows)
      BY <1>10, <2>3, AnchoredOutcome DEF Return
    <2>9. ASSUME ~short', result' # {} PROVE Tops(result)'
      <3>1. p = Between(lo, ask.start)
        <4>1. ~(Cardinality(Between(lo, ask.start)) > WindowRows)
          BY <2>8, <2>9, Zenon
        <4>2. /\ Cardinality(Between(lo, ask.start)) \in Nat
              /\ Cardinality(Between(lo, ask.start)) <= WindowRows => p = Between(lo, ask.start)
          BY <1>1, <2>4, WindowFacts
        <4> QED BY <2>4, <4>1, <4>2
      <3>2. PICK q \in p : TRUE
        BY <2>6, <2>8, <2>9
      <3>3. q[1] \in First..Now /\ q[1] \in lo..ask.start
        BY <2>5, <3>1, <3>2 DEF Between, Row, Times
      <3>4. Anchor = ask.start
        BY <2>4, <3>3, SeriesAssumption DEF Anchor
      <3>5. Tops(p)
        <4> SUFFICES ASSUME NEW r \in Settled PROVE \E m \in p : r[1] <= m[1]
          BY DEF Tops
        <4>1. r \in rows /\ r[1] \in Nat /\ r[1] <= ask.start
          BY <1>1, <2>4, <3>4, SettledRows, RowFacts, SeriesConstants DEF Before
        <4>2. CASE r[1] < lo
          BY <3>2, <3>3, <4>1, <4>2, SeriesAssumption
        <4>3. CASE ~(r[1] < lo)
          <5>1. r \in p
            BY <2>4, <3>1, <4>1, <4>3 DEF Between
          <5> QED BY <4>1, <5>1
        <4> QED BY <4>2, <4>3
      <3>6. Tops(Cut(p, ask.limit))
        BY <1>1, <2>5, <3>5, TopsOf
      <3> QED BY <1>4, <2>8, <3>6
    <2>10. result' # {} => Reaches(result)'
      BY <1>2, <2>1, <2>9 DEF Reaches
    <2> QED BY <1>3, <2>7, <2>8, <2>10 DEF EndInv, Before
  <1>11. CASE RecentFunding
    <2>1. /\ Anchor = None /\ ask.shape.fetch = "cadence" /\ UNCHANGED <<rows, fresh>>
          /\ FundingIsAll \/ FundingFirst \/ NoFunding
          /\ FundingRows \in SUBSET Row /\ TopPart(FundingRows, None)
      BY <1>1, <1>11, FundingOutcomes, AskFacts
    <2>2. /\ FundingRows # {} => Tops(FundingRows) /\ Tops(Cut(FundingRows, ask.limit))
          /\ Cut(FundingRows, ask.limit) \in SUBSET FundingRows
      BY <1>1, <2>1, TopsOf, CutFacts
    <2>3. CASE FundingIsAll
      <3>1. pc' = "done" /\ result' = Cut(FundingRows, ask.limit)
        BY <2>3 DEF FundingIsAll, Return
      <3>2. result' # {} => Tops(result)'
        BY <1>4, <2>1, <2>2, <3>1
      <3> QED BY <1>0, <1>3, <2>1, <3>1, <3>2 DEF EndInv, Before
    <2>4. CASE FundingFirst
      <3>1. pc' = "older" /\ acc' = FundingRows /\ FundingRows # {}
        BY <2>4 DEF FundingFirst
      <3>2. Tops(acc)'
        BY <1>4, <2>1, <2>2, <3>1
      <3> QED BY <3>1, <3>2 DEF EndInv
    <2>5. CASE NoFunding
      BY <2>5 DEF NoFunding, EndInv
    <2> QED BY <2>1, <2>3, <2>4, <2>5
  <1>12. CASE OlderFunding
    <2>1. /\ Anchor = None /\ ask.shape.fetch = "cadence" /\ pc = "older"
          /\ UNCHANGED <<rows, fresh>> /\ acc \in SUBSET Row
      BY <1>1, <1>12, OlderOutcome, AskFacts DEF ReadInv, Types
    <2>2. PICK lo, hi : \E p \in Window(lo, hi, PageSize) : OlderStep(lo, hi, p)
      BY <1>12, OlderOutcome
    <2>3. PICK p \in Window(lo, hi, PageSize) : OlderStep(lo, hi, p)
      BY <2>2
    <2>4. p \in SUBSET Row
      BY <1>1, WindowFacts, SeriesConstants
    <2>5. Tops(acc \cup p) /\ Tops(Cut(acc \cup p, ask.limit))
      BY <1>1, <2>1, <2>4, TopsOf DEF EndInv
    <2>6. CASE pc' = "done" /\ result' = Cut(acc \cup p, ask.limit)
      <3>1. Tops(result)'
        BY <1>4, <2>1, <2>5, <2>6
      <3> QED BY <1>0, <1>3, <2>1, <2>6, <3>1 DEF EndInv, Before
    <2>7. CASE UNCHANGED <<pc, result>>
      <3>1. pc' = "older" /\ acc' = acc \cup p
        BY <2>1, <2>3, <2>7 DEF OlderStep
      <3>2. Tops(acc)'
        BY <1>4, <2>1, <2>5, <3>1
      <3> QED BY <3>1, <3>2 DEF EndInv
    <2> QED BY <2>3, <2>6, <2>7 DEF OlderStep
  <1>13. CASE Rejected
    <2>1. pc' = "done" /\ UNCHANGED <<recent, acc, rows, fresh>>
      BY <1>13 DEF Rejected, Return, venue
    <2>2. CASE pc = "page" /\ result' = PagedResult(acc)
      <3>1. /\ Heeds => \A q \in acc : Before(q, Anchor)
            /\ recent = {} /\ acc # {} => Tops(acc)
            /\ recent # {} => Tops(recent)
        BY <2>2 DEF ReadInv, Anchored, Paging, EndInv
      <3>2. /\ Heeds => \A q \in PagedResult(acc) : Before(q, Anchor)
            /\ PagedResult(acc) # {} => Tops(PagedResult(acc))
        BY <1>1, <2>2, <3>1, PagedTops
      <3>3. result' # {} => Tops(result)'
        BY <1>4, <2>1, <2>2, <3>2
      <3> QED BY <1>0, <1>2, <1>3, <2>1, <2>2, <3>2, <3>3 DEF EndInv, Before, Heeds
    <2>3. CASE pc = "walk" /\ result' = WalkResult(acc) /\ short'
      <3>1. ask.shape.fetch = "walk" /\ \A q \in result' : Before(q, Anchor)
        BY <1>1, <2>3, WalkFacts DEF ReadInv, Walks
      <3>2. Reaches(result)'
        BY <1>2, <2>3, <3>1 DEF Reaches
      <3> QED BY <1>3, <2>1, <3>1, <3>2 DEF EndInv, Before
    <2>4. CASE result' = {}
      BY <2>1, <2>4 DEF EndInv
    <2> QED BY <1>13, <2>2, <2>3, <2>4 DEF Rejected, Return
  <1>14. CASE Raises
    BY <1>14 DEF Raises, EndInv
  <1>15. CASE Revised \/ NewRow
    <2>1. /\ UNCHANGED <<pc, at, recent, acc>> /\ WalkEnd(ask)' = WalkEnd(ask) /\ pc \notin {"done", "failed"}
          /\ rows' \in SUBSET Row /\ fresh \subseteq fresh'
          /\ \A r \in rows' : \/ Has(rows, r)
                              \/ r[1] \in fresh' /\ \A q \in rows : q[1] < r[1]
      BY <1>2, <1>15, VenueMoves DEF WalkEnd
    <2>2. ASSUME NEW r \in Settled' PROVE \E q \in Settled : q[1] = r[1]
      <3>1. r \in rows' /\ Before(r, Anchor) /\ r[1] \notin fresh'
        BY <1>3 DEF Settled, UpTo, Before
      <3>2. Has(rows, r)
        BY <2>1, <3>1
      <3>3. PICK q \in rows : q[1] = r[1]
        BY <3>2 DEF Has
      <3>4. q \in Settled
        BY <2>1, <3>1, <3>3 DEF Settled, UpTo, Before
      <3> QED BY <3>3, <3>4
    <2>3. \A S : Tops(S) => (\A r \in Settled' : \E q \in S : r[1] <= q[1])
      <3> SUFFICES ASSUME NEW S, Tops(S), NEW r \in Settled' PROVE \E q \in S : r[1] <= q[1]
        OBVIOUS
      <3>1. PICK q \in Settled : q[1] = r[1]
        BY <2>2
      <3> QED BY <3>1 DEF Tops
    <2>4. (Tops(acc) => Tops(acc)') /\ (Tops(recent) => Tops(recent)')
      BY <2>1, <2>3 DEF Tops
    <2> QED BY <2>1, <2>4 DEF EndInv
  <1>16. CASE UNCHANGED vars
    <2>1. (Tops(acc)' <=> Tops(acc)) /\ (Tops(recent)' <=> Tops(recent))
          /\ (Reaches(result)' <=> Reaches(result)) /\ WalkEnd(ask)' = WalkEnd(ask)
      BY <1>3, <1>16 DEF vars, Tops, Reaches, Settled, UpTo, WalkEnd
    <2> QED BY <1>3, <1>16, <2>1 DEF vars, EndInv, Before, Heeds
  <1> QED BY <1>5, <1>6, <1>7, <1>8, <1>9, <1>10, <1>11, <1>12, <1>13, <1>14, <1>15, <1>16
          DEF Next, Ended

\* A read that returns anything ends with the newest row at or before its
\* anchor, whatever page failed and whatever the venue changed meanwhile.  A
\* walk may miss the row at which it ends, a walk or a funding read that was cut
\* short later rows too, and a venue that ignores the anchor sends rows past it.
THEOREM ReadsEndAtAnchor == Spec => []EndsAtAnchor
  <1>1. Init => EndInv
    <2> SUFFICES ASSUME Init PROVE EndInv
      OBVIOUS
    <2>1. ReadInv
      BY ReadInit
    <2>2. pc \notin {"done", "older"} /\ recent = {} /\ acc = {} /\ (pc = "page" => at = None)
      BY <2>1, AskFacts DEF Init, Begin, ReadInv, Types, Fits
    <2> QED BY <2>2 DEF EndInv
  <1>2. ReadInv /\ EndInv => EndsAtAnchor
    <2> SUFFICES ASSUME ReadInv, EndInv, pc = "done", result # {}
                 PROVE  /\ Heeds => UpTo(result, Anchor) = result
                        /\ \A r \in Settled :
                              \/ r[1] <= Latest(result)
                              \/ ask.shape.fetch \in {"walk", "cadence"} /\ short
                              \/ ask.shape.fetch = "walk" /\ r[1] = WalkEnd(ask)
      BY DEF EndsAtAnchor, Heeds
    <2>1. rows \in SUBSET Row /\ result \in SUBSET Row
      BY DEF ReadInv, Types
    <2>2. Heeds => UpTo(result, Anchor) = result
      BY DEF EndInv, UpTo, Before
    <2>3. ASSUME NEW r \in Settled,
                 ~(ask.shape.fetch \in {"walk", "cadence"} /\ short),
                 ~(ask.shape.fetch = "walk" /\ r[1] = WalkEnd(ask))
          PROVE  r[1] <= Latest(result)
      <3>1. PICK q \in result : r[1] <= q[1]
        BY <2>3 DEF EndInv, Reaches, Tops
      <3>2. q[1] <= Latest(result) /\ Latest(result) \in Nat
        BY <2>1, Ends
      <3>3. r[1] \in Nat /\ q[1] \in Nat
        BY <2>1, SettledRows, RowFacts
      <3> QED BY <3>1, <3>2, <3>3
    <2> QED BY <2>2, <2>3
  <1> QED BY <1>1, <1>2, EndStep, ReadAlways, PTL DEF Spec
-----------------------------------------------------------------------------
(* A read leaves no hole *)

\* S has every row of the venue between two of its own.
Solid(S) ==
    \A r \in rows : \A a, b \in S : a[1] < r[1] /\ r[1] < b[1] => Has(S, r)

\* S has no hole, and none between itself and the recent page.
Joined(S) ==
    \A r \in rows :
        /\ \E a \in S : a[1] < r[1]
        /\ (\E b \in S : r[1] < b[1]) \/ (recent # {} /\ r[1] <= first)
        => Has(S, r)

\* The walk has every row between its first one and from_ts.
Passed == \A r \in rows : r[1] < at /\ (\E a \in acc : a[1] < r[1]) => Has(acc, r)

HoleInv ==
    /\ Solid(recent)
    /\ pc = "page" => Joined(acc)
    /\ pc = "walk" => Passed
    /\ pc = "older" => short \/ Solid(acc)
    /\ pc = "done" => (ask.shape.fetch = "cadence" /\ short) \/ Solid(result)

\* The top of the venue's rows is solid, and what a cut or an anchor leaves of
\* solid rows is.
LEMMA SolidOf ==
    ASSUME rows \in SUBSET Row, NEW S \in SUBSET Row
    PROVE  /\ \A a : (a = None \/ a \in Nat) /\ TopPart(S, a) => Solid(S)
           /\ \A n \in Nat \ {0} : Solid(S) => Solid(Cut(S, n))
           /\ \A a : (a = None \/ a \in Nat) /\ Solid(S) => Solid(UpTo(S, a))
           /\ Solid({})
  <1>1. ASSUME NEW a, a = None \/ a \in Nat, TopPart(S, a) PROVE Solid(S)
    <2> SUFFICES ASSUME NEW r \in rows, NEW x \in S, NEW y \in S, x[1] < r[1], r[1] < y[1]
                 PROVE  Has(S, r)
      BY DEF Solid
    <2>1. r[1] \in Nat /\ y[1] \in Nat /\ Before(y, a)
      BY <1>1, RowFacts DEF TopPart
    <2>2. Before(r, a)
      BY <1>1, <2>1 DEF Before
    <2>3. r \in S
      BY <1>1, <2>2 DEF TopPart
    <2> QED BY <2>3 DEF Has
  <1>2. ASSUME NEW n \in Nat \ {0}, Solid(S) PROVE Solid(Cut(S, n))
    <2> SUFFICES ASSUME NEW r \in rows, NEW x \in Cut(S, n), NEW y \in Cut(S, n),
                        x[1] < r[1], r[1] < y[1]
                 PROVE  Has(Cut(S, n), r)
      BY DEF Solid
    <2>1. /\ Cut(S, n) \in SUBSET S
          /\ \A q \in S : x[1] < q[1] => q \in Cut(S, n)
      BY CutFacts
    <2>2. Has(S, r)
      BY <1>2, <2>1 DEF Solid
    <2> QED BY <2>1, <2>2 DEF Has
  <1>3. ASSUME NEW a, a = None \/ a \in Nat, Solid(S) PROVE Solid(UpTo(S, a))
    <2> SUFFICES ASSUME NEW r \in rows, NEW x \in UpTo(S, a), NEW y \in UpTo(S, a),
                        x[1] < r[1], r[1] < y[1]
                 PROVE  Has(UpTo(S, a), r)
      BY DEF Solid
    <2>1. x \in S /\ y \in S /\ (a # None => y[1] <= a)
      BY DEF UpTo
    <2>2. Has(S, r)
      BY <1>3, <2>1 DEF Solid
    <2>3. r[1] \in Nat /\ y[1] \in Nat
      BY <2>1, RowFacts
    <2>4. a # None => r[1] <= a
      BY <1>3, <2>1, <2>3
    <2> QED BY <2>2, <2>4 DEF Has, UpTo
  <1>4. Solid({})
    BY DEF Solid
  <1> QED BY <1>1, <1>2, <1>3, <1>4

\* What the pagination returns is solid when what it has is joined.
LEMMA PagedSolid ==
    ASSUME ReadInv, pc = "page", Solid(recent), NEW S \in SUBSET Row, Joined(S),
           \A q \in S : Before(q, first)
    PROVE  Solid(PagedResult(S))
  <1>1. Types /\ rows \in SUBSET Row /\ recent \in SUBSET Row
        /\ ask.limit \in Nat \ {0} /\ total \in Nat \ {0}
    BY AskFacts DEF ReadInv, Types
  <1>2. CASE recent = {}
    <2>1. Solid(S)
      BY DEF Joined, Solid
    <2> QED BY <1>1, <1>2, <2>1, SolidOf DEF PagedResult
  <1>3. CASE recent # {}
    <2> DEFINE T == Cut(S, total)
               C == Combined(T)
    <2>1. /\ T \in SUBSET S /\ T \in SUBSET Row
          /\ \A a \in T : \A q \in S : a[1] < q[1] => q \in T
      BY <1>1, CutFacts
    <2>2. /\ first = Oldest(recent) - 1 /\ first \in Nat /\ ~ask.shape.many
          /\ Oldest(recent) \in Nat /\ (\E m \in recent : m[1] = Oldest(recent))
          /\ \A q \in recent : Oldest(recent) <= q[1] /\ q[1] \in Nat
      BY <1>1, <1>3, Ends, PageAnchor, AskFacts, RowFacts DEF ReadInv, Paging, Fits, Types
    <2>3. \A q \in T : q[1] <= first /\ q[1] \in Nat
      BY <2>1, <2>2, RowFacts, SeriesConstants DEF Before
    <2> HIDE DEF T
    <2>4. recent \subseteq C /\ T \subseteq C /\ C \subseteq T \cup recent
      BY <2>2, <2>3 DEF Combined, TimesOf
    <2>5. C \in SUBSET Row
      BY <1>1, <2>1, <2>4
    <2> HIDE DEF C
    <2>6. Solid(C)
      <3> SUFFICES ASSUME NEW r \in rows, NEW a \in C, NEW b \in C, a[1] < r[1], r[1] < b[1]
                   PROVE  \E q \in C : q[1] = r[1]
        BY <2>2 DEF Solid, Has
      <3>1. r[1] \in Nat
        BY <1>1, RowFacts
      <3>2. CASE r[1] <= first
        <4>1. a \in T
          BY <2>2, <2>4, <3>1, <3>2
        <4>2. Has(S, r)
          BY <1>3, <2>1, <3>2, <4>1 DEF Joined
        <4>3. PICK q \in S : q[1] = r[1]
          BY <2>2, <4>2 DEF Has
        <4> QED BY <2>1, <2>4, <4>1, <4>3
      <3>3. CASE r[1] = Oldest(recent)
        BY <2>2, <2>4, <3>3
      <3>4. CASE r[1] > Oldest(recent)
        <4>1. b \in recent
          BY <2>2, <2>3, <2>4, <3>1, <3>4
        <4>2. Has(recent, r)
          BY <2>2, <3>4, <4>1 DEF Solid
        <4> QED BY <2>2, <2>4, <4>2 DEF Has
      <3> QED BY <2>2, <3>1, <3>2, <3>3, <3>4
    <2>7. Solid(Cut(C, ask.limit))
      BY <1>1, <2>5, <2>6, SolidOf
    <2> QED BY <1>3, <2>7 DEF PagedResult, C, T
  <1> QED BY <1>2, <1>3

\* A page meets what was read before it.
LEMMA PageJoins ==
    ASSUME ReadInv, Heeds, pc = "page", Joined(acc), NEW p \in Page(End, PageRows)
    PROVE  Joined(acc \cup p)
  <1>1. /\ TopPart(p, End) /\ p \in SUBSET Row /\ acc \in SUBSET Row /\ rows \in SUBSET Row
        /\ at = None \/ at \in Nat
        /\ first = None \/ first \in Nat
        /\ at # None => \A a \in p : a[1] <= at
        /\ recent # {} => first \in Nat
    BY PageAdds, PageAnchor
  <1> SUFFICES ASSUME NEW r \in rows, NEW a \in acc \cup p, a[1] < r[1],
                      (\E b \in acc \cup p : r[1] < b[1]) \/ (recent # {} /\ r[1] <= first)
               PROVE  Has(acc \cup p, r)
    BY DEF Joined
  <1>2. r[1] \in Nat /\ a[1] \in Nat /\ \A b \in acc \cup p : b[1] \in Nat
    BY <1>1, RowFacts
  <1>3. CASE at = None
    <2>1. acc = {} /\ End = first /\ \A b \in p : Before(b, first)
      BY <1>1, <1>3 DEF ReadInv, Paging, End, TopPart
    <2>2. Before(r, first)
      BY <1>1, <1>2, <2>1 DEF Before
    <2>3. r \in p
      BY <1>1, <2>1, <2>2 DEF TopPart
    <2> QED BY <2>3 DEF Has
  <1>4. CASE at # None
    <2>1. /\ End = at /\ (\E m \in acc : m[1] = at) /\ \A m \in acc : at <= m[1]
      BY <1>4 DEF ReadInv, Paging, End
    <2>2. CASE r[1] <= at
      <3>1. a \in p
        BY <1>1, <1>2, <1>4, <2>1, <2>2
      <3>2. r \in p
        BY <1>1, <2>1, <2>2, <3>1 DEF TopPart, Before
      <3> QED BY <3>2 DEF Has
    <2>3. CASE ~(r[1] <= at)
      <3>1. \A b \in p : ~(r[1] < b[1])
        BY <1>1, <1>2, <1>4, <2>3
      <3>2. \E m \in acc : m[1] < r[1]
        BY <1>1, <1>2, <1>4, <2>1, <2>3
      <3>3. Has(acc, r)
        BY <3>1, <3>2 DEF Joined
      <3> QED BY <3>3 DEF Has
    <2> QED BY <2>2, <2>3
  <1> QED BY <1>3, <1>4

\* A page of the walk follows what was read before it.
LEMMA WalkJoins ==
    ASSUME ReadInv, pc = "walk", Passed
    PROVE  /\ Solid(acc) /\ Solid(acc \cup WalkPage)
           /\ WalkPage # {} =>
                 \A r \in rows : /\ r[1] < Latest(WalkPage) + 1
                                 /\ \E a \in acc \cup WalkPage : a[1] < r[1]
                                 => Has(acc \cup WalkPage, r)
  <1>1. /\ rows \in SUBSET Row /\ WalkPage \in SUBSET Row /\ acc \in SUBSET Row /\ at \in Int
        /\ \A q \in WalkPage : at <= q[1]
        /\ \A b \in WalkPage : \A r \in rows : at <= r[1] /\ r[1] < b[1] => r \in WalkPage
    BY WalkAdds
  <1>2. ~ask.shape.many /\ \A q \in acc : q[1] < at
    BY AskFacts DEF ReadInv, Types, Walks, Fits
  <1>3. \A q \in acc \cup WalkPage \cup rows : q[1] \in Nat
    BY <1>1, RowFacts
  <1>4. ASSUME NEW r \in rows, r[1] < at, \E a \in acc \cup WalkPage : a[1] < r[1]
        PROVE  Has(acc, r)
    <2>1. PICK a \in acc \cup WalkPage : a[1] < r[1]
      BY <1>4
    <2>2. a \in acc
      BY <1>1, <1>3, <1>4, <2>1
    <2> QED BY <1>4, <2>1, <2>2 DEF Passed
  <1>5. Solid(acc)
    <2> SUFFICES ASSUME NEW r \in rows, NEW a \in acc, NEW b \in acc, a[1] < r[1], r[1] < b[1]
                 PROVE  Has(acc, r)
      BY DEF Solid
    <2>1. r[1] < at
      BY <1>1, <1>2, <1>3
    <2> QED BY <2>1 DEF Passed
  <1>6. Solid(acc \cup WalkPage)
    <2> SUFFICES ASSUME NEW r \in rows, NEW a \in acc \cup WalkPage, NEW b \in acc \cup WalkPage,
                        a[1] < r[1], r[1] < b[1]
                 PROVE  Has(acc \cup WalkPage, r)
      BY DEF Solid
    <2>1. CASE r[1] < at
      BY <1>4, <2>1 DEF Has
    <2>2. CASE ~(r[1] < at)
      <3>1. b \in WalkPage /\ at <= r[1]
        BY <1>1, <1>2, <1>3, <2>2
      <3>2. r \in WalkPage
        BY <1>1, <3>1
      <3> QED BY <3>2 DEF Has
    <2> QED BY <2>1, <2>2
  <1>7. ASSUME WalkPage # {}, NEW r \in rows, r[1] < Latest(WalkPage) + 1,
               \E a \in acc \cup WalkPage : a[1] < r[1]
        PROVE  Has(acc \cup WalkPage, r)
    <2>1. PICK m \in WalkPage : m[1] = Latest(WalkPage)
      BY <1>1, <1>7, Ends
    <2>2. CASE r[1] < at
      BY <1>4, <1>7, <2>2 DEF Has
    <2>3. CASE ~(r[1] < at) /\ r[1] = m[1]
      BY <1>2, <2>3 DEF Has
    <2>4. CASE ~(r[1] < at) /\ r[1] # m[1]
      <3>1. at <= r[1] /\ r[1] < m[1]
        BY <1>1, <1>3, <1>7, <2>1, <2>4
      <3>2. r \in WalkPage
        BY <1>1, <3>1
      <3> QED BY <3>2 DEF Has
    <2> QED BY <2>2, <2>3, <2>4
  <1> QED BY <1>5, <1>6, <1>7

\* A funding window is solid.
LEMMA WindowSolid ==
    ASSUME rows \in SUBSET Row, NEW lo \in Int, NEW hi \in Int, NEW n \in Nat,
           NEW p \in Window(lo, hi, n)
    PROVE  Solid(p)
  <1> SUFFICES ASSUME NEW r \in rows, NEW a \in p, NEW b \in p, a[1] < r[1], r[1] < b[1]
               PROVE  r \in p
    BY DEF Solid, Has
  <1>1. a \in Between(lo, hi) /\ b \in Between(lo, hi)
    BY WindowFacts
  <1>2. a[1] \in lo..hi /\ b[1] \in lo..hi /\ r[1] \in Nat
    BY <1>1, RowFacts DEF Between
  <1>3. r[1] \in lo..hi
    BY <1>2
  <1>4. r \in Between(lo, hi)
    BY <1>3 DEF Between
  <1> QED BY <1>4, WindowFacts

\* A funding window with all its rows meets the rows after it.
LEMMA OlderJoins ==
    ASSUME ReadInv, pc = "older", Solid(acc), NEW lo \in Int, NEW p \in SUBSET Row,
           p = Between(lo, Oldest(acc) - 1)
    PROVE  Solid(acc \cup p)
  <1>1. /\ rows \in SUBSET Row /\ acc \in SUBSET Row /\ acc # {} /\ ~ask.shape.many
    BY AskFacts DEF ReadInv, Types, Olders, Fits
  <1>2. /\ Oldest(acc) \in Nat /\ \A a \in acc : Oldest(acc) <= a[1]
        /\ \E m \in acc : m[1] = Oldest(acc)
    BY <1>1, Ends
  <1>3. \A q \in acc \cup p \cup rows : q[1] \in Nat
    BY <1>1, RowFacts
  <1>4. \A q \in p : lo <= q[1] /\ q[1] < Oldest(acc)
    BY <1>2, <1>3 DEF Between
  <1> SUFFICES ASSUME NEW r \in rows, NEW a \in acc \cup p, NEW b \in acc \cup p,
                      a[1] < r[1], r[1] < b[1]
               PROVE  \E q \in acc \cup p : q[1] = r[1]
    BY <1>1 DEF Solid, Has
  <1>5. CASE r[1] < Oldest(acc)
    <2>1. a \in p
      BY <1>2, <1>3, <1>5
    <2>2. r[1] \in lo..(Oldest(acc) - 1)
      BY <1>2, <1>3, <1>4, <1>5, <2>1
    <2>3. r \in p
      BY <2>2 DEF Between
    <2> QED BY <2>3
  <1>6. CASE r[1] = Oldest(acc)
    BY <1>2, <1>6
  <1>7. CASE r[1] > Oldest(acc)
    <2>1. b \in acc
      BY <1>2, <1>3, <1>4, <1>7
    <2>2. Has(acc, r)
      BY <1>2, <1>7, <2>1 DEF Solid
    <2> QED BY <1>1, <2>2 DEF Has
  <1> QED BY <1>2, <1>3, <1>5, <1>6, <1>7

\* A row that is no newer than one that was read was there when that one was.
LEMMA OldRows ==
    ASSUME ReadInv, Revised \/ NewRow, NEW r \in rows', NEW b \in acc \cup recent, r[1] <= b[1]
    PROVE  \E q \in rows : q[1] = r[1] /\ \A S : Has(S, q) => Has(S, r)
  <1>1. PICK m \in rows : m[1] = b[1]
    BY DEF ReadInv, Types, Known, Has
  <1>2. m[1] \in Nat /\ r[1] \in Nat
    BY VenueMoves, RowFacts DEF ReadInv, Types
  <1>3. Has(rows, r)
    BY <1>1, <1>2, VenueMoves
  <1> QED BY <1>3 DEF Has

\* A step that returns solid rows.
LEMMA SolidReturn ==
    ASSUME Solid(recent), UNCHANGED <<ask, rows, recent>>, pc' = "done", NEW S,
           result' = S, Solid(S)
    PROVE  HoleInv'
  BY DEF HoleInv, Solid, Has

\* Every step keeps the rows together.
LEMMA HoleStep == Heeds /\ ReadInv /\ HoleInv /\ [Next]_vars => HoleInv'
  <1> SUFFICES ASSUME Heeds, ReadInv, HoleInv, [Next]_vars PROVE HoleInv'
    OBVIOUS
  <1>1. rows \in SUBSET Row /\ acc \in SUBSET Row /\ recent \in SUBSET Row /\ AskOK /\ Types
        /\ ask.limit \in Nat \ {0} /\ (Anchor = None \/ Anchor \in Nat)
    BY AskFacts DEF ReadInv, Types
  <1>2. Solid(recent)
    BY DEF HoleInv
  <1>3. UNCHANGED ask
    BY DEF Next, Direct, Bulk, NextPage, Recent, Walk, AnchoredWindow, RecentFunding,
       OlderFunding, Rejected, Raises, Revised, NewRow, Changes, Ended, vars
  <1>4. ASSUME UNCHANGED rows PROVE \A S : Solid(S)' <=> Solid(S')
    BY <1>3, <1>4 DEF Solid, Has
  <1>5. CASE Direct
    <2>1. PICK p \in (IF ask.shape.fetch = "recent" THEN {RecentPage(None, ask.limit)}
                      ELSE Page(None, ask.limit)) : Return(Cut(p, ask.limit), FALSE)
      BY <1>5 DEF Direct
    <2>2. TopPart(p, None) /\ p \in SUBSET Row
      BY <1>1, <2>1, OtherPages DEF TopPart
    <2>3. Solid(Cut(p, ask.limit))
      BY <1>1, <2>2, SolidOf
    <2> QED BY <1>2, <1>5, <2>1, <2>3, SolidReturn DEF Direct, Return, venue
  <1>6. CASE Bulk
    <2>1. PICK since \in {0, WalkEnd(ask) - ask.limit} :
             Return(Cut(UpTo({r \in Newest(rows, VenueKeeps) : r[1] >= since}, Anchor), ask.limit),
                    FALSE)
      BY <1>6 DEF Bulk
    <2> DEFINE p == UpTo({r \in Newest(rows, VenueKeeps) : r[1] >= since}, Anchor)
    <2>2. TopPart(p, Anchor)
      BY <1>1, OtherPages
    <2>3. pc' = "done" /\ result' = Cut(p, ask.limit) /\ UNCHANGED <<ask, rows, recent>>
      BY <1>6, <2>1 DEF Bulk, Return, venue
    <2> HIDE DEF p
    <2>4. p \in SUBSET Row
      BY <1>1, <2>2 DEF TopPart
    <2>5. Solid(Cut(p, ask.limit))
      BY <1>1, <2>2, <2>4, SolidOf
    <2> QED BY <1>2, <2>3, <2>5, SolidReturn
  <1>7. CASE NextPage
    <2>1. pc = "page" /\ UNCHANGED <<ask, recent, rows, first>> /\ Joined(acc)
      BY <1>7, PageOutcomes DEF HoleInv
    <2>2. PICK p \in Page(End, PageRows) : NothingNew(p) \/ LastPage(p) \/ OnePage(p)
      BY <1>7, PageOutcomes
    <2>3. /\ Joined(acc \cup p) /\ acc \cup p \in SUBSET Row
          /\ \A a \in acc \cup p : Before(a, first)
      BY <2>1, PageJoins, PageAdds
    <2>4. Solid(PagedResult(acc)) /\ Solid(PagedResult(acc \cup p))
      BY <1>1, <1>2, <2>1, <2>3, PagedSolid
    <2>5. CASE NothingNew(p)
      BY <1>2, <2>1, <2>4, <2>5, SolidReturn DEF NothingNew, Return
    <2>6. CASE LastPage(p)
      BY <1>2, <2>1, <2>4, <2>6, SolidReturn DEF LastPage, Return
    <2>7. CASE OnePage(p)
      <3>1. pc' = "page" /\ acc' = acc \cup p
        BY <2>1, <2>7 DEF OnePage
      <3>2. Joined(acc)'
        BY <2>1, <2>3, <3>1 DEF Joined, Has
      <3>3. Solid(recent)'
        BY <1>2, <1>4, <2>1
      <3> QED BY <3>1, <3>2, <3>3 DEF HoleInv
    <2> QED BY <2>2, <2>5, <2>6, <2>7
  <1>8. CASE Recent
    <2>1. pc = "recent" /\ UNCHANGED <<ask, acc, rows>> /\ acc = {} /\ recent = {}
      BY <1>8, RecentOutcomes DEF ReadInv, Starts
    <2>2. TopPart(RecentRows, Anchor) /\ RecentRows \in SUBSET Row
      BY <2>1, RecentAdds
    <2>3. Solid(RecentRows) /\ Solid(Cut(RecentRows, ask.limit))
      BY <1>1, <2>2, SolidOf
    <2>4. Joined(acc)'
      BY <2>1 DEF Joined
    <2>5. CASE NoRecent
      <3>1. Solid(recent)'
        BY <1>2, <1>4, <2>1, <2>5 DEF NoRecent
      <3> QED BY <2>4, <2>5, <3>1 DEF NoRecent, HoleInv
    <2>6. CASE RecentIsAll
      BY <1>2, <2>1, <2>3, <2>6, SolidReturn DEF RecentIsAll, Return
    <2>7. CASE RecentFirst
      <3>1. Solid(recent)'
        BY <1>4, <2>1, <2>3, <2>7 DEF RecentFirst
      <3> QED BY <2>4, <2>7, <3>1 DEF RecentFirst, HoleInv
    <2> QED BY <1>8, <2>5, <2>6, <2>7, RecentOutcomes
  <1>9. CASE Walk
    <2>1. pc = "walk" /\ UNCHANGED <<ask, rows, recent>> /\ Passed
      BY <1>9, WalkOutcomes DEF HoleInv
    <2>2. acc \cup WalkPage \in SUBSET Row
      BY <2>1, WalkAdds
    <2>3. Solid(acc) /\ Solid(acc \cup WalkPage)
      BY <2>1, WalkJoins
    <2>4. UpTo(acc, Anchor) \in SUBSET Row /\ UpTo(acc \cup WalkPage, Anchor) \in SUBSET Row
      BY <1>1, <2>2, WalkFacts
    <2>5. Solid(WalkResult(acc)) /\ Solid(WalkResult(acc \cup WalkPage))
      BY <1>1, <2>2, <2>3, <2>4, SolidOf DEF WalkResult
    <2>6. CASE WalkEnds
      BY <1>2, <2>1, <2>5, <2>6, SolidReturn DEF WalkEnds, Return
    <2>7. CASE WalkArrives
      BY <1>2, <2>1, <2>5, <2>7, SolidReturn DEF WalkArrives, Return
    <2>8. CASE WalkGoes
      <3>1. pc' = "walk" /\ acc' = acc \cup WalkPage /\ at' = Latest(WalkPage) + 1
            /\ WalkPage # {}
        BY <2>1, <2>8 DEF WalkGoes
      <3>2. \A r \in rows : /\ r[1] < Latest(WalkPage) + 1
                            /\ \E a \in acc \cup WalkPage : a[1] < r[1]
                            => Has(acc \cup WalkPage, r)
        BY <2>1, <3>1, WalkJoins
      <3>3. Passed'
        BY <2>1, <3>1, <3>2 DEF Passed, Has
      <3>4. Solid(recent)'
        BY <1>2, <1>4, <2>1
      <3> QED BY <3>1, <3>3, <3>4 DEF HoleInv
    <2> QED BY <1>9, <2>6, <2>7, <2>8, WalkOutcomes
  <1>10. CASE AnchoredWindow
    <2>1. UNCHANGED <<ask, rows, recent>> /\ ask.start # None
      BY <1>10, AnchoredOutcome
    <2>2. PICK lo \in Int : \E p \in Window(lo, ask.start, WindowRows) :
             Return(Cut(p, ask.limit), Cardinality(Between(lo, ask.start)) > WindowRows)
      BY <1>10, AnchoredOutcome
    <2>3. PICK p \in Window(lo, ask.start, WindowRows) :
             Return(Cut(p, ask.limit), Cardinality(Between(lo, ask.start)) > WindowRows)
      BY <2>2
    <2>4. WindowRows \in Nat /\ ask.start \in Int
      BY <1>1, <2>1, OtherPages, AskFacts DEF WindowRows
    <2>5. Solid(p) /\ p \in SUBSET Row
      BY <1>1, <2>4, WindowSolid, WindowFacts
    <2>6. Solid(Cut(p, ask.limit))
      BY <1>1, <2>5, SolidOf
    <2> QED BY <1>2, <2>1, <2>3, <2>6, SolidReturn DEF Return
  <1>11. CASE RecentFunding
    <2>1. /\ UNCHANGED <<ask, recent, rows>> /\ TopPart(FundingRows, None)
          /\ FundingRows \in SUBSET Row
      BY <1>11, FundingOutcomes
    <2>2. Solid(FundingRows) /\ Solid(Cut(FundingRows, ask.limit))
      BY <1>1, <2>1, SolidOf
    <2>3. Solid(recent)'
      BY <1>2, <1>4, <2>1
    <2>4. CASE FundingIsAll
      BY <1>2, <2>1, <2>2, <2>4, SolidReturn DEF FundingIsAll, Return
    <2>5. CASE FundingFirst
      <3>1. Solid(acc)'
        BY <1>4, <2>1, <2>2, <2>5 DEF FundingFirst
      <3> QED BY <2>3, <2>5, <3>1 DEF FundingFirst, HoleInv
    <2>6. CASE NoFunding
      BY <2>3, <2>6 DEF NoFunding, HoleInv
    <2> QED BY <1>11, <2>4, <2>5, <2>6, FundingOutcomes
  <1>12. CASE OlderFunding
    <2>1. /\ pc = "older" /\ ask.shape.fetch = "cadence" /\ acc # {}
          /\ UNCHANGED <<ask, recent, rows>>
      BY <1>12, OlderOutcome
    <2>2. PICK lo, hi : \E p \in Window(lo, hi, PageSize) : OlderStep(lo, hi, p)
      BY <1>12, OlderOutcome
    <2>3. PICK p \in Window(lo, hi, PageSize) : OlderStep(lo, hi, p)
      BY <2>2
    <2>4. lo \in Int /\ hi = Oldest(acc) - 1 /\ PageSize \in Nat
      BY <2>3, SeriesConstants DEF OlderStep
    <2>5. /\ p \in SUBSET Row /\ Cardinality(Between(lo, hi)) \in Nat
          /\ Cardinality(Between(lo, hi)) <= PageSize => p = Between(lo, hi)
      BY <1>1, <2>4, WindowFacts
    <2>6. acc \cup p \in SUBSET Row
      BY <1>1, <2>5
    <2>7. Solid(recent)'
      BY <1>2, <1>4, <2>1
    <2>8. CASE short \/ Cardinality(Between(lo, hi)) > PageSize
      <3>1. short' /\ pc' \in {"older", "done"}
        BY <2>1, <2>3, <2>8 DEF OlderStep
      <3> QED BY <1>3, <2>1, <2>7, <3>1 DEF HoleInv
    <2>9. CASE ~short /\ ~(Cardinality(Between(lo, hi)) > PageSize)
      <3>1. Solid(acc) /\ p = Between(lo, Oldest(acc) - 1)
        BY <2>1, <2>4, <2>5, <2>9 DEF HoleInv
      <3>2. Solid(acc \cup p)
        BY <2>1, <2>4, <2>5, <3>1, OlderJoins
      <3>3. Solid(Cut(acc \cup p, ask.limit))
        BY <1>1, <2>6, <3>2, SolidOf
      <3>4. CASE pc' = "done" /\ result' = Cut(acc \cup p, ask.limit)
        BY <1>2, <2>1, <3>3, <3>4, SolidReturn
      <3>5. CASE UNCHANGED pc
        <4>1. Solid(acc)'
          BY <1>4, <2>1, <2>3, <3>2 DEF OlderStep
        <4> QED BY <2>1, <2>7, <3>5, <4>1 DEF HoleInv
      <3> QED BY <2>3, <3>4, <3>5 DEF OlderStep
    <2> QED BY <2>8, <2>9
  <1>13. CASE Rejected
    <2>1. pc' = "done" /\ UNCHANGED <<ask, recent, acc, rows>>
      BY <1>13 DEF Rejected, Return, venue
    <2>2. CASE pc = "page" /\ result' = PagedResult(acc)
      <3>1. Joined(acc) /\ \A q \in acc : Before(q, first)
        BY <2>2 DEF HoleInv, ReadInv, Paging
      <3>2. Solid(PagedResult(acc))
        BY <1>1, <1>2, <2>2, <3>1, PagedSolid
      <3> QED BY <1>2, <2>1, <2>2, <3>2, SolidReturn
    <2>3. CASE pc = "walk" /\ result' = WalkResult(acc)
      <3>1. Solid(acc) /\ UpTo(acc, Anchor) \in SUBSET Row
        BY <1>1, <2>3, WalkJoins, WalkFacts DEF HoleInv
      <3>2. Solid(WalkResult(acc))
        BY <1>1, <3>1, SolidOf DEF WalkResult
      <3> QED BY <1>2, <2>1, <2>3, <3>2, SolidReturn
    <2>4. CASE result' = {}
      BY <1>1, <1>2, <2>1, <2>4, SolidOf, SolidReturn
    <2> QED BY <1>13, <2>2, <2>3, <2>4 DEF Rejected, Return
  <1>14. CASE Raises
    <2>1. pc' = "failed" /\ UNCHANGED <<recent, rows>>
      BY <1>14 DEF Raises, venue
    <2>2. Solid(recent)'
      BY <1>2, <1>4, <2>1
    <2> QED BY <2>1, <2>2 DEF HoleInv
  <1>15. CASE Revised \/ NewRow
    <2>1. /\ UNCHANGED <<ask, pc, first, at, recent, acc, short>>
          /\ pc \notin {"done", "failed"} /\ rows' \in SUBSET Row
      BY <1>15, VenueMoves
    <2>2. \A r \in rows' \cup acc \cup recent : r[1] \in Nat
      BY <1>1, <2>1, RowFacts
    <2>3. ASSUME NEW S \in SUBSET (acc \cup recent), Solid(S),
                 NEW r \in rows', NEW a \in S, NEW b \in S, a[1] < r[1], r[1] < b[1]
          PROVE  Has(S, r)
      <3>1. PICK q \in rows : q[1] = r[1] /\ \A T : Has(T, q) => Has(T, r)
        BY <1>15, <2>2, <2>3, OldRows
      <3> QED BY <2>3, <3>1 DEF Solid
    <2>4. Solid(recent)'
      BY <1>2, <2>1, <2>3 DEF Solid, Has
    <2>5. ASSUME Solid(acc) PROVE Solid(acc)'
      BY <2>1, <2>3, <2>5 DEF Solid, Has
    <2>6. ASSUME pc = "page" PROVE Joined(acc)'
      <3> SUFFICES ASSUME NEW r \in rows', NEW a \in acc, a[1] < r[1],
                          (\E b \in acc : r[1] < b[1]) \/ (recent # {} /\ r[1] <= first)
                   PROVE  Has(acc, r)
        BY <2>1 DEF Joined, Has
      <3>1. \E b \in acc \cup recent : r[1] <= b[1]
        <4>1. ASSUME recent # {}, r[1] <= first PROVE \E b \in recent : r[1] <= b[1]
          <5>1. PICK b \in recent : first < b[1]
            BY <2>6, <4>1, PageAnchor
          <5>2. first \in Nat
            BY <2>6, <4>1, PageAnchor
          <5> QED BY <2>2, <4>1, <5>1, <5>2
        <4> QED BY <2>2, <4>1
      <3>2. PICK q \in rows : q[1] = r[1] /\ \A T : Has(T, q) => Has(T, r)
        BY <1>15, <3>1, OldRows
      <3>3. Has(acc, q)
        BY <2>6, <3>2 DEF HoleInv, Joined
      <3> QED BY <3>2, <3>3
    <2>7. ASSUME pc = "walk" PROVE Passed'
      <3> SUFFICES ASSUME NEW r \in rows', r[1] < at, NEW a \in acc, a[1] < r[1]
                   PROVE  Has(acc, r)
        BY <2>1 DEF Passed, Has
      <3>1. PICK b \in acc : b[1] = at - 1
        BY <2>7 DEF ReadInv, Walks
      <3>2. r[1] <= b[1]
        BY <2>2, <2>7, <3>1 DEF ReadInv, Walks
      <3>3. PICK q \in rows : q[1] = r[1] /\ \A T : Has(T, q) => Has(T, r)
        BY <1>15, <3>2, OldRows
      <3>4. Has(acc, q)
        BY <2>7, <3>3 DEF HoleInv, Passed
      <3> QED BY <3>3, <3>4
    <2> QED BY <2>1, <2>4, <2>5, <2>6, <2>7 DEF HoleInv
  <1>16. CASE UNCHANGED vars
    <2>1. /\ Solid(recent)' <=> Solid(recent)
          /\ Solid(acc)' <=> Solid(acc)
          /\ Solid(result)' <=> Solid(result)
          /\ Joined(acc)' <=> Joined(acc)
          /\ Passed' <=> Passed
      BY <1>16 DEF vars, Solid, Joined, Passed, Has
    <2> QED BY <1>16, <2>1 DEF vars, HoleInv
  <1> QED BY <1>5, <1>6, <1>7, <1>8, <1>9, <1>10, <1>11, <1>12, <1>13, <1>14, <1>15, <1>16
          DEF Next, Ended

\* A read leaves no hole: pages meet, the archive meets the recent page, and a
\* boundary inside a group of rows with one timestamp loses none of them,
\* whatever page failed and whatever the venue changed meanwhile.  Excepted are a
\* funding window that holds more rows than a page, and a venue that may ignore
\* the anchor of one page and not of the next.
THEOREM ReadsHaveNoHole == Spec => []Contiguous
  <1>1. Init => HoleInv
    <2> SUFFICES ASSUME Init PROVE HoleInv
      OBVIOUS
    <2>1. /\ recent = {} /\ acc = {}
          /\ pc \notin {"done", "older"}
      BY AskFacts DEF Init, Begin, Fits, AskOK
    <2> QED BY <2>1 DEF HoleInv, Solid, Joined, Passed
  <1>2. ReadInv /\ (Heeds => HoleInv) => Contiguous
    <2> SUFFICES ASSUME ReadInv, HoleInv, pc = "done", result # {},
                        ~(ask.shape.fetch = "cadence" /\ short),
                        NEW r \in rows, r[1] > Oldest(result), r[1] < Latest(result)
                 PROVE  IF ask.shape.many THEN r \in result ELSE r[1] \in TimesOf(result)
      BY DEF Contiguous, Heeds
    <2>1. rows \in SUBSET Row /\ result \in SUBSET Row
      BY DEF ReadInv, Types
    <2>2. PICK a \in result : a[1] = Oldest(result)
      BY <2>1, Ends
    <2>3. PICK b \in result : b[1] = Latest(result)
      BY <2>1, Ends
    <2>4. a[1] < r[1] /\ r[1] < b[1]
      BY <2>1, <2>2, <2>3, RowFacts
    <2>5. Has(result, r)
      BY <2>4 DEF HoleInv, Solid
    <2> QED BY <2>5 DEF Has, TimesOf
  <1>3. ReadInv /\ (Heeds => HoleInv) /\ [Next]_vars => (Heeds => HoleInv)'
    BY HoleStep, HeedsStays
  <1> QED BY <1>1, <1>2, <1>3, ReadAlways, PTL DEF Spec
-----------------------------------------------------------------------------
(* A read returns one version of a row *)

\* One row was read so far, and the next page ends the read: it is the only row up
\* to the anchor, or a page has one row.
Alone ==
    /\ recent = {}
    /\ \A a \in acc : a[1] = at
    /\ PageRows = 1 \/ \A r \in rows : at <= r[1]

\* The rows at current_end, which the next page carries again, are as they were
\* read unless the next page ends the read.
PageVersions ==
    /\ OnePerTime(acc)
    /\ (\A q \in acc : q[1] = at => q \in rows) \/ Alone
    /\ (recent = {} /\ \A a \in acc : a[1] = at) => Alone

VersionInv ==
    ~ask.shape.many =>
        /\ OnePerTime(recent)
        /\ pc \in {"walk", "older"} => OnePerTime(acc)
        /\ pc = "page" /\ ask.shape.fetch # "window" /\ at # None => PageVersions
        /\ NoTwoVersions

\* Some of rows with one version each.
LEMMA OneVersion ==
    ASSUME NEW S, OnePerTime(S), NEW T \in SUBSET S
    PROVE  OnePerTime(T)
  BY DEF OnePerTime

\* A step that returns one version of each row.
LEMMA VersionReturn ==
    ASSUME OnePerTime(recent), UNCHANGED <<ask, recent>>, pc' = "done", NEW S,
           result' = S, OnePerTime(S)
    PROVE  VersionInv'
  BY DEF VersionInv, OnePerTime, NoTwoVersions

\* The recent rows replace those of the archive.
LEMMA PagedVersions ==
    ASSUME Types, OnePerTime(recent), NEW S \in SUBSET Row, OnePerTime(S)
    PROVE  OnePerTime(PagedResult(S))
  <1>1. recent \in SUBSET Row /\ ask.limit \in Nat \ {0} /\ total \in Nat \ {0}
    BY AskFacts DEF Types
  <1> DEFINE T == Cut(S, total)
             C == Combined(T)
  <1>2. T \in SUBSET S /\ T \in SUBSET Row
    BY <1>1, CutFacts
  <1>3. OnePerTime(T)
    BY <1>2, OneVersion
  <1> HIDE DEF T
  <1>4. C \in SUBSET Row /\ OnePerTime(C)
    BY <1>1, <1>2, <1>3 DEF Combined, OnePerTime, TimesOf
  <1> HIDE DEF C
  <1>5. Cut(C, ask.limit) \in SUBSET C
    BY <1>1, <1>4, CutFacts
  <1>6. OnePerTime(Cut(C, ask.limit))
    BY <1>4, <1>5, OneVersion
  <1> QED BY <1>3, <1>6 DEF PagedResult, T, C

\* A first page with one timestamp holds all rows up to the anchor, or one row.
LEMMA FirstPage ==
    ASSUME ReadInv, Heeds, pc = "page", at = None, ~ask.shape.many,
           ask.shape.fetch # "window",
           NEW p \in Page(End, PageRows), p # {}, \A a \in p : a[1] = NextEnd(p)
    PROVE  PageRows = 1 \/ \A r \in rows : NextEnd(p) <= r[1]
  <1>1. /\ rows \in SUBSET Row /\ OnePerTime(rows) /\ End = first
        /\ first = None \/ first \in Nat
        /\ PageRows \in Nat \ {0}
    BY PageAnchor, AskFacts DEF ReadInv, Types, End
  <1>2. p = Newest(UpTo(rows, first), PageRows)
    BY <1>1 DEF Page, Heeds
  <1>3. UpTo(rows, first) \in SUBSET Row /\ UpTo(rows, first) \in SUBSET rows
    BY <1>1 DEF UpTo
  <1>4. /\ p \in SUBSET UpTo(rows, first)
        /\ p = UpTo(rows, first) \/ Cardinality(p) = PageRows
    BY <1>1, <1>2, <1>3, NewestFacts
  <1>5. PICK m \in p : TRUE
    OBVIOUS
  <1>6. p = {m}
    BY <1>1, <1>3, <1>4, <1>5 DEF OnePerTime
  <1>7. Cardinality(p) = 1
    BY <1>6, FS_Singleton
  <1>8. ASSUME p = UpTo(rows, first), NEW r \in rows PROVE NextEnd(p) <= r[1]
    <2>1. r[1] \in Nat /\ m[1] \in Nat /\ m[1] = NextEnd(p)
      BY <1>1, <1>3, <1>4, <1>5, RowFacts
    <2>2. CASE r \in p
      BY <2>1, <2>2
    <2>3. CASE r \notin p
      <3>1. first \in Nat /\ ~(r[1] <= first) /\ m[1] <= first
        BY <1>1, <1>5, <1>8, <2>3 DEF UpTo
      <3> QED BY <2>1, <3>1
    <2> QED BY <2>2, <2>3
  <1> QED BY <1>4, <1>7, <1>8

\* A page that overlaps what was read has the same version of the row they
\* share, or is the last and has the timestamp of what was read.
LEMMA PageOverlaps ==
    ASSUME ReadInv, Heeds, pc = "page", ~ask.shape.many, ask.shape.fetch # "window",
           at # None => PageVersions, NEW p \in Page(End, PageRows)
    PROVE  \/ OnePerTime(acc \cup p)
           \/ recent = {} /\ \A a \in acc \cup p : a[1] = at
  <1>1. /\ rows \in SUBSET Row /\ OnePerTime(rows) /\ acc \in SUBSET Row
        /\ p \in SUBSET rows /\ p \in SUBSET Row
        /\ at # None => \A a \in p : a[1] <= at
        /\ at = None \/ at \in Nat
        /\ PageRows \in Nat \ {0}
    BY PageAnchor, PageAdds, AskFacts DEF ReadInv, Types, TopPart
  <1>2. OnePerTime(p)
    BY <1>1, OneVersion
  <1>3. CASE at = None
    BY <1>2, <1>3 DEF ReadInv, Paging
  <1>4. CASE at # None
    <2>1. /\ (\E a \in acc : a[1] = at) /\ (\A a \in acc : at <= a[1]) /\ End = at
          /\ PageVersions /\ at \in Nat
      BY <1>1, <1>4 DEF ReadInv, Paging, End
    <2>2. \A q \in acc \cup p : q[1] \in Nat
      BY <1>1, RowFacts
    <2>3. CASE \A q \in acc : q[1] = at => q \in rows
      <3> SUFFICES ASSUME NEW q \in acc, NEW r \in p, q[1] = r[1] PROVE q = r
        BY <1>2, <2>1 DEF OnePerTime, PageVersions
      <3>1. q[1] = at
        BY <1>1, <1>4, <2>1, <2>2
      <3> QED BY <1>1, <2>3, <3>1 DEF OnePerTime
    <2>4. CASE Alone
      <3>1. \A r \in p : at <= r[1]
        <4>1. CASE \A r \in rows : at <= r[1]
          BY <1>1, <4>1
        <4>2. CASE PageRows = 1
          <5>1. PICK a \in acc : a[1] = at
            BY <2>1
          <5>2. PICK m \in rows : m[1] = at
            BY <5>1 DEF ReadInv, Types, Known, Has
          <5> DEFINE U == UpTo(rows, at)
          <5>3. U \in SUBSET Row /\ m \in U /\ \A r \in U : r[1] <= at
            BY <1>1, <1>4, <2>1, <5>2 DEF UpTo
          <5>4. p = Newest(U, 1)
            BY <2>1, <4>2 DEF Page, Heeds
          <5> HIDE DEF U
          <5>5. /\ p \in SUBSET U /\ Cardinality(p) <= 1
                /\ \A r \in p : \A q \in U : Key(r) <= Key(q) => q \in p
            BY <5>3, <5>4, NewestFacts
          <5> SUFFICES ASSUME NEW r \in p, ~(at <= r[1]) PROVE FALSE
            OBVIOUS
          <5>6. r[1] < m[1] /\ r # m
            BY <2>1, <2>2, <5>2
          <5>7. m \in p
            BY <5>3, <5>5, <5>6, RowFacts
          <5>8. {r, m} \in SUBSET p /\ IsFiniteSet(p)
            BY <1>1, <5>7, RowsFinite
          <5>9. Cardinality({r, m}) = 2
            <6>1. r \notin {m} /\ IsFiniteSet({m}) /\ Cardinality({m}) = 1
              BY <5>6, FS_Singleton
            <6>2. Cardinality({m} \cup {r}) = Cardinality({m}) + 1
              BY <6>1, FS_AddElement
            <6>3. {m} \cup {r} = {r, m}
              OBVIOUS
            <6> QED BY <6>1, <6>2, <6>3
          <5>10. Cardinality({r, m}) <= Cardinality(p)
            BY <1>1, <5>8, Cards
          <5> QED BY <1>1, <5>5, <5>9, <5>10, RowsFinite
        <4> QED BY <2>4, <4>1, <4>2 DEF Alone
      <3>2. \A r \in p : r[1] = at
        BY <1>1, <1>4, <2>1, <2>2, <3>1
      <3> QED BY <2>4, <3>2 DEF Alone
    <2> QED BY <2>1, <2>3, <2>4 DEF PageVersions
  <1> QED BY <1>3, <1>4

\* Another page leaves the rows at current_end as they were read.
LEMMA PageKeepsVersions ==
    ASSUME ReadInv, Heeds, pc = "page", ~ask.shape.many, ask.shape.fetch # "window",
           at # None => PageVersions, NEW p \in Page(End, PageRows), p # {},
           at = None \/ NextEnd(p) < at,
           UNCHANGED <<ask, recent, rows>>, acc' = acc \cup p, at' = NextEnd(p)
    PROVE  PageVersions'
  <1>1. /\ rows \in SUBSET Row /\ acc \in SUBSET Row
        /\ p \in SUBSET rows /\ p \in SUBSET Row
        /\ at = None \/ at \in Nat
        /\ NextEnd(p) \in Nat
    BY PageAnchor, PageAdds DEF TopPart
  <1>2. \A q \in acc \cup p : q[1] \in Nat
    BY <1>1, RowFacts
  <1>3. at # None => /\ \A a \in acc : at <= a[1]
                     /\ \E a \in acc : a[1] = at
    BY DEF ReadInv, Paging
  <1>4. at = None => acc = {}
    BY DEF ReadInv, Paging
  <1>5. \A a \in acc : NextEnd(p) < a[1]
    BY <1>1, <1>2, <1>3, <1>4
  <1>6. OnePerTime(acc \cup p)
    <2>1. PICK m \in p : m[1] = NextEnd(p)
      BY PageAdds
    <2>2. m[1] # at
      BY <1>1, <2>1, SeriesConstants
    <2>3. ~(\A a \in acc \cup p : a[1] = at)
      BY <2>1, <2>2
    <2> QED BY <2>3, PageOverlaps
  <1>7. \A q \in acc \cup p : q[1] = NextEnd(p) => q \in rows
    BY <1>1, <1>2, <1>5
  <1>8. ASSUME \A a \in acc \cup p : a[1] = NextEnd(p)
        PROVE  PageRows = 1 \/ \A r \in rows : NextEnd(p) <= r[1]
    <2>1. at = None
      BY <1>1, <1>3, <1>5, <1>8
    <2> QED BY <1>8, <2>1, FirstPage
  <1>9. PageRows' = PageRows
    BY DEF PageRows
  <1> QED BY <1>6, <1>7, <1>8, <1>9 DEF PageVersions, Alone, OnePerTime

\* A page that ends the read returns one version of each row, or versions of one.
LEMMA PageReturns ==
    ASSUME ReadInv, Heeds, VersionInv, pc = "page", NEW p \in Page(End, PageRows),
           UNCHANGED <<ask, recent>>, pc' = "done", result' = PagedResult(acc \cup p)
    PROVE  VersionInv'
  <1>1. Types /\ acc \cup p \in SUBSET Row
    BY PageAdds DEF ReadInv
  <1> SUFFICES ASSUME ~ask.shape.many PROVE OnePerTime(recent)' /\ NoTwoVersions'
    BY DEF VersionInv
  <1>2. OnePerTime(recent) /\ OnePerTime(recent)'
    BY DEF VersionInv, OnePerTime
  <1>3. CASE OnePerTime(acc \cup p)
    <2>1. OnePerTime(PagedResult(acc \cup p))
      BY <1>1, <1>2, <1>3, PagedVersions
    <2> QED BY <1>2, <2>1 DEF OnePerTime, NoTwoVersions
  <1>4. CASE recent = {} /\ \A a \in acc \cup p : a[1] = at
    <2>1. PagedResult(acc \cup p) \in SUBSET (acc \cup p)
      BY <1>1, <1>4, PagedFacts
    <2> QED BY <1>2, <1>4, <2>1 DEF NoTwoVersions, TimesOf
  <1>5. CASE ask.shape.fetch = "window"
    BY <1>2, <1>5 DEF NoTwoVersions
  <1>6. ask.shape.fetch # "window" /\ at # None => PageVersions
    BY DEF VersionInv
  <1> QED BY <1>3, <1>4, <1>5, <1>6, PageOverlaps

\* What the pagination has when it stops before a page.
LEMMA PageStops ==
    ASSUME ReadInv, VersionInv, pc = "page",
           UNCHANGED <<ask, recent>>, pc' = "done", result' = PagedResult(acc)
    PROVE  VersionInv'
  <1>1. Types /\ acc \in SUBSET Row
    BY DEF ReadInv, Types
  <1> SUFFICES ASSUME ~ask.shape.many PROVE OnePerTime(recent)' /\ NoTwoVersions'
    BY DEF VersionInv
  <1>2. OnePerTime(recent) /\ OnePerTime(recent)'
    BY DEF VersionInv, OnePerTime
  <1>3. CASE ask.shape.fetch = "window"
    BY <1>2, <1>3 DEF NoTwoVersions
  <1>4. CASE ask.shape.fetch # "window"
    <2>1. OnePerTime(acc)
      BY <1>4 DEF VersionInv, PageVersions, ReadInv, Paging, OnePerTime
    <2>2. OnePerTime(PagedResult(acc))
      BY <1>1, <1>2, <2>1, PagedVersions
    <2> QED BY <1>2, <2>2 DEF OnePerTime, NoTwoVersions
  <1> QED BY <1>3, <1>4

\* When the venue revises the row at current_end, it is the newest row there is,
\* and alone.
LEMMA VenueKeepsVersions ==
    ASSUME ReadInv, Heeds, Revised \/ NewRow, pc = "page", ~ask.shape.many, at # None,
           PageVersions
    PROVE  PageVersions'
  <1>1. /\ UNCHANGED <<ask, first, at, recent, acc>>
        /\ rows' \in SUBSET Row
        /\ \A r \in rows' : \/ Has(rows, r)
                            \/ \A q \in rows : q[1] < r[1]
        /\ \A r \in rows : (\E q \in rows : r[1] < q[1]) => r \in rows'
    BY VenueMoves
  <1>2. /\ rows \in SUBSET Row /\ acc \in SUBSET Row /\ recent \in SUBSET Row
        /\ at \in Nat /\ \A a \in acc : at <= a[1]
        /\ first = None \/ first \in Nat
        /\ recent # {} => first \in Nat
        /\ recent # {} => \A q \in recent : first < q[1]
    BY PageAnchor DEF ReadInv, Paging
  <1>3. \A q \in rows \cup rows' \cup acc \cup recent : q[1] \in Nat
    BY <1>1, <1>2, RowFacts
  <1>4. \A q \in acc \cup recent : \E r \in rows : r[1] = q[1]
    BY DEF ReadInv, Types, Known, Has
  <1>5. PICK a \in acc : a[1] = at /\ Before(a, first)
    BY DEF ReadInv, Paging
  <1>6. Alone => Alone'
    <2> SUFFICES ASSUME Alone PROVE Alone'
      OBVIOUS
    <2>1. ASSUME \A r \in rows : at <= r[1], NEW r \in rows' PROVE at <= r[1]
      <3>1. PICK m \in rows : m[1] = at
        BY <1>4, <1>5
      <3>2. CASE Has(rows, r)
        BY <2>1, <3>2 DEF Has
      <3>3. CASE \A q \in rows : q[1] < r[1]
        BY <1>2, <1>3, <3>1, <3>3
      <3> QED BY <1>1, <3>2, <3>3
    <2>2. PageRows' = PageRows
      BY <1>1 DEF PageRows
    <2> QED BY <1>1, <2>1, <2>2 DEF Alone
  <1>7. ASSUME \A q \in acc : q[1] = at => q \in rows
        PROVE  (\A q \in acc : q[1] = at => q \in rows') \/ Alone
    <2>1. CASE \E r \in rows : at < r[1]
      BY <1>1, <1>7, <2>1
    <2>2. CASE ~ \E r \in rows : at < r[1]
      <3>1. \A q \in acc \cup recent : q[1] <= at
        BY <1>2, <1>3, <1>4, <2>2
      <3>2. \A q \in acc : q[1] = at
        BY <1>2, <1>3, <3>1
      <3>3. recent = {}
        <4> SUFFICES ASSUME recent # {} PROVE FALSE
          OBVIOUS
        <4>1. PICK q \in recent : first < q[1]
          BY <1>2
        <4>2. at <= first /\ first \in Nat
          BY <1>2, <1>5, SeriesConstants DEF Before
        <4> QED BY <1>2, <1>3, <3>1, <4>1, <4>2
      <3> QED BY <3>2, <3>3 DEF PageVersions
    <2> QED BY <2>1, <2>2
  <1> QED BY <1>1, <1>6, <1>7 DEF PageVersions, OnePerTime

\* Every step keeps one version of each row.
LEMMA VersionStep == Heeds /\ ReadInv /\ VersionInv /\ [Next]_vars => VersionInv'
  <1> SUFFICES ASSUME Heeds, ReadInv, VersionInv, [Next]_vars PROVE VersionInv'
    OBVIOUS
  <1>1. /\ rows \in SUBSET Row /\ OnePerTime(rows) /\ acc \in SUBSET Row /\ AskOK /\ Types
        /\ ask.limit \in Nat \ {0}
    BY AskFacts DEF ReadInv, Types
  <1>2. UNCHANGED ask
    BY DEF Next, Direct, Bulk, NextPage, Recent, Walk, AnchoredWindow, RecentFunding,
       OlderFunding, Rejected, Raises, Revised, NewRow, Changes, Ended, vars
  <1>3. SUFFICES ASSUME ~ask.shape.many PROVE VersionInv'
    BY <1>2 DEF VersionInv
  <1>4. OnePerTime(recent)
    BY <1>3 DEF VersionInv
  <1>5. \A p \in SUBSET rows : OnePerTime(p) /\ OnePerTime(Cut(p, ask.limit))
    <2> SUFFICES ASSUME NEW p \in SUBSET rows
                 PROVE  OnePerTime(p) /\ OnePerTime(Cut(p, ask.limit))
      OBVIOUS
    <2>1. Cut(p, ask.limit) \in SUBSET p
      BY <1>1, CutFacts
    <2> QED BY <1>1, <2>1, OneVersion
  <1>6. CASE Direct
    <2>1. PICK p \in (IF ask.shape.fetch = "recent" THEN {RecentPage(None, ask.limit)}
                      ELSE Page(None, ask.limit)) : Return(Cut(p, ask.limit), FALSE)
      BY <1>6 DEF Direct
    <2>2. OnePerTime(Cut(p, ask.limit))
      BY <1>1, <1>5, <2>1, OtherPages DEF TopPart
    <2> QED BY <1>4, <1>6, <2>1, <2>2, VersionReturn DEF Direct, Return
  <1>7. CASE Bulk
    <2>1. PICK since \in {0, WalkEnd(ask) - ask.limit} :
             Return(Cut(UpTo({r \in Newest(rows, VenueKeeps) : r[1] >= since}, Anchor), ask.limit),
                    FALSE)
      BY <1>7 DEF Bulk
    <2> DEFINE p == UpTo({r \in Newest(rows, VenueKeeps) : r[1] >= since}, Anchor)
    <2>2. p \in SUBSET rows
      BY <1>1, OtherPages DEF TopPart
    <2>3. pc' = "done" /\ result' = Cut(p, ask.limit) /\ UNCHANGED <<ask, recent>>
      BY <1>7, <2>1 DEF Bulk, Return
    <2> HIDE DEF p
    <2> QED BY <1>4, <1>5, <2>2, <2>3, VersionReturn
  <1>8. CASE NextPage
    <2>1. pc = "page" /\ UNCHANGED <<ask, recent, rows>>
      BY <1>8, PageOutcomes
    <2>2. PICK p \in Page(End, PageRows) : NothingNew(p) \/ LastPage(p) \/ OnePage(p)
      BY <1>8, PageOutcomes
    <2>3. CASE NothingNew(p)
      BY <2>1, <2>3, PageStops DEF NothingNew, Return
    <2>4. CASE LastPage(p)
      BY <2>1, <2>4, PageReturns DEF LastPage, Return
    <2>5. CASE OnePage(p)
      <3>1. /\ pc' = "page" /\ acc' = acc \cup p /\ at' = NextEnd(p) /\ p # {}
            /\ at = None \/ NextEnd(p) < at
        BY <2>1, <2>5 DEF OnePage, Goes
      <3>2. ask.shape.fetch # "window" => PageVersions'
        BY <1>3, <2>1, <3>1, PageKeepsVersions DEF VersionInv
      <3>3. OnePerTime(recent)'
        BY <1>4, <2>1 DEF OnePerTime
      <3> QED BY <2>1, <3>1, <3>2, <3>3 DEF VersionInv, NoTwoVersions
    <2> QED BY <2>2, <2>3, <2>4, <2>5
  <1>9. CASE Recent
    <2>1. pc = "recent" /\ UNCHANGED <<ask, at>> /\ at = None
      BY <1>9, RecentOutcomes DEF ReadInv, Starts
    <2>2. OnePerTime(RecentRows) /\ OnePerTime(Cut(RecentRows, ask.limit))
      BY <1>5, <2>1, RecentAdds
    <2>3. CASE NoRecent
      BY <1>4, <2>1, <2>3 DEF NoRecent, VersionInv, OnePerTime, NoTwoVersions
    <2>4. CASE RecentIsAll
      BY <1>4, <2>1, <2>2, <2>4, VersionReturn DEF RecentIsAll, Return
    <2>5. CASE RecentFirst
      BY <2>1, <2>2, <2>5 DEF RecentFirst, VersionInv, OnePerTime, NoTwoVersions
    <2> QED BY <1>9, <2>3, <2>4, <2>5, RecentOutcomes
  <1>10. CASE Walk
    <2>1. pc = "walk" /\ UNCHANGED <<ask, recent>> /\ OnePerTime(acc)
      BY <1>3, <1>10, WalkOutcomes DEF VersionInv
    <2>2. /\ acc \cup WalkPage \in SUBSET Row /\ WalkPage \in SUBSET rows
          /\ {r \in WalkPage : r[1] \notin TimesOf(acc)} = WalkPage
      BY <2>1, WalkAdds
    <2>3. OnePerTime(acc \cup WalkPage)
      <3>1. OnePerTime(WalkPage) /\ \A a \in acc : \A r \in WalkPage : a[1] # r[1]
        BY <1>5, <2>2 DEF TimesOf
      <3> QED BY <2>1, <3>1 DEF OnePerTime
    <2>4. OnePerTime(WalkResult(acc)) /\ OnePerTime(WalkResult(acc \cup WalkPage))
      BY <1>1, <2>1, <2>2, <2>3, WalkFacts, OneVersion
    <2>5. CASE WalkEnds
      BY <1>4, <2>1, <2>4, <2>5, VersionReturn DEF WalkEnds, Return
    <2>6. CASE WalkArrives
      BY <1>4, <2>1, <2>4, <2>6, VersionReturn DEF WalkArrives, Return
    <2>7. CASE WalkGoes
      BY <1>4, <2>1, <2>3, <2>7 DEF WalkGoes, VersionInv, OnePerTime, NoTwoVersions
    <2> QED BY <1>10, <2>5, <2>6, <2>7, WalkOutcomes
  <1>11. CASE AnchoredWindow
    <2>1. UNCHANGED <<ask, recent>>
      BY <1>11, AnchoredOutcome
    <2>2. PICK lo \in Int : \E p \in Window(lo, ask.start, WindowRows) :
             Return(Cut(p, ask.limit), Cardinality(Between(lo, ask.start)) > WindowRows)
      BY <1>11, AnchoredOutcome
    <2>3. PICK p \in Window(lo, ask.start, WindowRows) :
             Return(Cut(p, ask.limit), Cardinality(Between(lo, ask.start)) > WindowRows)
      BY <2>2
    <2>4. WindowRows \in Nat
      BY <1>1, OtherPages DEF WindowRows
    <2>5. p \in SUBSET rows
      BY <1>1, <2>4, WindowFacts
    <2> QED BY <1>4, <1>5, <2>1, <2>3, <2>5, VersionReturn DEF Return
  <1>12. CASE RecentFunding
    <2>1. UNCHANGED <<ask, recent>> /\ FundingRows \in SUBSET rows
      BY <1>12, FundingOutcomes
    <2>2. OnePerTime(FundingRows) /\ OnePerTime(Cut(FundingRows, ask.limit))
      BY <1>5, <2>1
    <2>3. CASE FundingIsAll
      BY <1>4, <2>1, <2>2, <2>3, VersionReturn DEF FundingIsAll, Return
    <2>4. CASE FundingFirst
      BY <1>4, <2>1, <2>2, <2>4 DEF FundingFirst, VersionInv, OnePerTime, NoTwoVersions
    <2>5. CASE NoFunding
      BY <1>4, <2>1, <2>5 DEF NoFunding, VersionInv, OnePerTime, NoTwoVersions
    <2> QED BY <1>12, <2>3, <2>4, <2>5, FundingOutcomes
  <1>13. CASE OlderFunding
    <2>1. pc = "older" /\ acc # {} /\ UNCHANGED <<ask, recent>> /\ OnePerTime(acc)
      BY <1>3, <1>13, OlderOutcome DEF VersionInv
    <2>2. PICK lo, hi : \E p \in Window(lo, hi, PageSize) : OlderStep(lo, hi, p)
      BY <1>13, OlderOutcome
    <2>3. PICK p \in Window(lo, hi, PageSize) : OlderStep(lo, hi, p)
      BY <2>2
    <2>4. /\ p \in SUBSET rows /\ p \in SUBSET Between(lo, hi) /\ p \in SUBSET Row
          /\ lo \in Int /\ hi = Oldest(acc) - 1
      BY <1>1, <2>3, WindowFacts, SeriesConstants DEF OlderStep
    <2>5. OnePerTime(acc \cup p)
      <3>1. ASSUME NEW a \in acc, NEW r \in p PROVE a[1] # r[1]
        <4>1. Oldest(acc) \in Nat /\ Oldest(acc) <= a[1] /\ r[1] \in Nat /\ a[1] \in Nat
          BY <1>1, <2>1, <2>4, Ends, RowFacts
        <4>2. r[1] \in lo..hi
          BY <2>4 DEF Between
        <4> QED BY <2>4, <4>1, <4>2
      <3>2. OnePerTime(p)
        BY <1>5, <2>4
      <3> QED BY <2>1, <3>1, <3>2 DEF OnePerTime
    <2>6. acc \cup p \in SUBSET Row
      BY <1>1, <2>4
    <2>7. OnePerTime(Cut(acc \cup p, ask.limit))
      BY <1>1, <2>5, <2>6, CutFacts, OneVersion
    <2>8. CASE pc' = "done" /\ result' = Cut(acc \cup p, ask.limit)
      BY <1>4, <2>1, <2>7, <2>8, VersionReturn
    <2>9. CASE UNCHANGED pc
      BY <1>4, <2>1, <2>3, <2>5, <2>9 DEF OlderStep, VersionInv, OnePerTime, NoTwoVersions
    <2> QED BY <2>3, <2>8, <2>9 DEF OlderStep
  <1>14. CASE Rejected
    <2>1. pc' = "done" /\ UNCHANGED <<ask, recent, acc>>
      BY <1>14 DEF Rejected, Return
    <2>2. CASE pc = "page" /\ result' = PagedResult(acc)
      BY <2>1, <2>2, PageStops
    <2>3. CASE pc = "walk" /\ result' = WalkResult(acc)
      <3>1. OnePerTime(WalkResult(acc))
        BY <1>1, <1>3, <2>3, WalkFacts, OneVersion DEF VersionInv
      <3> QED BY <1>4, <2>1, <2>3, <3>1, VersionReturn
    <2>4. CASE result' = {}
      <3>1. OnePerTime({})
        BY DEF OnePerTime
      <3> QED BY <1>4, <2>1, <2>4, <3>1, VersionReturn
    <2> QED BY <1>14, <2>2, <2>3, <2>4 DEF Rejected, Return
  <1>15. CASE Raises
    BY <1>4, <1>15 DEF Raises, VersionInv, OnePerTime, NoTwoVersions
  <1>16. CASE Revised \/ NewRow
    <2>1. UNCHANGED <<ask, pc, at, recent, acc>> /\ pc \notin {"done", "failed"}
      BY <1>16, VenueMoves
    <2>2. pc = "page" /\ ask.shape.fetch # "window" /\ at # None => PageVersions'
      BY <1>3, <1>16, VenueKeepsVersions DEF VersionInv
    <2> QED BY <1>3, <1>4, <2>1, <2>2 DEF VersionInv, OnePerTime, NoTwoVersions
  <1>17. CASE UNCHANGED vars
    BY <1>17 DEF vars, VersionInv, PageVersions, Alone, PageRows, OnePerTime, NoTwoVersions
  <1> QED BY <1>6, <1>7, <1>8, <1>9, <1>10, <1>11, <1>12, <1>13, <1>14, <1>15, <1>16, <1>17
          DEF Next, Ended

\* Two versions of a row, which the venue may revise between two pages that both
\* carry it, are returned only when nothing else is.  Excepted are windows of
\* sparse rows, and a venue that may ignore anchors and so send a row twice.
THEOREM ReadsReturnOneVersion == Spec => []NoTwoVersions
  <1>1. Init => VersionInv
    <2> SUFFICES ASSUME Init PROVE VersionInv
      OBVIOUS
    <2>1. recent = {} /\ acc = {} /\ pc # "done" /\ (pc = "page" => at = None)
      BY AskFacts DEF Init, Begin, Fits, AskOK
    <2> QED BY <2>1 DEF VersionInv, OnePerTime, NoTwoVersions
  <1>2. (Heeds => VersionInv) => NoTwoVersions
    BY DEF VersionInv, NoTwoVersions, Heeds
  <1>3. ReadInv /\ (Heeds => VersionInv) /\ [Next]_vars => (Heeds => VersionInv)'
    BY VersionStep, HeedsStays
  <1> QED BY <1>1, <1>2, <1>3, ReadAlways, PTL DEF Spec
-----------------------------------------------------------------------------
(* A read is exhaustive *)

Backward == ask.shape.fetch \in {"newest", "recent"}

\* A page has room for more rows than can share a timestamp, with one to spare.
Roomy == PageSize > 2 /\ ArchivePage > 1

\* The rows that were there all along are read down to current_end.
FullInv ==
    /\ pc = "direct" => ask.limit <= PageSize
    /\ pc = "page" /\ Backward =>
          /\ recent # {} => \A r \in Settled : first < r[1] => Has(recent, r)
          /\ at # None => \A r \in Settled : at < r[1] /\ Before(r, first) => Has(acc, r)
    /\ Exhaustive

\* Rows that hold every settled row are as many.
LEMMA HoldersAreAsMany ==
    ASSUME rows \in SUBSET Row, OnePerTime(rows), NEW T \in SUBSET Row,
           \A r \in Settled : Has(T, r)
    PROVE  Cardinality(Settled) \in Nat /\ Cardinality(Settled) <= Cardinality(T)
  <1>1. Settled \in SUBSET rows /\ Settled \in SUBSET Row
    BY DEF Settled, UpTo
  <1>2. CASE ask.shape.many
    <2>1. Settled \in SUBSET T
      BY <1>2 DEF Has
    <2> QED BY <2>1, Cards
  <1>3. CASE ~ask.shape.many
    <2> DEFINE f == [r \in Settled |-> CHOOSE q \in T : q[1] = r[1]]
    <2>1. \A r \in Settled : f[r] \in T /\ f[r][1] = r[1]
      BY <1>3 DEF Has
    <2>2. f \in [Settled -> T]
      BY <2>1
    <2>3. \A q, r \in Settled : f[q] = f[r] => q = r
      BY <1>1, <1>3, <2>1 DEF OnePerTime
    <2>4. DOMAIN f = Settled
      OBVIOUS
    <2> HIDE DEF f
    <2>5. f \in Injection(Settled, T)
      BY <2>2, <2>3, <2>4 DEF Injection, IsInjective
    <2> QED BY <1>1, <2>5, FS_Injection, RowsFinite
  <1> QED BY <1>2, <1>3

\* min() of two numbers.
LEMMA MinOf ==
    ASSUME NEW m \in Nat, NEW n \in Nat
    PROVE  Min({m, n}) \in Nat /\ Min({m, n}) <= m /\ Min({m, n}) <= n
  <1>1. \E x \in {m, n} : \A y \in {m, n} : x <= y
    OBVIOUS
  <1> QED BY <1>1 DEF Min

\* What the pagination returns is enough when what it has is.
LEMMA PagedIsEnough ==
    ASSUME ReadInv, pc = "page", NEW S \in SUBSET Row, \A q \in S : Before(q, first),
           Cardinality(S) >= total \/ \A r \in Settled : Has(S \cup recent, r)
    PROVE  Cardinality(PagedResult(S)) >= Min({ask.limit, Cardinality(Settled)})
  <1>1. /\ Types /\ rows \in SUBSET Row /\ recent \in SUBSET Row /\ OnePerTime(rows)
        /\ ask.limit \in Nat \ {0} /\ total \in Nat \ {0}
        /\ S \cup recent \in SUBSET Row
    BY AskFacts DEF ReadInv, Types
  <1>2. Settled \in SUBSET Row
    BY <1>1, SettledRows
  <1>3. /\ Cardinality(Settled) \in Nat /\ Cardinality(S) \in Nat /\ Cardinality(recent) \in Nat
        /\ Cardinality(S \cup recent) \in Nat
    BY <1>1, <1>2, RowsFinite
  <1>4. /\ Min({ask.limit, Cardinality(Settled)}) \in Nat
        /\ Min({ask.limit, Cardinality(Settled)}) <= ask.limit
        /\ Min({ask.limit, Cardinality(Settled)}) <= Cardinality(Settled)
    BY <1>1, <1>3, MinOf
  <1> DEFINE T == Cut(S, total)
             C == Combined(T)
  <1>5. T \in SUBSET S /\ T \in SUBSET Row /\ (T = S \/ Cardinality(T) = total)
    BY <1>1, CutFacts
  <1>6. Cardinality(S) >= total \/ Cardinality(Settled) <= Cardinality(S \cup recent)
    BY <1>1, HoldersAreAsMany
  <1> HIDE DEF T
  <1>7. CASE recent = {}
    <2>1. PagedResult(S) = T /\ total = ask.limit
      BY <1>7 DEF PagedResult, T, ReadInv, Paging
    <2>2. S \cup recent = S
      BY <1>7
    <2>3. CASE Cardinality(T) = total
      BY <1>1, <1>4, <2>1, <2>3
    <2>4. CASE T = S
      <3>1. Cardinality(S \cup recent) = Cardinality(S)
        BY <2>2
      <3>2. Cardinality(PagedResult(S)) = Cardinality(S)
        BY <2>1, <2>4
      <3> QED BY <1>1, <1>3, <1>4, <1>6, <2>1, <3>1, <3>2
    <2> QED BY <1>5, <2>3, <2>4
  <1>8. CASE recent # {}
    <2>1. /\ total = ask.limit - Cardinality(recent)
          /\ \A q \in recent : first < q[1]
          /\ first \in Nat
      BY <1>8, PageAnchor DEF ReadInv, Paging
    <2>2. \A q \in recent \cup T : q[1] \in Nat
      BY <1>1, <1>5, RowFacts
    <2>3. \A q \in T : q[1] <= first
      BY <1>5, <2>1, SeriesConstants DEF Before
    <2>4. T \cap recent = {} /\ C = T \cup recent
      BY <2>1, <2>2, <2>3 DEF Combined, TimesOf
    <2>5. Cardinality(C) = Cardinality(T) + Cardinality(recent)
      <3>1. IsFiniteSet(T) /\ IsFiniteSet(recent) /\ Cardinality(T) \in Nat
        BY <1>1, <1>5, RowsFinite
      <3>2. Cardinality(T \cup recent)
              = Cardinality(T) + Cardinality(recent) - Cardinality(T \cap recent)
        BY <3>1, FS_Union
      <3>3. Cardinality(T \cap recent) = 0
        BY <2>4, FS_EmptySet
      <3>4. Cardinality(C) = Cardinality(T \cup recent)
        BY <2>4
      <3> QED BY <1>3, <3>1, <3>2, <3>3, <3>4
    <2>6. C \in SUBSET Row
      BY <1>1, <1>5, <2>4
    <2>7. Cardinality(C) \in Nat /\ Cardinality(T) \in Nat
      BY <1>5, <2>6, RowsFinite
    <2> HIDE DEF C
    <2>8. Cut(C, ask.limit) = C \/ Cardinality(Cut(C, ask.limit)) = ask.limit
      BY <1>1, <2>6, CutFacts
    <2>9. Cardinality(C) >= Min({ask.limit, Cardinality(Settled)})
      <3>1. CASE Cardinality(T) = total
        BY <1>1, <1>3, <1>4, <2>1, <2>5, <3>1
      <3>2. CASE T = S /\ ~(Cardinality(S) >= total)
        BY <1>3, <1>4, <1>6, <2>4, <2>7, <3>2
      <3>3. CASE T = S /\ Cardinality(S) >= total
        BY <1>1, <1>3, <1>4, <2>1, <2>5, <3>3
      <3> QED BY <1>5, <3>1, <3>2, <3>3
    <2>10. PagedResult(S) = Cut(C, ask.limit)
      BY <1>8 DEF PagedResult, C, T
    <2> QED BY <1>1, <1>4, <2>8, <2>9, <2>10
  <1> QED BY <1>7, <1>8

\* Rows of the venue that share a timestamp.
LEMMA GroupIsSmall ==
    ASSUME rows \in SUBSET Row, OnePerTime(rows), NEW S \in SUBSET rows, NEW t \in Nat,
           \A r \in S : r[1] = t
    PROVE  Cardinality(S) <= 2 /\ (~ask.shape.many => Cardinality(S) <= 1)
  <1> DEFINE x == <<t, 0>>
             y == <<t, 1>>
  <1>1. \A r \in S : r = x \/ r = y
    <2> SUFFICES ASSUME NEW r \in S PROVE r = x \/ r = y
      OBVIOUS
    <2>1. r \in Times \X {0, 1}
      BY DEF Row
    <2>2. r = <<r[1], r[2]>> /\ r[2] \in {0, 1}
      BY <2>1
    <2> QED BY <2>2
  <1>2. x # y
    OBVIOUS
  <1>3. ~ask.shape.many => S = {} \/ S = {x} \/ S = {y}
    BY <1>1, <1>2 DEF OnePerTime
  <1> HIDE DEF x, y
  <1>4. Cardinality({}) = 0 /\ Cardinality({x}) = 1 /\ Cardinality({y}) = 1
        /\ IsFiniteSet({x})
    BY FS_EmptySet, FS_Singleton
  <1>5. Cardinality({x} \cup {y}) = Cardinality({x}) + 1 /\ IsFiniteSet({x} \cup {y})
    BY <1>2, <1>4, FS_AddElement
  <1>6. S \in SUBSET ({x} \cup {y})
    BY <1>1
  <1>7. Cardinality(S) <= Cardinality({x} \cup {y}) /\ Cardinality(S) \in Nat
    BY <1>5, <1>6, FS_Subset, FS_CardinalityType
  <1>8. Cardinality(S) <= 2
    BY <1>4, <1>5, <1>7
  <1> QED BY <1>3, <1>4, <1>8

\* A page that does not go back past current_end has every row up to it.
LEMMA LastGroup ==
    ASSUME ReadInv, Roomy, pc = "page", Backward, NEW p \in Page(End, PageRows),
           at = None => p = {},
           at # None => \A a \in p : at <= a[1]
    PROVE  \A r \in rows : Before(r, End) => r \in p
  <1>1. /\ rows \in SUBSET Row /\ OnePerTime(rows) /\ PageRows \in Nat \ {0}
        /\ End = None \/ End \in Nat
        /\ at = None \/ at \in Nat
        /\ at # None => \A a \in p : a[1] <= at
    BY PageAnchor, PageAdds, AskFacts DEF ReadInv, Types, Backward, Heeds
  <1> DEFINE U == UpTo(rows, End)
  <1>2. U \in SUBSET Row /\ U \in SUBSET rows
    BY <1>1 DEF UpTo
  <1>3. p = Newest(U, PageRows)
    BY DEF Page, Backward
  <1>4. \A r \in rows : Before(r, End) => r \in U
    BY DEF UpTo, Before
  <1> HIDE DEF U
  <1>5. p \in SUBSET U /\ (p = U \/ Cardinality(p) = PageRows)
    BY <1>1, <1>2, <1>3, NewestFacts
  <1>6. Cardinality(p) # PageRows
    <2>1. CASE at = None
      BY <1>1, <2>1, FS_EmptySet
    <2>2. CASE at # None
      <3>1. \A a \in p : a[1] \in Nat
        BY <1>2, <1>5, RowFacts
      <3>2. \A a \in p : a[1] = at
        BY <1>1, <2>2, <3>1
      <3>3. /\ Cardinality(p) <= 2 /\ (~ask.shape.many => Cardinality(p) <= 1)
            /\ Cardinality(p) \in Nat
        BY <1>1, <1>2, <1>5, <2>2, <3>2, GroupIsSmall, RowsFinite
      <3>4. ask.shape.fetch = "recent" => ~ask.shape.many
        BY AskFacts DEF ReadInv, Types, Fits
      <3> QED BY <3>3, <3>4, SeriesConstants DEF Roomy, PageRows
    <2> QED BY <2>1, <2>2
  <1> QED BY <1>4, <1>5, <1>6

\* Then every settled row was read.
LEMMA AllIsRead ==
    ASSUME ReadInv, Roomy, FullInv, pc = "page", Backward, NEW p \in Page(End, PageRows),
           at = None => p = {},
           at # None => \A a \in p : at <= a[1]
    PROVE  \A r \in Settled : Has((acc \cup p) \cup recent, r)
  <1> SUFFICES ASSUME NEW r \in Settled PROVE Has((acc \cup p) \cup recent, r)
    OBVIOUS
  <1>1. /\ rows \in SUBSET Row /\ r \in rows /\ r[1] \in Nat /\ Before(r, Anchor)
        /\ first = None \/ first \in Nat
        /\ at = None \/ at \in Nat
    BY PageAnchor, SettledRows, RowFacts
  <1>2. CASE Before(r, End)
    <2>1. r \in p
      BY <1>1, <1>2, LastGroup
    <2> QED BY <2>1 DEF Has
  <1>3. CASE Before(r, first) /\ ~Before(r, End)
    <2>1. at # None /\ at < r[1]
      BY <1>1, <1>3 DEF End, Before
    <2>2. Has(acc, r)
      BY <1>3, <2>1 DEF FullInv
    <2> QED BY <2>2 DEF Has
  <1>4. CASE ~Before(r, first)
    <2>1. recent # {} /\ first < r[1]
      BY <1>1, <1>4 DEF Before, ReadInv, Paging
    <2>2. Has(recent, r)
      BY <2>1 DEF FullInv
    <2> QED BY <2>2 DEF Has
  <1> QED BY <1>2, <1>3, <1>4

\* A step that returns enough rows, that was cut short, or that is not backward.
LEMMA EnoughReturned ==
    ASSUME UNCHANGED <<ask, rows, fresh>>, pc' = "done",
           \/ short'
           \/ ~Backward
           \/ Cardinality(result') >= Min({ask.limit, Cardinality(Settled)})
    PROVE  FullInv'
  <1>1. Settled' = Settled
    BY DEF Settled, UpTo, Anchor
  <1> QED BY <1>1 DEF FullInv, Exhaustive, Backward

\* The newest rows of a direct request, and of the recent page of OKX.
LEMMA DirectIsEnough ==
    ASSUME ReadInv, FullInv, pc = "direct", Backward,
           NEW p \in (IF ask.shape.fetch = "recent" THEN {RecentPage(None, ask.limit)}
                      ELSE Page(None, ask.limit))
    PROVE  Cardinality(Cut(p, ask.limit)) >= Min({ask.limit, Cardinality(Settled)})
  <1>1. /\ rows \in SUBSET Row /\ ask.limit \in Nat \ {0} /\ ask.limit <= PageSize /\ AskOK
        /\ VenueKeeps \in Nat /\ PageSize <= VenueKeeps /\ PageSize \in Nat
    BY AskFacts, SeriesConstants DEF ReadInv, Types, FullInv
  <1>2. Settled \in SUBSET rows /\ Settled \in SUBSET Row
    BY <1>1, SettledRows
  <1>3. /\ Cardinality(Settled) \in Nat /\ Cardinality(rows) \in Nat
        /\ Cardinality(Settled) <= Cardinality(rows)
    BY <1>1, <1>2, Cards
  <1>4. /\ Min({ask.limit, Cardinality(Settled)}) \in Nat
        /\ Min({ask.limit, Cardinality(Settled)}) <= ask.limit
        /\ Min({ask.limit, Cardinality(Settled)}) <= Cardinality(Settled)
    BY <1>1, <1>3, MinOf
  <1>5. p \in SUBSET Row /\ (Cardinality(p) >= ask.limit \/ p = rows)
    <2>1. CASE ask.shape.fetch = "recent"
      <3> DEFINE K == Newest(rows, VenueKeeps)
      <3>1. K \in SUBSET Row /\ (K = rows \/ Cardinality(K) = VenueKeeps)
        BY <1>1, NewestFacts
      <3>2. p = Newest(K, ask.limit)
        BY <2>1 DEF RecentPage, UpTo
      <3> HIDE DEF K
      <3>3. p \in SUBSET K /\ (p = K \/ Cardinality(p) = ask.limit)
        BY <1>1, <3>1, <3>2, NewestFacts
      <3> QED BY <1>1, <3>1, <3>3
    <2>2. CASE ask.shape.fetch = "newest"
      <3>1. p = Newest(rows, ask.limit)
        BY <2>2 DEF Page, UpTo
      <3> QED BY <1>1, <3>1, NewestFacts
    <2> QED BY <2>1, <2>2 DEF Backward
  <1>6. Cut(p, ask.limit) = p \/ Cardinality(Cut(p, ask.limit)) = ask.limit
    BY <1>1, <1>5, CutFacts
  <1>7. Cardinality(p) \in Nat
    BY <1>5, RowsFinite
  <1> QED BY <1>1, <1>3, <1>4, <1>5, <1>6, <1>7

\* The rows that were there all along stay so.
LEMMA SettledStays ==
    ASSUME ReadInv, Revised \/ NewRow, NEW r \in Settled'
    PROVE  \E q \in Settled : q[1] = r[1] /\ \A S : Has(S, q) => Has(S, r)
  <1>1. /\ UNCHANGED ask /\ fresh \subseteq fresh'
        /\ Has(rows, r) \/ r[1] \in fresh'
    BY VenueMoves DEF Settled, UpTo
  <1>2. r \in rows' /\ Before(r, Anchor) /\ r[1] \notin fresh'
    BY <1>1 DEF Settled, UpTo, Before, Anchor
  <1>3. PICK q \in rows : q[1] = r[1] /\ \A S : Has(S, q) => Has(S, r)
    BY <1>1, <1>2 DEF Has
  <1>4. q \in Settled
    BY <1>1, <1>2, <1>3 DEF Settled, UpTo, Before
  <1> QED BY <1>3, <1>4

\* Every step keeps the rows that were there all along.
LEMMA FullStep == Roomy /\ Heeds /\ ReadInv /\ FullInv /\ [Next]_vars => FullInv'
  <1> SUFFICES ASSUME Roomy, Heeds, ReadInv, FullInv, [Next]_vars PROVE FullInv'
    OBVIOUS
  <1>1. rows \in SUBSET Row /\ acc \in SUBSET Row /\ AskOK /\ Types
        /\ ask.limit \in Nat \ {0} /\ (Anchor = None \/ Anchor \in Nat)
    BY AskFacts DEF ReadInv, Types
  <1>2. CASE Direct
    <2>1. PICK p \in (IF ask.shape.fetch = "recent" THEN {RecentPage(None, ask.limit)}
                      ELSE Page(None, ask.limit)) : Return(Cut(p, ask.limit), FALSE)
      BY <1>2 DEF Direct
    <2>2. pc = "direct" /\ pc' = "done" /\ result' = Cut(p, ask.limit)
          /\ UNCHANGED <<ask, rows, fresh>>
      BY <1>2, <2>1 DEF Direct, Return, venue
    <2> QED BY <2>1, <2>2, DirectIsEnough, EnoughReturned
  <1>3. CASE Bulk
    <2>1. pc' = "done" /\ UNCHANGED <<ask, rows, fresh>> /\ ~Backward
      BY <1>3 DEF Bulk, Return, venue, ReadInv, Starts, Backward
    <2> QED BY <2>1, EnoughReturned
  <1>4. CASE NextPage
    <2>1. pc = "page" /\ UNCHANGED <<ask, first, recent, rows, fresh>>
      BY <1>4, PageOutcomes
    <2>2. PICK p \in Page(End, PageRows) : NothingNew(p) \/ LastPage(p) \/ OnePage(p)
      BY <1>4, PageOutcomes
    <2>3. /\ acc \cup p \in SUBSET Row /\ p \in SUBSET Row
          /\ \A a \in acc \cup p : Before(a, first)
          /\ TopPart(p, End)
          /\ p # {} => /\ NextEnd(p) \in Nat /\ NextEnd(p) > 0
                       /\ \E a \in p : a[1] = NextEnd(p)
                       /\ \A a \in acc \cup p : NextEnd(p) <= a[1]
      BY <2>1, PageAdds
    <2>4. /\ at = None => acc = {}
          /\ at # None => at \in Nat /\ \A a \in acc : at <= a[1]
          /\ \A q \in acc \cup p : q[1] \in Nat
      BY <2>1, <2>3, PageAnchor, RowFacts DEF ReadInv, Paging
    <2>5. CASE NothingNew(p)
      <3>1. pc' = "done" /\ result' = PagedResult(acc) /\ p \subseteq acc
        BY <2>5 DEF NothingNew, Return
      <3>2. ASSUME Backward
            PROVE  Cardinality(PagedResult(acc)) >= Min({ask.limit, Cardinality(Settled)})
        <4>1. acc \cup p = acc
          BY <3>1
        <4>2. \A r \in Settled : Has((acc \cup p) \cup recent, r)
          BY <2>1, <2>4, <3>1, <3>2, AllIsRead
        <4>3. \A r \in Settled : Has(acc \cup recent, r)
          BY <4>1, <4>2
        <4> QED BY <1>1, <2>1, <2>3, <4>3, PagedIsEnough
      <3> QED BY <2>1, <3>1, <3>2, EnoughReturned
    <2>6. CASE LastPage(p)
      <3>1. /\ pc' = "done" /\ result' = PagedResult(acc \cup p) /\ p # {}
            /\ short' = (Cardinality(acc \cup p) < total /\ pages + 1 >= MaxPages)
            /\ ~Goes(p, acc \cup p)
        BY <2>6 DEF LastPage, Return
      <3>2. CASE Cardinality(acc \cup p) >= total
        BY <2>1, <2>3, <3>1, <3>2, PagedIsEnough, EnoughReturned
      <3>3. CASE ~(Cardinality(acc \cup p) >= total) /\ pages + 1 >= MaxPages
        <4>1. Cardinality(acc \cup p) < total
          BY <1>1, <2>3, <3>3, RowsFinite DEF Types
        <4> QED BY <2>1, <3>1, <3>3, <4>1, EnoughReturned
      <3>4. CASE /\ ~(Cardinality(acc \cup p) >= total) /\ ~(pages + 1 >= MaxPages)
                 /\ Backward
        <4>1. Cardinality(acc \cup p) < total /\ pages + 1 < MaxPages
          BY <1>1, <2>3, <3>4, RowsFinite, SeriesConstants DEF Types
        <4>2. at # None /\ ~(NextEnd(p) < at)
          BY <2>3, <3>1, <4>1 DEF Goes
        <4>3. \A a \in p : at <= a[1]
          BY <2>3, <2>4, <3>1, <4>2
        <4>4. \A r \in Settled : Has((acc \cup p) \cup recent, r)
          BY <2>1, <3>4, <4>2, <4>3, AllIsRead
        <4> QED BY <2>1, <2>3, <3>1, <4>4, PagedIsEnough, EnoughReturned
      <3> QED BY <2>1, <3>1, <3>2, <3>3, <3>4, EnoughReturned
    <2>7. CASE OnePage(p)
      <3>1. /\ pc' = "page" /\ acc' = acc \cup p /\ at' = NextEnd(p) /\ p # {}
        BY <2>1, <2>7 DEF OnePage
      <3>2. Settled' = Settled /\ Backward' = Backward
        BY <2>1 DEF Settled, UpTo, Anchor, Backward
      <3>3. ASSUME Backward, NEW r \in Settled, NextEnd(p) < r[1], Before(r, first)
            PROVE  Has(acc \cup p, r)
        <4>1. r \in rows /\ r[1] \in Nat
          BY <1>1, SettledRows, RowFacts
        <4>2. CASE Before(r, End)
          <5>1. r \in p
            BY <2>3, <3>1, <3>3, <4>1, <4>2 DEF TopPart
          <5> QED BY <5>1 DEF Has
        <4>3. CASE ~Before(r, End)
          <5>1. at # None /\ at < r[1]
            BY <2>4, <3>3, <4>1, <4>3 DEF End, Before
          <5>2. Has(acc, r)
            BY <2>1, <3>3, <5>1 DEF FullInv
          <5> QED BY <5>2 DEF Has
        <4> QED BY <4>2, <4>3
      <3>4. Backward /\ recent # {} => \A r \in Settled : first < r[1] => Has(recent, r)
        BY <2>1 DEF FullInv
      <3> QED BY <2>1, <3>1, <3>2, <3>3, <3>4 DEF FullInv, Exhaustive, Has, Before
    <2> QED BY <2>2, <2>5, <2>6, <2>7
  <1>5. CASE Recent
    <2>1. /\ pc = "recent" /\ UNCHANGED <<ask, at, acc, rows, fresh>> /\ at = None
          /\ recent = {} /\ ask.shape.fetch = "recent"
      BY <1>5, RecentOutcomes DEF ReadInv, Starts
    <2>2. /\ TopPart(RecentRows, Anchor) /\ RecentRows \in SUBSET Row
          /\ Cardinality(RecentRows) \in Nat
      BY <2>1, RecentAdds
    <2>3. CASE NoRecent
      BY <2>1, <2>3 DEF NoRecent, FullInv, Exhaustive
    <2>4. CASE RecentIsAll
      <3>1. pc' = "done" /\ result' = Cut(RecentRows, ask.limit)
            /\ Cardinality(RecentRows) >= ask.limit
        BY <2>4 DEF RecentIsAll, Return
      <3>2. Cardinality(Cut(RecentRows, ask.limit)) >= ask.limit
        <4>1. ask.limit \in Nat \ {0}
          BY <1>1
        <4>2. \/ Cut(RecentRows, ask.limit) = RecentRows
              \/ Cardinality(Cut(RecentRows, ask.limit)) = ask.limit
          BY <2>2, <4>1, CutFacts
        <4> QED BY <3>1, <4>1, <4>2
      <3>3. Cardinality(Cut(RecentRows, ask.limit)) \in Nat
        BY <1>1, <2>2, CutFacts, RowsFinite
      <3>4. Settled \in SUBSET Row
        BY <1>1, SettledRows
      <3>5. Min({ask.limit, Cardinality(Settled)}) \in Nat
            /\ Min({ask.limit, Cardinality(Settled)}) <= ask.limit
        BY <1>1, <3>4, RowsFinite, MinOf
      <3>6. Cardinality(result') >= Min({ask.limit, Cardinality(Settled)})
        BY <1>1, <3>1, <3>2, <3>3, <3>5
      <3> QED BY <2>1, <3>1, <3>6, EnoughReturned
    <2>5. CASE RecentFirst
      <3>1. /\ pc' = "page" /\ recent' = RecentRows /\ first' = Oldest(RecentRows) - 1
            /\ RecentRows # {}
        BY <2>5 DEF RecentFirst
      <3>2. Settled' = Settled /\ ~ask.shape.many
        BY <1>1, <2>1, AskFacts DEF Settled, UpTo, Anchor, Fits
      <3>3. /\ Oldest(RecentRows) \in Nat
            /\ \E m \in RecentRows : m[1] = Oldest(RecentRows)
        BY <2>2, <3>1, Ends
      <3>4. ASSUME NEW r \in Settled, Oldest(RecentRows) - 1 < r[1]
            PROVE  \E q \in RecentRows : q[1] = r[1]
        <4>1. r \in rows /\ r[1] \in Nat /\ Before(r, Anchor)
          BY <1>1, SettledRows, RowFacts
        <4>2. CASE r[1] = Oldest(RecentRows)
          BY <3>3, <4>2
        <4>3. CASE r[1] # Oldest(RecentRows)
          <5>1. Oldest(RecentRows) < r[1]
            BY <3>3, <3>4, <4>1, <4>3
          <5>2. r \in RecentRows
            BY <2>2, <3>3, <4>1, <5>1 DEF TopPart
          <5> QED BY <5>2
        <4> QED BY <4>2, <4>3
      <3> QED BY <2>1, <3>1, <3>2, <3>4 DEF FullInv, Exhaustive, Has
    <2> QED BY <1>5, <2>3, <2>4, <2>5, RecentOutcomes
  <1>6. CASE Walk
    <2>1. pc = "walk" /\ ~Backward /\ UNCHANGED <<ask, rows, fresh>>
      BY <1>6, WalkOutcomes DEF ReadInv, Walks, Backward
    <2>2. pc' = "done" \/ pc' = "walk"
      BY <1>6, <2>1, WalkOutcomes DEF WalkEnds, WalkArrives, WalkGoes, Return
    <2>3. CASE pc' = "done"
      BY <2>1, <2>3, EnoughReturned
    <2>4. CASE pc' = "walk"
      BY <2>4 DEF FullInv, Exhaustive
    <2> QED BY <2>2, <2>3, <2>4
  <1>7. CASE AnchoredWindow \/ RecentFunding \/ OlderFunding
    <2>1. ~Backward /\ UNCHANGED <<ask, rows, fresh>>
      BY <1>7 DEF AnchoredWindow, RecentFunding, OlderFunding, venue, ReadInv, Starts, Olders,
         Backward
    <2>2. pc' \in {"done", "older", "failed"}
      BY <1>7, AnchoredOutcome, FundingOutcomes, OlderOutcome
         DEF FundingIsAll, FundingFirst, NoFunding, OlderStep, Return
    <2>3. CASE pc' = "done"
      BY <2>1, <2>3, EnoughReturned
    <2>4. CASE pc' # "done"
      BY <2>2, <2>4 DEF FullInv, Exhaustive
    <2> QED BY <2>3, <2>4
  <1>8. CASE Rejected
    <2>1. pc' = "done" /\ short' /\ UNCHANGED <<ask, rows, fresh>>
      BY <1>8 DEF Rejected, Return, venue
    <2> QED BY <2>1, EnoughReturned
  <1>9. CASE Raises
    BY <1>9 DEF Raises, FullInv, Exhaustive
  <1>10. CASE Revised \/ NewRow
    <2>1. UNCHANGED <<ask, pc, first, at, recent, acc>> /\ pc \notin {"done", "failed"}
      BY <1>10, VenueMoves
    <2>2. ASSUME pc = "page", Backward, recent # {}, NEW r \in Settled', first < r[1]
          PROVE  Has(recent, r)
      <3>1. PICK q \in Settled : q[1] = r[1] /\ \A S : Has(S, q) => Has(S, r)
        BY <1>10, SettledStays
      <3> QED BY <2>2, <3>1 DEF FullInv
    <2>3. ASSUME pc = "page", Backward, at # None, NEW r \in Settled', at < r[1],
                 Before(r, first)
          PROVE  Has(acc, r)
      <3>1. PICK q \in Settled : q[1] = r[1] /\ \A S : Has(S, q) => Has(S, r)
        BY <1>10, SettledStays
      <3> QED BY <2>3, <3>1 DEF FullInv, Before
    <2> QED BY <2>1, <2>2, <2>3 DEF FullInv, Exhaustive, Backward, Has, Before
  <1>11. CASE UNCHANGED vars
    <2>1. Settled' = Settled
      BY <1>11 DEF vars, Settled, UpTo, Anchor
    <2> QED BY <1>11, <2>1 DEF vars, FullInv, Exhaustive, Backward, Has, Before
  <1> QED BY <1>2, <1>3, <1>4, <1>5, <1>6, <1>7, <1>8, <1>9, <1>10, <1>11 DEF Next, Ended

\* A read that no failure and no cap cut short returns as many rows as were
\* asked for or all there are, provided a page is larger than a group of rows
\* that share a timestamp: otherwise the next page may be that group again, and
\* the pagination stops at it.
THEOREM ReadsAreExhaustive == (PageSize > 2 /\ ArchivePage > 1) => (Spec => []Exhaustive)
  <1> SUFFICES ASSUME Roomy PROVE Spec => []Exhaustive
    BY DEF Roomy
  <1>1. Init => FullInv
    <2> SUFFICES ASSUME Init PROVE FullInv
      OBVIOUS
    <2>1. /\ recent = {} /\ pc # "done" /\ (pc = "page" => at = None)
          /\ pc = "direct" => ask.limit <= PageSize
      BY AskFacts DEF Init, Begin, Fits, AskOK, IsDirect
    <2> QED BY <2>1 DEF FullInv, Exhaustive
  <1>2. ReadInv /\ (Heeds => FullInv) /\ [Next]_vars => (Heeds => FullInv)'
    BY FullStep, HeedsStays
  <1>3. (Heeds => FullInv) => Exhaustive
    BY DEF FullInv, Exhaustive, Heeds
  <1> QED BY <1>1, <1>2, <1>3, ReadAlways, PTL DEF Spec
=============================================================================
