------------------------------- MODULE Methods -------------------------------
(***************************************************************************)
(* What each get_* method of the six adapters does, in the order in which  *)
(* it does it.  A method is the market types it raises NotImplementedError *)
(* for and the steps it takes otherwise:                                   *)
(*                                                                         *)
(*   "get"      a request; any failure, or an answer that will not parse,  *)
(*              fails the call                                             *)
(*   "lenient"  a request whose rejection by the venue is ignored          *)
(*   "any"      a request whose failure of whatever kind is ignored        *)
(*   "info"     the exchange-info table, fetched when it is not cached     *)
(*              (lookups that follow one another count once)               *)
(*   "resolve"  the spot symbol map, loaded if possible; a symbol that is  *)
(*              not in a loaded map is refused                             *)
(*   "guess"    the same, but an unlisted symbol falls back to a heuristic *)
(*   "listed"   ValueError unless the info table has the symbol            *)
(*   "found"    ValueError unless the answer has what was asked for        *)
(*   "table"    LookupError unless the asset's margin table is listed      *)
(*   "mult"     ValueError on a linear market without contract multiplier  *)
(*   "interval" ValueError unless the interval is one of `maps`            *)
(*   "pages"    the time series, read as `pages` says                      *)
(*                                                                         *)
(* Building the model objects (prices, quantities, units) is left out.     *)
(***************************************************************************)
EXTENDS Sequences

Intervals == {"1m", "3m", "5m", "15m", "30m", "1h", "2h", "4h", "6h", "8h", "12h",
              "1d", "3d", "1w", "1M"}

\* How a series is read.  fetch: what one request returns,
\*   "newest"   the newest rows up to the anchor
\*   "latest"   the same, or the newest rows of all: the venue may ignore the
\*              anchor
\*   "window"   the rows of a window of one page that ends at the anchor
\*   "bulk"     one request for what the venue keeps, cut at the anchor
\*   "walk"     pages forward, from `limit` rows before the anchor
\*   "recent"   a page of recent rows, then pages of an archive
\*   "cadence"  a page of recent rows, then windows before it
\* direct: when a single unpaged request is made; zero: 0 is an anchor like
\* any other; quiet: a page the venue rejects counts as an empty one; many:
\* rows may share a timestamp.
Pages(fetch, direct) ==
  [fetch |-> fetch, direct |-> direct, zero |-> FALSE, quiet |-> FALSE, many |-> FALSE]

NoPages == Pages("none", "never")

Reads(refused, steps) ==
  [refused |-> refused, steps |-> steps, maps |-> Intervals, pages |-> NoPages]

Series(refused, steps, pages) == [Reads(refused, steps) EXCEPT !.pages = pages]

AllMarkets == {"spot", "linear", "inverse"}

\* The methods of the base class, and overrides that only refuse.
Unserved == Reads(AllMarkets, <<>>)

-----------------------------------------------------------------------------
BinanceTicker       == Reads({}, <<"get", "info">>)
BinanceBookTicker   == Reads({}, <<"get", "info">>)
BinanceOrderbook    == Reads({}, <<"get", "info">>)
BinanceTrades       == Reads({}, <<"get", "info">>)
BinanceAggTrades    == Series({}, <<"info", "pages">>,
                              [Pages("newest", "falsy") EXCEPT !.many = TRUE])
BinanceCandles      == Series({}, <<"info", "pages">>, Pages("newest", "unanchored"))
BinanceMarkPrice    == Reads({"spot"}, <<"get", "info">>)
BinanceFundingRate  == Series({"spot"}, <<"info", "pages">>,
                              [Pages("cadence", "never") EXCEPT !.zero = TRUE])
BinanceOpenInterest == Series({"spot"}, <<"info", "pages">>, Pages("newest", "never"))
BinanceLiquidations == Unserved
BinanceLongShort    == Series({"spot"}, <<"pages">>, Pages("newest", "never"))
BinanceSymbolInfo   == Reads({}, <<"info", "listed">>)
BinanceInfo(mt)     == IF mt = "spot" THEN <<"get">> ELSE <<"get", "any">>

BinanceMethod ==
  [ticker |-> BinanceTicker, book_ticker |-> BinanceBookTicker, orderbook |-> BinanceOrderbook,
   trades |-> BinanceTrades, agg_trades |-> BinanceAggTrades, candles |-> BinanceCandles,
   mark_price |-> BinanceMarkPrice, funding_rate |-> BinanceFundingRate,
   open_interest |-> BinanceOpenInterest, liquidations |-> BinanceLiquidations,
   long_short_ratio |-> BinanceLongShort, margin_tiers |-> Unserved,
   symbol_info |-> BinanceSymbolInfo]

-----------------------------------------------------------------------------
BybitTicker       == Reads({}, <<"get", "found", "info">>)
BybitBookTicker   == Reads({}, <<"get", "found", "info">>)
BybitOrderbook    == Reads({}, <<"get", "info">>)
BybitTrades       == Reads({}, <<"get", "info">>)
BybitAggTrades    == Unserved
BybitCandles      == Series({}, <<"info", "pages">>, Pages("newest", "unanchored"))
BybitMarkPrice    == Reads({"spot"}, <<"get", "found", "info">>)
BybitFundingRate  == Series({"spot"}, <<"info", "pages">>, Pages("newest", "never"))
BybitOpenInterest == Series({"spot"}, <<"info", "pages">>, Pages("newest", "never"))
BybitLongShort    == Series({"spot"}, <<"pages">>, Pages("latest", "never"))
BybitMarginTiers  == Reads({"spot"}, <<"info", "listed", "get">>)
BybitSymbolInfo   == Reads({}, <<"info", "listed">>)
\* The instruments come in pages by cursor; one request stands for them.
BybitInfo         == <<"get">>

BybitMethod ==
  [ticker |-> BybitTicker, book_ticker |-> BybitBookTicker, orderbook |-> BybitOrderbook,
   trades |-> BybitTrades, agg_trades |-> BybitAggTrades, candles |-> BybitCandles,
   mark_price |-> BybitMarkPrice, funding_rate |-> BybitFundingRate,
   open_interest |-> BybitOpenInterest, liquidations |-> Unserved,
   long_short_ratio |-> BybitLongShort, margin_tiers |-> BybitMarginTiers,
   symbol_info |-> BybitSymbolInfo]

-----------------------------------------------------------------------------
\* _lookup: every method first finds the coin of the symbol.
HyperliquidLookup       == <<"info", "listed">>
\* _ctx_snapshot and _asset_ctx: the coin's context, which may lack a price.
HyperliquidCtx          == <<"get", "found">>
\* _high_low_24h: the day's candles.
HyperliquidHighLow      == <<"get">>
HyperliquidTicker       == Reads({}, HyperliquidLookup \o HyperliquidCtx \o HyperliquidHighLow)
HyperliquidBookTicker   == Reads({}, HyperliquidLookup \o <<"get", "found">>)
HyperliquidOrderbook    == Reads({}, HyperliquidLookup \o <<"get", "found">>)
HyperliquidTrades       == Reads({}, HyperliquidLookup \o <<"get">>)
HyperliquidAggTrades    == Unserved
HyperliquidCandles      == Series({}, HyperliquidLookup \o <<"interval", "pages">>,
                                  [Pages("window", "unanchored") EXCEPT !.zero = TRUE])
HyperliquidMarkPrice    == Reads({"spot", "inverse"}, HyperliquidLookup \o HyperliquidCtx)
HyperliquidFundingRate  == Series({"spot", "inverse"}, HyperliquidLookup \o <<"pages">>,
                                  [Pages("window", "never") EXCEPT !.zero = TRUE])
HyperliquidOpenInterest == Reads({"spot", "inverse"}, HyperliquidLookup \o HyperliquidCtx)
HyperliquidMarginTiers  == Reads({"spot", "inverse"}, HyperliquidLookup \o <<"table">>)
HyperliquidSymbolInfo   == Reads({}, <<"info", "listed">>)
\* The builder exchanges are listed, then read one by one; both are optional.
HyperliquidInfo(mt)     == IF mt = "spot" THEN <<"get">> ELSE <<"get", "any", "any">>

HyperliquidMethod ==
  [ticker |-> HyperliquidTicker, book_ticker |-> HyperliquidBookTicker,
   orderbook |-> HyperliquidOrderbook, trades |-> HyperliquidTrades,
   agg_trades |-> HyperliquidAggTrades, candles |-> HyperliquidCandles,
   mark_price |-> HyperliquidMarkPrice, funding_rate |-> HyperliquidFundingRate,
   open_interest |-> HyperliquidOpenInterest, liquidations |-> Unserved,
   long_short_ratio |-> Unserved, margin_tiers |-> HyperliquidMarginTiers,
   symbol_info |-> HyperliquidSymbolInfo]

-----------------------------------------------------------------------------
KrakenSpotIntervals      == {"1m", "5m", "15m", "30m", "1h", "4h", "1d", "1w"}
KrakenAnalyticsIntervals == {"1m", "5m", "15m", "30m", "1h", "4h", "12h", "1d"}

KrakenSpotTicker     == Reads({}, <<"info", "get">>)
KrakenFuturesTicker  == Reads({}, <<"info", "get", "found">>)
KrakenBookTicker     == Reads({}, <<"info", "get", "found">>)
KrakenOrderbook      == Reads({}, <<"info", "get">>)
KrakenTrades         == Reads({}, <<"info", "get">>)
KrakenAggTrades      == Unserved
KrakenSpotCandles    == [Series({}, <<"info", "interval", "pages">>, Pages("bulk", "never"))
                           EXCEPT !.maps = KrakenSpotIntervals]
KrakenFuturesCandles == [Series({}, <<"info", "interval", "pages">>, Pages("walk", "never"))
                           EXCEPT !.maps = KrakenAnalyticsIntervals \cup {"1w"}]
KrakenMarkPrice      == Reads({"spot"}, <<"info", "get", "found">>)
KrakenFundingRate    == Series({"spot"}, <<"pages", "info">>, Pages("bulk", "never"))
KrakenOpenInterest   == [Series({"spot"}, <<"interval", "pages", "info">>, Pages("bulk", "never"))
                           EXCEPT !.maps = KrakenAnalyticsIntervals]
KrakenLiquidations   == Unserved
KrakenLongShort      == [Series({"spot"}, <<"interval", "pages">>, Pages("bulk", "never"))
                           EXCEPT !.maps = KrakenAnalyticsIntervals]
KrakenSymbolInfo     == Reads({}, <<"info", "listed">>)
KrakenInfo           == <<"get">>

KrakenMethod(mt) ==
  [ticker |-> IF mt = "spot" THEN KrakenSpotTicker ELSE KrakenFuturesTicker,
   book_ticker |-> KrakenBookTicker, orderbook |-> KrakenOrderbook, trades |-> KrakenTrades,
   agg_trades |-> KrakenAggTrades,
   candles |-> IF mt = "spot" THEN KrakenSpotCandles ELSE KrakenFuturesCandles,
   mark_price |-> KrakenMarkPrice, funding_rate |-> KrakenFundingRate,
   open_interest |-> KrakenOpenInterest, liquidations |-> KrakenLiquidations,
   long_short_ratio |-> KrakenLongShort, margin_tiers |-> Unserved,
   symbol_info |-> KrakenSymbolInfo]

-----------------------------------------------------------------------------
KucoinSpotIntervals    == {"1m", "3m", "5m", "15m", "30m", "1h", "2h", "4h", "6h", "8h",
                           "12h", "1d", "1w"}
\* Slip: an advertised interval has no granularity.
KucoinFuturesNo8h      == {"1m", "5m", "15m", "30m", "1h", "2h", "4h", "12h", "1d", "1w"}
KucoinFuturesIntervals == {"1m", "5m", "15m", "30m", "1h", "2h", "4h", "8h", "12h", "1d", "1w"}
KucoinOiIntervals      == {"5m", "15m", "30m", "1h", "4h", "1d"}

KucoinTicker       == Reads({}, <<"resolve", "info", "get", "found">>)
KucoinBookTicker   == Reads({}, <<"resolve", "info", "mult", "get", "found">>)
KucoinOrderbook    == Reads({}, <<"resolve", "get", "found", "info", "mult">>)
KucoinTrades       == Reads({}, <<"resolve", "info", "mult", "get">>)
KucoinAggTrades    == Unserved
KucoinSpotCandles  == [Series({}, <<"resolve", "interval", "info", "pages">>,
                              [Pages("window", "unanchored") EXCEPT !.zero = TRUE])
                         EXCEPT !.maps = KucoinSpotIntervals]
KucoinFutCandles   == [Series({}, <<"resolve", "interval", "info", "mult", "pages">>,
                              Pages("newest", "unanchored"))
                         EXCEPT !.maps = KucoinFuturesIntervals]
KucoinMarkPrice    == Reads({"spot"}, <<"resolve", "info", "get", "found", "get">>)
KucoinFundingRate  == Series({"spot"}, <<"resolve", "info", "pages">>,
                             Pages("window", "unanchored"))
KucoinOpenInterest == [Series({"spot"}, <<"resolve", "interval", "info", "mult", "pages">>,
                              Pages("window", "unanchored"))
                         EXCEPT !.maps = KucoinOiIntervals]
KucoinSymbolInfo   == Reads({}, <<"info", "resolve", "listed">>)
KucoinInfo         == <<"get">>

KucoinMethod(mt) ==
  [ticker |-> KucoinTicker, book_ticker |-> KucoinBookTicker, orderbook |-> KucoinOrderbook,
   trades |-> KucoinTrades, agg_trades |-> KucoinAggTrades,
   candles |-> IF mt = "spot" THEN KucoinSpotCandles ELSE KucoinFutCandles,
   mark_price |-> KucoinMarkPrice, funding_rate |-> KucoinFundingRate,
   open_interest |-> KucoinOpenInterest, liquidations |-> Unserved,
   long_short_ratio |-> Unserved, margin_tiers |-> Unserved,
   symbol_info |-> KucoinSymbolInfo]

-----------------------------------------------------------------------------
OkxTicker       == Reads({}, <<"guess", "get", "found", "info">>)
OkxBookTicker   == Reads({}, <<"guess", "get", "found", "info", "mult">>)
OkxOrderbook    == Reads({}, <<"guess", "get", "found", "info", "mult">>)
OkxTrades       == Reads({}, <<"guess", "get", "info", "mult">>)
OkxAggTrades    == Unserved
OkxCandles      == Series({}, <<"guess", "info", "pages">>, Pages("recent", "unanchored"))
\* _funding_interval_ms_for: the venue's rate, or the usual eight hours.
OkxFundingCycle == <<"any">>
OkxMarkPrice    == Reads({"spot"}, <<"guess", "get", "found", "info">> \o OkxFundingCycle
                                   \o <<"get", "lenient">>)
OkxFundingRate  == Series({"spot"}, <<"guess">> \o OkxFundingCycle \o <<"info", "pages">>,
                          Pages("newest", "unanchored"))
OkxOpenInterest == Series({"spot"}, <<"guess", "info", "pages">>, Pages("newest", "unanchored"))
\* Slip: the market type is not looked at.
OkxLiquidationsAnywhere == Series({}, <<"guess", "info", "mult", "pages">>,
                                  Pages("newest", "unanchored"))
OkxLiquidations == Series({"spot"}, <<"guess", "info", "mult", "pages">>,
                          [Pages("newest", "unanchored") EXCEPT !.quiet = TRUE, !.many = TRUE])
OkxLongShort    == Series({"spot"}, <<"pages">>, Pages("newest", "unanchored"))
OkxMarginTiers  == Reads({"spot"}, <<"guess", "info", "listed", "mult", "get">>)
OkxSymbolInfo(mt) == Reads({}, <<"info", "guess", "listed">>
                               \o (IF mt = "spot" THEN <<>> ELSE OkxFundingCycle))
OkxInfo         == <<"get">>

OkxMethod(mt) ==
  [ticker |-> OkxTicker, book_ticker |-> OkxBookTicker, orderbook |-> OkxOrderbook,
   trades |-> OkxTrades, agg_trades |-> OkxAggTrades, candles |-> OkxCandles,
   mark_price |-> OkxMarkPrice, funding_rate |-> OkxFundingRate,
   open_interest |-> OkxOpenInterest, liquidations |-> OkxLiquidations,
   long_short_ratio |-> OkxLongShort, margin_tiers |-> OkxMarginTiers,
   symbol_info |-> OkxSymbolInfo(mt)]

-----------------------------------------------------------------------------
MethodOf(ex, mt, route) ==
  CASE ex = "binance"     -> BinanceMethod[route]
    [] ex = "bybit"       -> BybitMethod[route]
    [] ex = "hyperliquid" -> HyperliquidMethod[route]
    [] ex = "kraken"      -> KrakenMethod(mt)[route]
    [] ex = "kucoin"      -> KucoinMethod(mt)[route]
    [] ex = "okx"         -> OkxMethod(mt)[route]

\* _fetch_exchange_info: the requests that build the exchange-info table.
InfoOf(ex, mt) ==
  CASE ex = "binance"     -> BinanceInfo(mt)
    [] ex = "bybit"       -> BybitInfo
    [] ex = "hyperliquid" -> HyperliquidInfo(mt)
    [] ex = "kraken"      -> KrakenInfo
    [] ex = "kucoin"      -> KucoinInfo
    [] ex = "okx"         -> OkxInfo
=============================================================================
