--------------------------- MODULE CapabilityProofs ---------------------------
(***************************************************************************)
(* The capability tables of the six adapters against their methods and     *)
(* streams, market by market: what module Capabilities says is offered is  *)
(* what modules Methods and Channels do not refuse, and the intervals the  *)
(* tables list are among those the methods map.  CallsProofs uses these    *)
(* facts for every call of the router.                                     *)
(***************************************************************************)
EXTENDS Calls, TLAPS

-----------------------------------------------------------------------------
(* The capability tables against the methods *)

\* A method refuses a market exactly where the table does not offer the route.
ReadsAgree(ex, mt) ==
    \A route \in Routes :
        mt \in MethodOf(ex, mt, route).refused
            <=> route # "symbol_info" /\ route \notin Capabilities[ex][mt].rest

\* The same for the channels and the stream methods.
StreamsAgree(ex, mt) ==
    \A ch \in WsChannels :
        mt \in StreamOf(ex, mt, ch).refused <=> ch \notin Capabilities[ex][mt].ws

\* Intervals are listed for routes that are offered only, and a method that
\* maps intervals maps the listed ones.
IntervalsAgree(ex, mt) ==
    \A route \in IntervalRoutes :
        /\ Capabilities[ex][mt].intervals[route] # {} => route \in Capabilities[ex][mt].rest
        /\ mt \in MethodOf(ex, mt, route).refused
           \/ /\ Capabilities[ex][mt].intervals[route] # {}
              /\ Capabilities[ex][mt].intervals[route] \subseteq MethodOf(ex, mt, route).maps
           \/ Intervals \subseteq MethodOf(ex, mt, route).maps

TableAgrees(ex, mt) == ReadsAgree(ex, mt) /\ StreamsAgree(ex, mt) /\ IntervalsAgree(ex, mt)

\* The thirteen routes.
LEMMA RouteNames ==
    Routes = {"ticker", "book_ticker", "orderbook", "trades", "agg_trades", "candles",
              "mark_price", "funding_rate", "open_interest", "liquidations",
              "long_short_ratio", "margin_tiers", "symbol_info"}
  BY DEF Routes, BinanceMethod

\* get_capabilities() of the Binance adapter against its methods and streams.
LEMMA BinanceTable == \A mt \in Supported("binance") : TableAgrees("binance", mt)
  <1> USE DEF Block, CoreRest, CoreWs, Derivatives
  <1>1. Capabilities["binance"] =
           [spot |-> BinanceSpot, linear |-> BinanceLinear, inverse |-> BinanceInverse]
    BY DEF Capabilities
  <1>2. Supported("binance") = {"spot", "linear", "inverse"}
    BY <1>1 DEF Supported
  <1> SUFFICES ASSUME NEW mt \in {"spot", "linear", "inverse"}
               PROVE  TableAgrees("binance", mt)
    BY <1>2
  \* the market types each method refuses and the intervals it maps
  <1>3. /\ BinanceTicker.refused = {}
        /\ BinanceBookTicker.refused = {}
        /\ BinanceOrderbook.refused = {}
        /\ BinanceTrades.refused = {}
        /\ BinanceAggTrades.refused = {}
        /\ BinanceCandles.refused = {} /\ BinanceCandles.maps = Intervals
        /\ BinanceMarkPrice.refused = {"spot"}
        /\ BinanceFundingRate.refused = {"spot"}
        /\ BinanceOpenInterest.refused = {"spot"} /\ BinanceOpenInterest.maps = Intervals
        /\ BinanceLiquidations.refused = AllMarkets
        /\ BinanceLongShort.refused = {"spot"} /\ BinanceLongShort.maps = Intervals
        /\ BinanceSymbolInfo.refused = {}
        /\ Unserved.refused = AllMarkets
    BY DEF Reads, Series, Unserved, BinanceTicker, BinanceBookTicker, BinanceOrderbook,
       BinanceTrades, BinanceAggTrades, BinanceCandles, BinanceMarkPrice,
       BinanceFundingRate, BinanceOpenInterest, BinanceLiquidations, BinanceLongShort,
       BinanceSymbolInfo
  <1>4. ReadsAgree("binance", mt)
    <2> SUFFICES ASSUME NEW route \in Routes
                 PROVE  mt \in BinanceMethod[route].refused
                            <=> route # "symbol_info" /\ route \notin Capabilities["binance"][mt].rest
      BY DEF ReadsAgree, MethodOf
    <2>1. CASE mt = "spot"
      BY <2>1, <1>1, <1>3, RouteNames DEF AllMarkets, BinanceMethod, BinanceSpot
    <2>2. CASE mt = "linear"
      BY <2>2, <1>1, <1>3, RouteNames DEF AllMarkets, BinanceMethod, BinanceLinear
    <2>3. CASE mt = "inverse"
      BY <2>3, <1>1, <1>3, RouteNames DEF AllMarkets, BinanceMethod, BinanceInverse
    <2> QED BY <2>1, <2>2, <2>3
  <1>5. StreamsAgree("binance", mt)
    <2> SUFFICES ASSUME NEW ch \in WsChannels
                 PROVE  mt \in BinanceStream[ch].refused
                            <=> ch \notin Capabilities["binance"][mt].ws
      BY DEF StreamsAgree, StreamOf
    <2> QED
      BY <1>1 DEF WsChannels, MarketTypes, Method, Unstreamed, BinanceStream,
         BinanceTickerStream, BinanceBookTickerStream, BinanceOrderbookStream,
         BinanceTradesStream, BinanceAggTradesStream, BinanceMarkPriceStream,
         BinanceLiquidationsStream, BinanceSpot, BinanceLinear, BinanceInverse
  <1>6. IntervalsAgree("binance", mt)
    <2> SUFFICES ASSUME NEW route \in IntervalRoutes
                 PROVE  LET m == BinanceMethod[route]
                            b == Capabilities["binance"][mt]
                        IN  /\ b.intervals[route] # {} => route \in b.rest
                            /\ \/ mt \in m.refused
                               \/ b.intervals[route] # {} /\ b.intervals[route] \subseteq m.maps
                               \/ Intervals \subseteq m.maps
      BY DEF IntervalsAgree, MethodOf
    <2>1. CASE mt = "spot"
      BY <2>1, <1>1, <1>3 DEF IntervalRoutes, Intervals, AllMarkets, BinanceMethod, BinanceSpot,
         BinanceCandleIntervals, BinanceMetricIntervals
    <2>2. CASE mt = "linear"
      BY <2>2, <1>1, <1>3 DEF IntervalRoutes, Intervals, AllMarkets, BinanceMethod, BinanceLinear,
         BinanceCandleIntervals, BinanceMetricIntervals
    <2>3. CASE mt = "inverse"
      BY <2>3, <1>1, <1>3 DEF IntervalRoutes, Intervals, AllMarkets, BinanceMethod, BinanceInverse,
         BinanceCandleIntervals, BinanceMetricIntervals
    <2> QED BY <2>1, <2>2, <2>3
  <1> QED BY <1>4, <1>5, <1>6 DEF TableAgrees

\* get_capabilities() of the Bybit adapter against its methods and streams.
LEMMA BybitTable == \A mt \in Supported("bybit") : TableAgrees("bybit", mt)
  <1> USE DEF Block, CoreRest, CoreWs, Derivatives
  <1>1. Capabilities["bybit"] =
           [spot |-> BybitSpot, linear |-> BybitLinear, inverse |-> BybitInverse]
    BY DEF Capabilities
  <1>2. Supported("bybit") = {"spot", "linear", "inverse"}
    BY <1>1 DEF Supported
  <1> SUFFICES ASSUME NEW mt \in {"spot", "linear", "inverse"}
               PROVE  TableAgrees("bybit", mt)
    BY <1>2
  \* the market types each method refuses and the intervals it maps
  <1>3. /\ BybitTicker.refused = {}
        /\ BybitBookTicker.refused = {}
        /\ BybitOrderbook.refused = {}
        /\ BybitTrades.refused = {}
        /\ BybitAggTrades.refused = AllMarkets
        /\ BybitCandles.refused = {} /\ BybitCandles.maps = Intervals
        /\ BybitMarkPrice.refused = {"spot"}
        /\ BybitFundingRate.refused = {"spot"}
        /\ BybitOpenInterest.refused = {"spot"} /\ BybitOpenInterest.maps = Intervals
        /\ BybitLongShort.refused = {"spot"} /\ BybitLongShort.maps = Intervals
        /\ BybitMarginTiers.refused = {"spot"}
        /\ BybitSymbolInfo.refused = {}
        /\ Unserved.refused = AllMarkets
    BY DEF Reads, Series, Unserved, BybitTicker, BybitBookTicker, BybitOrderbook,
       BybitTrades, BybitAggTrades, BybitCandles, BybitMarkPrice, BybitFundingRate,
       BybitOpenInterest, BybitLongShort, BybitMarginTiers, BybitSymbolInfo
  <1>4. ReadsAgree("bybit", mt)
    <2> SUFFICES ASSUME NEW route \in Routes
                 PROVE  mt \in BybitMethod[route].refused
                            <=> route # "symbol_info" /\ route \notin Capabilities["bybit"][mt].rest
      BY DEF ReadsAgree, MethodOf
    <2>1. CASE mt = "spot"
      BY <2>1, <1>1, <1>3, RouteNames DEF AllMarkets, BybitMethod, BybitSpot
    <2>2. CASE mt = "linear"
      BY <2>2, <1>1, <1>3, RouteNames DEF AllMarkets, BybitMethod, BybitLinear
    <2>3. CASE mt = "inverse"
      BY <2>3, <1>1, <1>3, RouteNames DEF AllMarkets, BybitMethod, BybitInverse
    <2> QED BY <2>1, <2>2, <2>3
  <1>5. StreamsAgree("bybit", mt)
    <2> SUFFICES ASSUME NEW ch \in WsChannels
                 PROVE  mt \in BybitStream[ch].refused
                            <=> ch \notin Capabilities["bybit"][mt].ws
      BY DEF StreamsAgree, StreamOf
    <2> QED
      BY <1>1 DEF WsChannels, MarketTypes, Method, Unstreamed, BybitStream,
         BybitTickerStream, BybitBookTickerStream, BybitOrderbookStream, BybitTradesStream,
         BybitLiquidationsStream, BybitSpot, BybitLinear, BybitInverse
  <1>6. IntervalsAgree("bybit", mt)
    <2> SUFFICES ASSUME NEW route \in IntervalRoutes
                 PROVE  LET m == BybitMethod[route]
                            b == Capabilities["bybit"][mt]
                        IN  /\ b.intervals[route] # {} => route \in b.rest
                            /\ \/ mt \in m.refused
                               \/ b.intervals[route] # {} /\ b.intervals[route] \subseteq m.maps
                               \/ Intervals \subseteq m.maps
      BY DEF IntervalsAgree, MethodOf
    <2>1. CASE mt = "spot"
      BY <2>1, <1>1, <1>3 DEF IntervalRoutes, Intervals, AllMarkets, BybitMethod, BybitSpot,
         BybitCandleIntervals, BybitMetricIntervals
    <2>2. CASE mt = "linear"
      BY <2>2, <1>1, <1>3 DEF IntervalRoutes, Intervals, AllMarkets, BybitMethod, BybitLinear,
         BybitCandleIntervals, BybitMetricIntervals
    <2>3. CASE mt = "inverse"
      BY <2>3, <1>1, <1>3 DEF IntervalRoutes, Intervals, AllMarkets, BybitMethod, BybitInverse,
         BybitCandleIntervals, BybitMetricIntervals
    <2> QED BY <2>1, <2>2, <2>3
  <1> QED BY <1>4, <1>5, <1>6 DEF TableAgrees

\* get_capabilities() of the Hyperliquid adapter against its methods and streams.
LEMMA HyperliquidTable == \A mt \in Supported("hyperliquid") : TableAgrees("hyperliquid", mt)
  <1> USE DEF Block, CoreRest, CoreWs, Derivatives
  <1>1. Capabilities["hyperliquid"] =
           [spot |-> HyperliquidSpot, linear |-> HyperliquidLinear]
    BY DEF Capabilities
  <1>2. Supported("hyperliquid") = {"spot", "linear"}
    BY <1>1 DEF Supported
  <1> SUFFICES ASSUME NEW mt \in {"spot", "linear"}
               PROVE  TableAgrees("hyperliquid", mt)
    BY <1>2
  \* the market types each method refuses and the intervals it maps
  <1>3. /\ HyperliquidTicker.refused = {}
        /\ HyperliquidBookTicker.refused = {}
        /\ HyperliquidOrderbook.refused = {}
        /\ HyperliquidTrades.refused = {}
        /\ HyperliquidAggTrades.refused = AllMarkets
        /\ HyperliquidCandles.refused = {} /\ HyperliquidCandles.maps = Intervals
        /\ HyperliquidMarkPrice.refused = {"spot", "inverse"}
        /\ HyperliquidFundingRate.refused = {"spot", "inverse"}
        /\ HyperliquidOpenInterest.refused = {"spot", "inverse"} /\ HyperliquidOpenInterest.maps = Intervals
        /\ HyperliquidMarginTiers.refused = {"spot", "inverse"}
        /\ HyperliquidSymbolInfo.refused = {}
        /\ Unserved.refused = AllMarkets
    BY DEF Reads, Series, Unserved, HyperliquidTicker, HyperliquidBookTicker,
       HyperliquidOrderbook, HyperliquidTrades, HyperliquidAggTrades, HyperliquidCandles,
       HyperliquidMarkPrice, HyperliquidFundingRate, HyperliquidOpenInterest,
       HyperliquidMarginTiers, HyperliquidSymbolInfo
  <1>4. ReadsAgree("hyperliquid", mt)
    <2> SUFFICES ASSUME NEW route \in Routes
                 PROVE  mt \in HyperliquidMethod[route].refused
                            <=> route # "symbol_info" /\ route \notin Capabilities["hyperliquid"][mt].rest
      BY DEF ReadsAgree, MethodOf
    <2>1. CASE mt = "spot"
      BY <2>1, <1>1, <1>3, RouteNames DEF AllMarkets, HyperliquidMethod, HyperliquidSpot
    <2>2. CASE mt = "linear"
      BY <2>2, <1>1, <1>3, RouteNames DEF AllMarkets, HyperliquidMethod, HyperliquidLinear
    <2> QED BY <2>1, <2>2
  <1>5. StreamsAgree("hyperliquid", mt)
    <2> SUFFICES ASSUME NEW ch \in WsChannels
                 PROVE  mt \in HyperliquidStream[ch].refused
                            <=> ch \notin Capabilities["hyperliquid"][mt].ws
      BY DEF StreamsAgree, StreamOf
    <2> QED
      BY <1>1 DEF WsChannels, MarketTypes, Method, Unstreamed, HyperliquidStream,
         HyperliquidTickerStream, HyperliquidBookTickerStream, HyperliquidOrderbookStream,
         HyperliquidTradesStream, HyperliquidMarkPriceStream, HyperliquidSpot,
         HyperliquidLinear
  <1>6. IntervalsAgree("hyperliquid", mt)
    <2> SUFFICES ASSUME NEW route \in IntervalRoutes
                 PROVE  LET m == HyperliquidMethod[route]
                            b == Capabilities["hyperliquid"][mt]
                        IN  /\ b.intervals[route] # {} => route \in b.rest
                            /\ \/ mt \in m.refused
                               \/ b.intervals[route] # {} /\ b.intervals[route] \subseteq m.maps
                               \/ Intervals \subseteq m.maps
      BY DEF IntervalsAgree, MethodOf
    <2>1. CASE mt = "spot"
      BY <2>1, <1>1, <1>3 DEF IntervalRoutes, Intervals, AllMarkets, HyperliquidMethod, HyperliquidSpot,
         HyperliquidCandleIntervals
    <2>2. CASE mt = "linear"
      BY <2>2, <1>1, <1>3 DEF IntervalRoutes, Intervals, AllMarkets, HyperliquidMethod, HyperliquidLinear,
         HyperliquidCandleIntervals
    <2> QED BY <2>1, <2>2
  <1> QED BY <1>4, <1>5, <1>6 DEF TableAgrees

\* get_capabilities() of the Kraken adapter against its methods and streams.
LEMMA KrakenTable == \A mt \in Supported("kraken") : TableAgrees("kraken", mt)
  <1> USE DEF Block, CoreRest, CoreWs, Derivatives
  <1>1. Capabilities["kraken"] =
           [spot |-> KrakenSpot, linear |-> KrakenLinear, inverse |-> KrakenInverse]
    BY DEF Capabilities
  <1>2. Supported("kraken") = {"spot", "linear", "inverse"}
    BY <1>1 DEF Supported
  <1> SUFFICES ASSUME NEW mt \in {"spot", "linear", "inverse"}
               PROVE  TableAgrees("kraken", mt)
    BY <1>2
  \* the market types each method refuses and the intervals it maps
  <1>3. /\ KrakenSpotTicker.refused = {}
        /\ KrakenFuturesTicker.refused = {}
        /\ KrakenBookTicker.refused = {}
        /\ KrakenOrderbook.refused = {}
        /\ KrakenTrades.refused = {}
        /\ KrakenAggTrades.refused = AllMarkets
        /\ KrakenSpotCandles.refused = {} /\ KrakenSpotCandles.maps = KrakenSpotIntervals
        /\ KrakenFuturesCandles.refused = {} /\ KrakenFuturesCandles.maps = KrakenAnalyticsIntervals \cup {"1w"}
        /\ KrakenMarkPrice.refused = {"spot"}
        /\ KrakenFundingRate.refused = {"spot"}
        /\ KrakenOpenInterest.refused = {"spot"} /\ KrakenOpenInterest.maps = KrakenAnalyticsIntervals
        /\ KrakenLiquidations.refused = AllMarkets
        /\ KrakenLongShort.refused = {"spot"} /\ KrakenLongShort.maps = KrakenAnalyticsIntervals
        /\ KrakenSymbolInfo.refused = {}
        /\ Unserved.refused = AllMarkets
    BY DEF Reads, Series, Unserved, KrakenSpotTicker, KrakenFuturesTicker, KrakenBookTicker,
       KrakenOrderbook, KrakenTrades, KrakenAggTrades, KrakenSpotCandles,
       KrakenFuturesCandles, KrakenMarkPrice, KrakenFundingRate, KrakenOpenInterest,
       KrakenLiquidations, KrakenLongShort, KrakenSymbolInfo
  <1>4. ReadsAgree("kraken", mt)
    <2> SUFFICES ASSUME NEW route \in Routes
                 PROVE  mt \in KrakenMethod(mt)[route].refused
                            <=> route # "symbol_info" /\ route \notin Capabilities["kraken"][mt].rest
      BY DEF ReadsAgree, MethodOf
    <2>1. CASE mt = "spot"
      BY <2>1, <1>1, <1>3, RouteNames DEF AllMarkets, KrakenMethod, KrakenSpot
    <2>2. CASE mt = "linear"
      BY <2>2, <1>1, <1>3, RouteNames DEF AllMarkets, KrakenMethod, KrakenLinear
    <2>3. CASE mt = "inverse"
      BY <2>3, <1>1, <1>3, RouteNames DEF AllMarkets, KrakenMethod, KrakenInverse
    <2> QED BY <2>1, <2>2, <2>3
  <1>5. StreamsAgree("kraken", mt)
    <2> SUFFICES ASSUME NEW ch \in WsChannels
                 PROVE  mt \in KrakenStream(mt)[ch].refused
                            <=> ch \notin Capabilities["kraken"][mt].ws
      BY DEF StreamsAgree, StreamOf
    <2> QED
      BY <1>1 DEF WsChannels, MarketTypes, Method, Unstreamed, KrakenStream,
         KrakenTickerStream, KrakenBookTickerStream, KrakenSpotBookStream,
         KrakenFuturesBookStream, KrakenTradesStream, KrakenMarkPriceStream, KrakenSpot,
         KrakenLinear, KrakenInverse
  <1>6. IntervalsAgree("kraken", mt)
    <2> SUFFICES ASSUME NEW route \in IntervalRoutes
                 PROVE  LET m == KrakenMethod(mt)[route]
                            b == Capabilities["kraken"][mt]
                        IN  /\ b.intervals[route] # {} => route \in b.rest
                            /\ \/ mt \in m.refused
                               \/ b.intervals[route] # {} /\ b.intervals[route] \subseteq m.maps
                               \/ Intervals \subseteq m.maps
      BY DEF IntervalsAgree, MethodOf
    <2>0. /\ KrakenSpotCandleIntervals # {} /\ KrakenMetricIntervals # {}
          /\ KrakenSpotCandleIntervals \subseteq KrakenSpotIntervals
          /\ KrakenSpotCandleIntervals \cup {"12h"} \subseteq KrakenAnalyticsIntervals \cup {"1w"}
          /\ KrakenMetricIntervals \subseteq KrakenAnalyticsIntervals
      BY DEF KrakenSpotCandleIntervals, KrakenMetricIntervals, KrakenSpotIntervals,
         KrakenAnalyticsIntervals
    <2>1. CASE mt = "spot"
      BY <2>1, <1>1, <1>3, <2>0 DEF IntervalRoutes, KrakenMethod, KrakenSpot
    <2>2. CASE mt = "linear"
      BY <2>2, <1>1, <1>3, <2>0 DEF IntervalRoutes, KrakenMethod, KrakenLinear
    <2>3. CASE mt = "inverse"
      BY <2>3, <1>1, <1>3, <2>0 DEF IntervalRoutes, KrakenMethod, KrakenInverse
    <2> QED BY <2>1, <2>2, <2>3
  <1> QED BY <1>4, <1>5, <1>6 DEF TableAgrees

\* get_capabilities() of the Kucoin adapter against its methods and streams.
LEMMA KucoinTable == \A mt \in Supported("kucoin") : TableAgrees("kucoin", mt)
  <1> USE DEF Block, CoreRest, CoreWs, Derivatives
  <1>1. Capabilities["kucoin"] =
           [spot |-> KucoinSpot, linear |-> KucoinLinear, inverse |-> KucoinInverse]
    BY DEF Capabilities
  <1>2. Supported("kucoin") = {"spot", "linear", "inverse"}
    BY <1>1 DEF Supported
  <1> SUFFICES ASSUME NEW mt \in {"spot", "linear", "inverse"}
               PROVE  TableAgrees("kucoin", mt)
    BY <1>2
  \* the market types each method refuses and the intervals it maps
  <1>3. /\ KucoinTicker.refused = {}
        /\ KucoinBookTicker.refused = {}
        /\ KucoinOrderbook.refused = {}
        /\ KucoinTrades.refused = {}
        /\ KucoinAggTrades.refused = AllMarkets
        /\ KucoinSpotCandles.refused = {} /\ KucoinSpotCandles.maps = KucoinSpotIntervals
        /\ KucoinFutCandles.refused = {} /\ KucoinFutCandles.maps = KucoinFuturesIntervals
        /\ KucoinMarkPrice.refused = {"spot"}
        /\ KucoinFundingRate.refused = {"spot"}
        /\ KucoinOpenInterest.refused = {"spot"} /\ KucoinOpenInterest.maps = KucoinOiIntervals
        /\ KucoinSymbolInfo.refused = {}
        /\ Unserved.refused = AllMarkets
    BY DEF Reads, Series, Unserved, KucoinTicker, KucoinBookTicker, KucoinOrderbook,
       KucoinTrades, KucoinAggTrades, KucoinSpotCandles, KucoinFutCandles, KucoinMarkPrice,
       KucoinFundingRate, KucoinOpenInterest, KucoinSymbolInfo
  <1>4. ReadsAgree("kucoin", mt)
    <2> SUFFICES ASSUME NEW route \in Routes
                 PROVE  mt \in KucoinMethod(mt)[route].refused
                            <=> route # "symbol_info" /\ route \notin Capabilities["kucoin"][mt].rest
      BY DEF ReadsAgree, MethodOf
    <2>1. CASE mt = "spot"
      BY <2>1, <1>1, <1>3, RouteNames DEF AllMarkets, KucoinMethod, KucoinSpot
    <2>2. CASE mt = "linear"
      BY <2>2, <1>1, <1>3, RouteNames DEF AllMarkets, KucoinMethod, KucoinLinear
    <2>3. CASE mt = "inverse"
      BY <2>3, <1>1, <1>3, RouteNames DEF AllMarkets, KucoinMethod, KucoinInverse
    <2> QED BY <2>1, <2>2, <2>3
  <1>5. StreamsAgree("kucoin", mt)
    <2> SUFFICES ASSUME NEW ch \in WsChannels
                 PROVE  mt \in KucoinStream(mt)[ch].refused
                            <=> ch \notin Capabilities["kucoin"][mt].ws
      BY DEF StreamsAgree, StreamOf
    <2> QED
      BY <1>1 DEF WsChannels, MarketTypes, Method, Unstreamed, KucoinStream,
         KucoinTickerStream, KucoinSpotBookTickerStream, KucoinFutBookTickerStream,
         KucoinOrderbookStream, KucoinTradesStream, KucoinMarkPriceStream, KucoinSpot,
         KucoinLinear, KucoinInverse
  <1>6. IntervalsAgree("kucoin", mt)
    <2> SUFFICES ASSUME NEW route \in IntervalRoutes
                 PROVE  LET m == KucoinMethod(mt)[route]
                            b == Capabilities["kucoin"][mt]
                        IN  /\ b.intervals[route] # {} => route \in b.rest
                            /\ \/ mt \in m.refused
                               \/ b.intervals[route] # {} /\ b.intervals[route] \subseteq m.maps
                               \/ Intervals \subseteq m.maps
      BY DEF IntervalsAgree, MethodOf
    <2>1. CASE mt = "spot"
      BY <2>1, <1>1, <1>3 DEF IntervalRoutes, Intervals, AllMarkets, KucoinMethod, KucoinSpot,
         KucoinSpotCandleIntervals, KucoinFutCandleIntervals, KucoinMetricIntervals,
         KucoinSpotIntervals, KucoinFuturesIntervals, KucoinOiIntervals
    <2>2. CASE mt = "linear"
      BY <2>2, <1>1, <1>3 DEF IntervalRoutes, Intervals, AllMarkets, KucoinMethod, KucoinLinear,
         KucoinSpotCandleIntervals, KucoinFutCandleIntervals, KucoinMetricIntervals,
         KucoinSpotIntervals, KucoinFuturesIntervals, KucoinOiIntervals
    <2>3. CASE mt = "inverse"
      BY <2>3, <1>1, <1>3 DEF IntervalRoutes, Intervals, AllMarkets, KucoinMethod, KucoinInverse,
         KucoinSpotCandleIntervals, KucoinFutCandleIntervals, KucoinMetricIntervals,
         KucoinSpotIntervals, KucoinFuturesIntervals, KucoinOiIntervals
    <2> QED BY <2>1, <2>2, <2>3
  <1> QED BY <1>4, <1>5, <1>6 DEF TableAgrees

\* get_capabilities() of the Okx adapter against its methods and streams.
LEMMA OkxTable == \A mt \in Supported("okx") : TableAgrees("okx", mt)
  <1> USE DEF Block, CoreRest, CoreWs, Derivatives
  <1>1. Capabilities["okx"] =
           [spot |-> OkxSpot, linear |-> OkxLinear, inverse |-> OkxInverse]
    BY DEF Capabilities
  <1>2. Supported("okx") = {"spot", "linear", "inverse"}
    BY <1>1 DEF Supported
  <1> SUFFICES ASSUME NEW mt \in {"spot", "linear", "inverse"}
               PROVE  TableAgrees("okx", mt)
    BY <1>2
  \* the market types each method refuses and the intervals it maps
  <1>3. /\ OkxTicker.refused = {}
        /\ OkxBookTicker.refused = {}
        /\ OkxOrderbook.refused = {}
        /\ OkxTrades.refused = {}
        /\ OkxAggTrades.refused = AllMarkets
        /\ OkxCandles.refused = {} /\ OkxCandles.maps = Intervals
        /\ OkxMarkPrice.refused = {"spot"}
        /\ OkxFundingRate.refused = {"spot"}
        /\ OkxOpenInterest.refused = {"spot"} /\ OkxOpenInterest.maps = Intervals
        /\ OkxLiquidations.refused = {"spot"}
        /\ OkxLongShort.refused = {"spot"} /\ OkxLongShort.maps = Intervals
        /\ OkxMarginTiers.refused = {"spot"}
        /\ OkxSymbolInfo(mt).refused = {}
        /\ Unserved.refused = AllMarkets
    BY DEF Reads, Series, Unserved, OkxTicker, OkxBookTicker, OkxOrderbook, OkxTrades,
       OkxAggTrades, OkxCandles, OkxMarkPrice, OkxFundingRate, OkxOpenInterest,
       OkxLiquidations, OkxLongShort, OkxMarginTiers, OkxSymbolInfo
  <1>4. ReadsAgree("okx", mt)
    <2> SUFFICES ASSUME NEW route \in Routes
                 PROVE  mt \in OkxMethod(mt)[route].refused
                            <=> route # "symbol_info" /\ route \notin Capabilities["okx"][mt].rest
      BY DEF ReadsAgree, MethodOf
    <2>1. CASE mt = "spot"
      BY <2>1, <1>1, <1>3, RouteNames DEF AllMarkets, OkxMethod, OkxSpot
    <2>2. CASE mt = "linear"
      BY <2>2, <1>1, <1>3, RouteNames DEF AllMarkets, OkxMethod, OkxLinear
    <2>3. CASE mt = "inverse"
      BY <2>3, <1>1, <1>3, RouteNames DEF AllMarkets, OkxMethod, OkxInverse
    <2> QED BY <2>1, <2>2, <2>3
  <1>5. StreamsAgree("okx", mt)
    <2> SUFFICES ASSUME NEW ch \in WsChannels
                 PROVE  mt \in OkxStream[ch].refused
                            <=> ch \notin Capabilities["okx"][mt].ws
      BY DEF StreamsAgree, StreamOf
    <2> QED
      BY <1>1 DEF WsChannels, MarketTypes, Method, Unstreamed, OkxStream, OkxTickerStream,
         OkxBookTickerStream, OkxOrderbookStream, OkxTradesStream, OkxMarkPriceStream,
         OkxLiquidationsStream, OkxSpot, OkxLinear, OkxInverse
  <1>6. IntervalsAgree("okx", mt)
    <2> SUFFICES ASSUME NEW route \in IntervalRoutes
                 PROVE  LET m == OkxMethod(mt)[route]
                            b == Capabilities["okx"][mt]
                        IN  /\ b.intervals[route] # {} => route \in b.rest
                            /\ \/ mt \in m.refused
                               \/ b.intervals[route] # {} /\ b.intervals[route] \subseteq m.maps
                               \/ Intervals \subseteq m.maps
      BY DEF IntervalsAgree, MethodOf
    <2>1. CASE mt = "spot"
      BY <2>1, <1>1, <1>3 DEF IntervalRoutes, Intervals, AllMarkets, OkxMethod, OkxSpot,
         OkxCandleIntervals, OkxMetricIntervals
    <2>2. CASE mt = "linear"
      BY <2>2, <1>1, <1>3 DEF IntervalRoutes, Intervals, AllMarkets, OkxMethod, OkxLinear,
         OkxCandleIntervals, OkxMetricIntervals
    <2>3. CASE mt = "inverse"
      BY <2>3, <1>1, <1>3 DEF IntervalRoutes, Intervals, AllMarkets, OkxMethod, OkxInverse,
         OkxCandleIntervals, OkxMetricIntervals
    <2> QED BY <2>1, <2>2, <2>3
  <1> QED BY <1>4, <1>5, <1>6 DEF TableAgrees

-----------------------------------------------------------------------------
(* The steps of the methods *)

\* The steps other than the mapping of the interval.
PlainSteps == {"get", "lenient", "any", "info", "resolve", "guess", "listed", "found",
               "table", "mult", "pages", "capacity"}

Steps == PlainSteps \cup {"interval"}

\* Only the methods of the routes that take an interval map one.
StepsFit(ex, mt) ==
    /\ \A route \in Routes \ IntervalRoutes : MethodOf(ex, mt, route).steps \in Seq(PlainSteps)
    /\ \A route \in IntervalRoutes : MethodOf(ex, mt, route).steps \in Seq(Steps)
    /\ \A ch \in WsChannels : StreamOf(ex, mt, ch).setup \in Seq(PlainSteps)
    /\ InfoOf(ex, mt) \in Seq(PlainSteps)

\* The steps of the Binance adapter's methods, streams and exchange-info fetch.
LEMMA BinanceSteps == \A mt : StepsFit("binance", mt)
  <1> SUFFICES ASSUME NEW mt PROVE StepsFit("binance", mt)
    OBVIOUS
  <1>1. /\ BinanceTicker.steps \in Seq(PlainSteps)
        /\ BinanceBookTicker.steps \in Seq(PlainSteps)
        /\ BinanceOrderbook.steps \in Seq(PlainSteps)
        /\ BinanceTrades.steps \in Seq(PlainSteps)
        /\ BinanceAggTrades.steps \in Seq(PlainSteps)
        /\ BinanceMarkPrice.steps \in Seq(PlainSteps)
        /\ BinanceFundingRate.steps \in Seq(PlainSteps)
        /\ BinanceLiquidations.steps \in Seq(PlainSteps)
        /\ BinanceSymbolInfo.steps \in Seq(PlainSteps)
        /\ Unserved.steps \in Seq(PlainSteps)
    BY DEF Reads, Series, Unserved, PlainSteps, BinanceTicker, BinanceBookTicker,
       BinanceOrderbook, BinanceTrades, BinanceAggTrades, BinanceMarkPrice,
       BinanceFundingRate, BinanceLiquidations, BinanceSymbolInfo
  <1>2. /\ BinanceCandles.steps \in Seq(Steps)
        /\ BinanceOpenInterest.steps \in Seq(Steps)
        /\ BinanceLongShort.steps \in Seq(Steps)
        /\ Unserved.steps \in Seq(Steps)
    BY DEF Reads, Series, Unserved, Steps, PlainSteps, BinanceCandles, BinanceOpenInterest,
       BinanceLongShort
  <1>3. /\ BinanceTickerStream.setup \in Seq(PlainSteps)
        /\ BinanceBookTickerStream.setup \in Seq(PlainSteps)
        /\ BinanceOrderbookStream.setup \in Seq(PlainSteps)
        /\ BinanceTradesStream.setup \in Seq(PlainSteps)
        /\ BinanceAggTradesStream.setup \in Seq(PlainSteps)
        /\ BinanceMarkPriceStream.setup \in Seq(PlainSteps)
        /\ BinanceLiquidationsStream.setup \in Seq(PlainSteps)
        /\ Unstreamed.setup \in Seq(PlainSteps)
    BY DEF Method, Unstreamed, PlainSteps, BinanceTickerStream, BinanceBookTickerStream,
       BinanceOrderbookStream, BinanceTradesStream, BinanceAggTradesStream,
       BinanceMarkPriceStream, BinanceLiquidationsStream
  <1>4. \A route \in Routes \ IntervalRoutes : BinanceMethod[route].steps \in Seq(PlainSteps)
    BY SMTT(20), <1>1, RouteNames DEF BinanceMethod, IntervalRoutes
  <1>5. \A route \in IntervalRoutes : BinanceMethod[route].steps \in Seq(Steps)
    BY <1>2 DEF BinanceMethod, IntervalRoutes
  <1>6. \A ch \in WsChannels : BinanceStream[ch].setup \in Seq(PlainSteps)
    BY <1>3 DEF BinanceStream, WsChannels
  <1>7. BinanceInfo(mt) \in Seq(PlainSteps)
    <2>1. CASE mt = "spot"
      BY <2>1 DEF BinanceInfo, PlainSteps
    <2>2. CASE mt # "spot"
      BY <2>2 DEF BinanceInfo, PlainSteps
    <2> QED BY <2>1, <2>2
  <1> QED BY <1>4, <1>5, <1>6, <1>7 DEF StepsFit, MethodOf, StreamOf, InfoOf

\* The steps of the Bybit adapter's methods, streams and exchange-info fetch.
LEMMA BybitSteps == \A mt : StepsFit("bybit", mt)
  <1> SUFFICES ASSUME NEW mt PROVE StepsFit("bybit", mt)
    OBVIOUS
  <1>1. /\ BybitTicker.steps \in Seq(PlainSteps)
        /\ BybitBookTicker.steps \in Seq(PlainSteps)
        /\ BybitOrderbook.steps \in Seq(PlainSteps)
        /\ BybitTrades.steps \in Seq(PlainSteps)
        /\ BybitAggTrades.steps \in Seq(PlainSteps)
        /\ BybitMarkPrice.steps \in Seq(PlainSteps)
        /\ BybitFundingRate.steps \in Seq(PlainSteps)
        /\ BybitMarginTiers.steps \in Seq(PlainSteps)
        /\ BybitSymbolInfo.steps \in Seq(PlainSteps)
        /\ Unserved.steps \in Seq(PlainSteps)
    BY DEF Reads, Series, Unserved, PlainSteps, BybitTicker, BybitBookTicker,
       BybitOrderbook, BybitTrades, BybitAggTrades, BybitMarkPrice, BybitFundingRate,
       BybitMarginTiers, BybitSymbolInfo
  <1>2. /\ BybitCandles.steps \in Seq(Steps)
        /\ BybitOpenInterest.steps \in Seq(Steps)
        /\ BybitLongShort.steps \in Seq(Steps)
        /\ Unserved.steps \in Seq(Steps)
    BY DEF Reads, Series, Unserved, Steps, PlainSteps, BybitCandles, BybitOpenInterest,
       BybitLongShort
  <1>3. /\ BybitTickerStream.setup \in Seq(PlainSteps)
        /\ BybitBookTickerStream.setup \in Seq(PlainSteps)
        /\ BybitOrderbookStream.setup \in Seq(PlainSteps)
        /\ BybitTradesStream.setup \in Seq(PlainSteps)
        /\ BybitLiquidationsStream.setup \in Seq(PlainSteps)
        /\ Unstreamed.setup \in Seq(PlainSteps)
    BY DEF Method, Unstreamed, PlainSteps, BybitTickerStream, BybitBookTickerStream,
       BybitOrderbookStream, BybitTradesStream, BybitLiquidationsStream
  <1>4. \A route \in Routes \ IntervalRoutes : BybitMethod[route].steps \in Seq(PlainSteps)
    BY SMTT(20), <1>1, RouteNames DEF BybitMethod, IntervalRoutes
  <1>5. \A route \in IntervalRoutes : BybitMethod[route].steps \in Seq(Steps)
    BY <1>2 DEF BybitMethod, IntervalRoutes
  <1>6. \A ch \in WsChannels : BybitStream[ch].setup \in Seq(PlainSteps)
    BY <1>3 DEF BybitStream, WsChannels
  <1>7. BybitInfo \in Seq(PlainSteps)
    BY DEF BybitInfo, PlainSteps
  <1> QED BY <1>4, <1>5, <1>6, <1>7 DEF StepsFit, MethodOf, StreamOf, InfoOf

\* The steps of the Hyperliquid adapter's methods, streams and exchange-info fetch.
LEMMA HyperliquidSteps == \A mt : StepsFit("hyperliquid", mt)
  <1> SUFFICES ASSUME NEW mt PROVE StepsFit("hyperliquid", mt)
    OBVIOUS
  <1>1. /\ HyperliquidTicker.steps \in Seq(PlainSteps)
        /\ HyperliquidBookTicker.steps \in Seq(PlainSteps)
        /\ HyperliquidOrderbook.steps \in Seq(PlainSteps)
        /\ HyperliquidTrades.steps \in Seq(PlainSteps)
        /\ HyperliquidAggTrades.steps \in Seq(PlainSteps)
        /\ HyperliquidMarkPrice.steps \in Seq(PlainSteps)
        /\ HyperliquidFundingRate.steps \in Seq(PlainSteps)
        /\ HyperliquidMarginTiers.steps \in Seq(PlainSteps)
        /\ HyperliquidSymbolInfo.steps \in Seq(PlainSteps)
        /\ Unserved.steps \in Seq(PlainSteps)
    BY DEF Reads, Series, Unserved, PlainSteps, HyperliquidTicker, HyperliquidBookTicker,
       HyperliquidOrderbook, HyperliquidTrades, HyperliquidAggTrades, HyperliquidMarkPrice,
       HyperliquidFundingRate, HyperliquidMarginTiers, HyperliquidSymbolInfo,
       HyperliquidLookup, HyperliquidCtx, HyperliquidHighLow
  <1>2. /\ HyperliquidCandles.steps \in Seq(Steps)
        /\ HyperliquidOpenInterest.steps \in Seq(Steps)
        /\ Unserved.steps \in Seq(Steps)
    BY DEF Reads, Series, Unserved, Steps, PlainSteps, HyperliquidCandles,
       HyperliquidOpenInterest, HyperliquidLookup, HyperliquidCtx, HyperliquidHighLow
  <1>3. /\ HyperliquidTickerStream.setup \in Seq(PlainSteps)
        /\ HyperliquidBookTickerStream.setup \in Seq(PlainSteps)
        /\ HyperliquidOrderbookStream.setup \in Seq(PlainSteps)
        /\ HyperliquidTradesStream.setup \in Seq(PlainSteps)
        /\ HyperliquidMarkPriceStream.setup \in Seq(PlainSteps)
        /\ Unstreamed.setup \in Seq(PlainSteps)
    BY DEF Method, Unstreamed, PlainSteps, HyperliquidTickerStream,
       HyperliquidBookTickerStream, HyperliquidOrderbookStream, HyperliquidTradesStream,
       HyperliquidMarkPriceStream, HyperliquidEntry, HyperliquidDaily
  <1>4. \A route \in Routes \ IntervalRoutes : HyperliquidMethod[route].steps \in Seq(PlainSteps)
    BY SMTT(20), <1>1, RouteNames DEF HyperliquidMethod, IntervalRoutes
  <1>5. \A route \in IntervalRoutes : HyperliquidMethod[route].steps \in Seq(Steps)
    BY <1>2 DEF HyperliquidMethod, IntervalRoutes
  <1>6. \A ch \in WsChannels : HyperliquidStream[ch].setup \in Seq(PlainSteps)
    BY <1>3 DEF HyperliquidStream, WsChannels
  <1>7. HyperliquidInfo(mt) \in Seq(PlainSteps)
    <2>1. CASE mt = "spot"
      BY <2>1 DEF HyperliquidInfo, PlainSteps
    <2>2. CASE mt # "spot"
      BY <2>2 DEF HyperliquidInfo, PlainSteps
    <2> QED BY <2>1, <2>2
  <1> QED BY <1>4, <1>5, <1>6, <1>7 DEF StepsFit, MethodOf, StreamOf, InfoOf

\* The steps of the Kraken adapter's methods, streams and exchange-info fetch.
LEMMA KrakenSteps == \A mt : StepsFit("kraken", mt)
  <1> SUFFICES ASSUME NEW mt PROVE StepsFit("kraken", mt)
    OBVIOUS
  <1>1. /\ KrakenSpotTicker.steps \in Seq(PlainSteps)
        /\ KrakenFuturesTicker.steps \in Seq(PlainSteps)
        /\ KrakenBookTicker.steps \in Seq(PlainSteps)
        /\ KrakenOrderbook.steps \in Seq(PlainSteps)
        /\ KrakenTrades.steps \in Seq(PlainSteps)
        /\ KrakenAggTrades.steps \in Seq(PlainSteps)
        /\ KrakenMarkPrice.steps \in Seq(PlainSteps)
        /\ KrakenFundingRate.steps \in Seq(PlainSteps)
        /\ KrakenLiquidations.steps \in Seq(PlainSteps)
        /\ KrakenSymbolInfo.steps \in Seq(PlainSteps)
        /\ Unserved.steps \in Seq(PlainSteps)
    BY DEF Reads, Series, Unserved, PlainSteps, KrakenSpotTicker, KrakenFuturesTicker,
       KrakenBookTicker, KrakenOrderbook, KrakenTrades, KrakenAggTrades, KrakenMarkPrice,
       KrakenFundingRate, KrakenLiquidations, KrakenSymbolInfo
  <1>2. /\ KrakenSpotCandles.steps \in Seq(Steps)
        /\ KrakenFuturesCandles.steps \in Seq(Steps)
        /\ KrakenOpenInterest.steps \in Seq(Steps)
        /\ KrakenLongShort.steps \in Seq(Steps)
        /\ Unserved.steps \in Seq(Steps)
    BY DEF Reads, Series, Unserved, Steps, PlainSteps, KrakenSpotCandles,
       KrakenFuturesCandles, KrakenOpenInterest, KrakenLongShort
  <1>3. /\ KrakenTickerStream.setup \in Seq(PlainSteps)
        /\ KrakenBookTickerStream.setup \in Seq(PlainSteps)
        /\ KrakenSpotBookStream.setup \in Seq(PlainSteps)
        /\ KrakenFuturesBookStream.setup \in Seq(PlainSteps)
        /\ KrakenTradesStream.setup \in Seq(PlainSteps)
        /\ KrakenMarkPriceStream.setup \in Seq(PlainSteps)
        /\ Unstreamed.setup \in Seq(PlainSteps)
    BY DEF Method, Unstreamed, PlainSteps, KrakenTickerStream, KrakenBookTickerStream,
       KrakenSpotBookStream, KrakenFuturesBookStream, KrakenTradesStream,
       KrakenMarkPriceStream, KrakenEntry
  <1>4. \A route \in Routes \ IntervalRoutes : KrakenMethod(mt)[route].steps \in Seq(PlainSteps)
    BY SMTT(20), <1>1, RouteNames DEF KrakenMethod, IntervalRoutes
  <1>5. \A route \in IntervalRoutes : KrakenMethod(mt)[route].steps \in Seq(Steps)
    BY <1>2 DEF KrakenMethod, IntervalRoutes
  <1>6. \A ch \in WsChannels : KrakenStream(mt)[ch].setup \in Seq(PlainSteps)
    BY <1>3 DEF KrakenStream, WsChannels
  <1>7. KrakenInfo \in Seq(PlainSteps)
    BY DEF KrakenInfo, PlainSteps
  <1> QED BY <1>4, <1>5, <1>6, <1>7 DEF StepsFit, MethodOf, StreamOf, InfoOf

\* The steps of the Kucoin adapter's methods, streams and exchange-info fetch.
LEMMA KucoinSteps == \A mt : StepsFit("kucoin", mt)
  <1> SUFFICES ASSUME NEW mt PROVE StepsFit("kucoin", mt)
    OBVIOUS
  <1>1. /\ KucoinTicker.steps \in Seq(PlainSteps)
        /\ KucoinBookTicker.steps \in Seq(PlainSteps)
        /\ KucoinOrderbook.steps \in Seq(PlainSteps)
        /\ KucoinTrades.steps \in Seq(PlainSteps)
        /\ KucoinAggTrades.steps \in Seq(PlainSteps)
        /\ KucoinMarkPrice.steps \in Seq(PlainSteps)
        /\ KucoinFundingRate.steps \in Seq(PlainSteps)
        /\ KucoinSymbolInfo.steps \in Seq(PlainSteps)
        /\ Unserved.steps \in Seq(PlainSteps)
    BY DEF Reads, Series, Unserved, PlainSteps, KucoinTicker, KucoinBookTicker,
       KucoinOrderbook, KucoinTrades, KucoinAggTrades, KucoinMarkPrice, KucoinFundingRate,
       KucoinSymbolInfo
  <1>2. /\ KucoinSpotCandles.steps \in Seq(Steps)
        /\ KucoinFutCandles.steps \in Seq(Steps)
        /\ KucoinOpenInterest.steps \in Seq(Steps)
        /\ Unserved.steps \in Seq(Steps)
    BY DEF Reads, Series, Unserved, Steps, PlainSteps, KucoinSpotCandles, KucoinFutCandles,
       KucoinOpenInterest
  <1>3. /\ KucoinTickerStream.setup \in Seq(PlainSteps)
        /\ KucoinSpotBookTickerStream.setup \in Seq(PlainSteps)
        /\ KucoinFutBookTickerStream.setup \in Seq(PlainSteps)
        /\ KucoinOrderbookStream.setup \in Seq(PlainSteps)
        /\ KucoinTradesStream.setup \in Seq(PlainSteps)
        /\ KucoinMarkPriceStream.setup \in Seq(PlainSteps)
        /\ Unstreamed.setup \in Seq(PlainSteps)
    BY DEF Method, Unstreamed, PlainSteps, KucoinTickerStream, KucoinSpotBookTickerStream,
       KucoinFutBookTickerStream, KucoinOrderbookStream, KucoinTradesStream,
       KucoinMarkPriceStream, KucoinEntry
  <1>4. \A route \in Routes \ IntervalRoutes : KucoinMethod(mt)[route].steps \in Seq(PlainSteps)
    BY <1>1, RouteNames DEF KucoinMethod, IntervalRoutes
  <1>5. \A route \in IntervalRoutes : KucoinMethod(mt)[route].steps \in Seq(Steps)
    BY <1>2 DEF KucoinMethod, IntervalRoutes
  <1>6. \A ch \in WsChannels : KucoinStream(mt)[ch].setup \in Seq(PlainSteps)
    BY <1>3 DEF KucoinStream, WsChannels
  <1>7. KucoinInfo \in Seq(PlainSteps)
    BY DEF KucoinInfo, PlainSteps
  <1> QED BY <1>4, <1>5, <1>6, <1>7 DEF StepsFit, MethodOf, StreamOf, InfoOf

\* The steps of the Okx adapter's methods, streams and exchange-info fetch.
LEMMA OkxSteps == \A mt : StepsFit("okx", mt)
  <1> SUFFICES ASSUME NEW mt PROVE StepsFit("okx", mt)
    OBVIOUS
  <1>0. OkxSymbolInfo(mt).steps \in Seq(PlainSteps)
    <2>1. CASE mt = "spot"
      BY <2>1 DEF OkxSymbolInfo, Reads, PlainSteps
    <2>2. CASE mt # "spot"
      BY <2>2 DEF OkxSymbolInfo, OkxFundingCycle, Reads, PlainSteps
    <2> QED BY <2>1, <2>2
  <1>1. /\ OkxTicker.steps \in Seq(PlainSteps)
        /\ OkxBookTicker.steps \in Seq(PlainSteps)
        /\ OkxOrderbook.steps \in Seq(PlainSteps)
        /\ OkxTrades.steps \in Seq(PlainSteps)
        /\ OkxAggTrades.steps \in Seq(PlainSteps)
        /\ OkxMarkPrice.steps \in Seq(PlainSteps)
        /\ OkxFundingRate.steps \in Seq(PlainSteps)
        /\ OkxLiquidations.steps \in Seq(PlainSteps)
        /\ OkxMarginTiers.steps \in Seq(PlainSteps)
        /\ OkxSymbolInfo(mt).steps \in Seq(PlainSteps)
        /\ Unserved.steps \in Seq(PlainSteps)
    BY <1>0 DEF Reads, Series, Unserved, PlainSteps, OkxTicker, OkxBookTicker, OkxOrderbook,
       OkxTrades, OkxAggTrades, OkxMarkPrice, OkxFundingRate, OkxLiquidations,
       OkxMarginTiers, OkxFundingCycle
  <1>2. /\ OkxCandles.steps \in Seq(Steps)
        /\ OkxOpenInterest.steps \in Seq(Steps)
        /\ OkxLongShort.steps \in Seq(Steps)
        /\ Unserved.steps \in Seq(Steps)
    BY DEF Reads, Series, Unserved, Steps, PlainSteps, OkxCandles, OkxOpenInterest,
       OkxLongShort, OkxFundingCycle
  <1>3. /\ OkxTickerStream.setup \in Seq(PlainSteps)
        /\ OkxBookTickerStream.setup \in Seq(PlainSteps)
        /\ OkxOrderbookStream.setup \in Seq(PlainSteps)
        /\ OkxTradesStream.setup \in Seq(PlainSteps)
        /\ OkxMarkPriceStream.setup \in Seq(PlainSteps)
        /\ OkxLiquidationsStream.setup \in Seq(PlainSteps)
        /\ Unstreamed.setup \in Seq(PlainSteps)
    BY DEF Method, Unstreamed, PlainSteps, OkxTickerStream, OkxBookTickerStream,
       OkxOrderbookStream, OkxTradesStream, OkxMarkPriceStream, OkxLiquidationsStream,
       OkxEntry
  <1>4. \A route \in Routes \ IntervalRoutes : OkxMethod(mt)[route].steps \in Seq(PlainSteps)
    BY SMTT(20), <1>1, RouteNames DEF OkxMethod, IntervalRoutes
  <1>5. \A route \in IntervalRoutes : OkxMethod(mt)[route].steps \in Seq(Steps)
    BY <1>2 DEF OkxMethod, IntervalRoutes
  <1>6. \A ch \in WsChannels : OkxStream[ch].setup \in Seq(PlainSteps)
    BY <1>3 DEF OkxStream, WsChannels
  <1>7. OkxInfo \in Seq(PlainSteps)
    BY DEF OkxInfo, PlainSteps
  <1> QED BY <1>4, <1>5, <1>6, <1>7 DEF StepsFit, MethodOf, StreamOf, InfoOf

-----------------------------------------------------------------------------
\* On every market of every exchange the table, the get_* methods and the
\* stream_* methods agree on what is offered and on the intervals.
THEOREM TablesAgree ==
    \A ex \in Exchanges : \A mt \in Supported(ex) : TableAgrees(ex, mt)
  BY BinanceTable, BybitTable, HyperliquidTable, KrakenTable, KucoinTable, OkxTable
     DEF Exchanges

\* A method of a route without intervals, a stream and the fetch of the
\* exchange-info table never look an interval up.
LEMMA StepsAgree == \A ex \in Exchanges : \A mt : StepsFit(ex, mt)
  BY BinanceSteps, BybitSteps, HyperliquidSteps, KrakenSteps, KucoinSteps, OkxSteps
     DEF Exchanges
=============================================================================
