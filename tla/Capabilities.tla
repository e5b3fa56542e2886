----------------------------- MODULE Capabilities -----------------------------
(***************************************************************************)
(* The capability tables of the adapters: for each market, the routes with *)
(* "rest" and with "ws" set, and the "intervals" of the three routes that  *)
(* take one (no intervals means the table does not restrict them).  Depth  *)
(* lists, limits, retention and completeness notes are left out.           *)
(***************************************************************************)
EXTENDS Naturals

Block(rest, ws, candles, oi, lsr) ==
  [rest |-> rest, ws |-> ws,
   intervals |-> [candles |-> candles, open_interest |-> oi, long_short_ratio |-> lsr]]

\* Served over REST by every market of every exchange.
CoreRest == {"ticker", "book_ticker", "orderbook", "trades", "candles"}

\* Streamed by every market of every exchange.
CoreWs == {"ticker", "book_ticker", "orderbook", "trades"}

Derivatives == CoreRest \cup {"mark_price", "funding_rate", "open_interest"}

-----------------------------------------------------------------------------
BinanceCandleIntervals == {"1m", "3m", "5m", "15m", "30m", "1h", "2h", "4h", "6h", "8h",
                           "12h", "1d", "3d", "1w", "1M"}
BinanceMetricIntervals == {"5m", "15m", "30m", "1h", "2h", "4h", "6h", "12h", "1d"}

BinanceSpot ==
  Block(CoreRest \cup {"agg_trades"}, CoreWs \cup {"agg_trades"}, BinanceCandleIntervals, {}, {})
BinanceLinear ==
  Block(Derivatives \cup {"agg_trades", "long_short_ratio"},
        CoreWs \cup {"mark_price", "agg_trades", "liquidations"},
        BinanceCandleIntervals, BinanceMetricIntervals, BinanceMetricIntervals)
BinanceInverse ==
  Block(Derivatives \cup {"agg_trades", "long_short_ratio"},
        CoreWs \cup {"mark_price", "agg_trades", "liquidations"},
        BinanceCandleIntervals, BinanceMetricIntervals, BinanceMetricIntervals)

-----------------------------------------------------------------------------
BybitCandleIntervals == {"1m", "3m", "5m", "15m", "30m", "1h", "2h", "4h", "6h", "12h",
                         "1d", "1w", "1M"}
BybitMetricIntervals == {"5m", "15m", "30m", "1h", "4h", "1d"}

BybitSpot == Block(CoreRest, CoreWs, BybitCandleIntervals, {}, {})
BybitLinear ==
  Block(Derivatives \cup {"long_short_ratio", "margin_tiers"}, CoreWs \cup {"liquidations"},
        BybitCandleIntervals, BybitMetricIntervals, BybitMetricIntervals)
BybitInverse ==
  Block(Derivatives \cup {"long_short_ratio", "margin_tiers"}, CoreWs \cup {"liquidations"},
        BybitCandleIntervals, BybitMetricIntervals, BybitMetricIntervals)

-----------------------------------------------------------------------------
HyperliquidCandleIntervals == {"1m", "3m", "5m", "15m", "30m", "1h", "2h", "4h", "8h", "12h",
                               "1d", "3d", "1w", "1M"}

HyperliquidSpot == Block(CoreRest, CoreWs, HyperliquidCandleIntervals, {}, {})
HyperliquidLinear ==
  Block(Derivatives \cup {"margin_tiers"}, CoreWs \cup {"mark_price"},
        HyperliquidCandleIntervals, {"5m", "15m", "30m", "1h", "4h", "1d"}, {})

-----------------------------------------------------------------------------
KrakenSpotCandleIntervals == {"1m", "5m", "15m", "30m", "1h", "4h", "1d", "1w"}
KrakenMetricIntervals     == {"1m", "5m", "15m", "30m", "1h", "4h", "12h", "1d"}

KrakenSpot == Block(CoreRest, CoreWs, KrakenSpotCandleIntervals, {}, {})
KrakenLinear ==
  Block(Derivatives \cup {"long_short_ratio"}, CoreWs \cup {"mark_price"},
        KrakenSpotCandleIntervals \cup {"12h"}, KrakenMetricIntervals, KrakenMetricIntervals)
KrakenInverse ==
  Block(Derivatives \cup {"long_short_ratio"}, CoreWs \cup {"mark_price"},
        KrakenSpotCandleIntervals \cup {"12h"}, KrakenMetricIntervals, KrakenMetricIntervals)

-----------------------------------------------------------------------------
KucoinSpotCandleIntervals == {"1m", "3m", "5m", "15m", "30m", "1h", "2h", "4h", "6h", "8h",
                              "12h", "1d", "1w"}
KucoinFutCandleIntervals  == {"1m", "5m", "15m", "30m", "1h", "2h", "4h", "8h", "12h", "1d", "1w"}
KucoinMetricIntervals     == {"5m", "15m", "30m", "1h", "4h", "1d"}

KucoinSpot == Block(CoreRest, CoreWs, KucoinSpotCandleIntervals, {}, {})
KucoinLinear ==
  Block(Derivatives, CoreWs \cup {"mark_price"}, KucoinFutCandleIntervals,
        KucoinMetricIntervals, {})
KucoinInverse ==
  Block(Derivatives, CoreWs \cup {"mark_price"}, KucoinFutCandleIntervals,
        KucoinMetricIntervals, {})

-----------------------------------------------------------------------------
OkxCandleIntervals == {"1m", "3m", "5m", "15m", "30m", "1h", "2h", "4h", "6h", "12h",
                       "1d", "1w", "1M"}
OkxMetricIntervals == {"5m", "15m", "30m", "1h", "2h", "4h", "6h", "12h", "1d"}

OkxSpot == Block(CoreRest, CoreWs, OkxCandleIntervals, {}, {})
OkxLinear ==
  Block(Derivatives \cup {"liquidations", "long_short_ratio", "margin_tiers"},
        CoreWs \cup {"mark_price", "liquidations"},
        OkxCandleIntervals, OkxMetricIntervals, {"5m", "1h", "1d"})
OkxInverse ==
  Block(Derivatives \cup {"liquidations", "long_short_ratio", "margin_tiers"},
        CoreWs \cup {"mark_price", "liquidations"},
        OkxCandleIntervals, OkxMetricIntervals, {"5m", "1h", "1d"})

-----------------------------------------------------------------------------
\* get_capabilities(): the markets of an exchange; supported_market_types are
\* the same ones.
Capabilities ==
  [binance     |-> [spot |-> BinanceSpot, linear |-> BinanceLinear, inverse |-> BinanceInverse],
   bybit       |-> [spot |-> BybitSpot, linear |-> BybitLinear, inverse |-> BybitInverse],
   hyperliquid |-> [spot |-> HyperliquidSpot, linear |-> HyperliquidLinear],
   kraken      |-> [spot |-> KrakenSpot, linear |-> KrakenLinear, inverse |-> KrakenInverse],
   kucoin      |-> [spot |-> KucoinSpot, linear |-> KucoinLinear, inverse |-> KucoinInverse],
   okx         |-> [spot |-> OkxSpot, linear |-> OkxLinear, inverse |-> OkxInverse]]

Supported(ex) == DOMAIN Capabilities[ex]
=============================================================================
