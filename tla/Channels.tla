------------------------------- MODULE Channels -------------------------------
(***************************************************************************)
(* What each stream_* method of the six adapters does with the frames the  *)
(* hub hands it.  A method is summarised by                                *)
(*                                                                         *)
(*   refused  the market types it raises NotImplementedError for           *)
(*   frame    "whole"     a frame carries the complete value               *)
(*            "items"     a frame carries independent events               *)
(*            "patch"     a snapshot, then deltas that carry no sequence   *)
(*                        number the method looks at                       *)
(*            "sequenced" a snapshot, then deltas whose number must be one *)
(*                        more than that of the frame before               *)
(*            "chained"   a snapshot, then deltas that name the number of  *)
(*                        the frame before as well as their own            *)
(*   bad      what a frame that fails to parse does: "skip" it and read    *)
(*            on, or "end" the stream                                      *)
(*   both     a value is yielded only when bids and asks are both there    *)
(*   replay   the subscription asks the venue to send recent events again  *)
(*   setup    what the method does before its first frame, in the steps of *)
(*            module Methods; "capacity" is the limit on subscriptions of  *)
(*            Hyperliquid                                                  *)
(*                                                                         *)
(* Prices, quantities and timestamps of the yielded models are left out.   *)
(***************************************************************************)
EXTENDS Naturals

MarketTypes == {"spot", "linear", "inverse"}

Exchanges == {"binance", "bybit", "hyperliquid", "kraken", "kucoin", "okx"}

WsChannels == {"ticker", "book_ticker", "mark_price", "agg_trades", "trades",
               "orderbook", "liquidations"}

\* Nobody passes a depth to a stream, so the default of the signature is used.
StreamDepth == 20

Method(setup, refused, frame, bad) ==
  [setup |-> setup, refused |-> refused, frame |-> frame, bad |-> bad,
   both |-> FALSE, replay |-> FALSE]

\* The base class raises NotImplementedError for every market.
Unstreamed == Method(<<>>, MarketTypes, "whole", "skip")

-----------------------------------------------------------------------------
BinanceTickerStream       == Method(<<"info">>, {}, "whole", "skip")
BinanceBookTickerStream   == Method(<<"info">>, {}, "whole", "skip")
BinanceOrderbookStream    == Method(<<"info">>, {}, "whole", "skip")
BinanceTradesStream       == Method(<<"info">>, {}, "items", "skip")
BinanceAggTradesStream    == Method(<<"info">>, {}, "items", "skip")
BinanceMarkPriceStream    == Method(<<"info">>, {"spot"}, "whole", "skip")
BinanceLiquidationsStream == Method(<<"info">>, {"spot"}, "items", "skip")

BinanceStream == [ticker |-> BinanceTickerStream, book_ticker |-> BinanceBookTickerStream,
                  orderbook |-> BinanceOrderbookStream, trades |-> BinanceTradesStream,
                  agg_trades |-> BinanceAggTradesStream, mark_price |-> BinanceMarkPriceStream,
                  liquidations |-> BinanceLiquidationsStream]

-----------------------------------------------------------------------------
BybitTickerStream       == Method(<<"info">>, {}, "patch", "skip")
BybitBookTickerStream   == [Method(<<"info">>, {}, "sequenced", "end") EXCEPT !.both = TRUE]
BybitOrderbookStream    == Method(<<"info">>, {}, "sequenced", "end")
BybitTradesStream       == Method(<<"info">>, {}, "items", "skip")
BybitLiquidationsStream == Method(<<"info">>, {"spot"}, "items", "skip")

BybitStream == [ticker |-> BybitTickerStream, book_ticker |-> BybitBookTickerStream,
                orderbook |-> BybitOrderbookStream, trades |-> BybitTradesStream,
                agg_trades |-> Unstreamed, mark_price |-> Unstreamed,
                liquidations |-> BybitLiquidationsStream]

-----------------------------------------------------------------------------
\* _lookup, and for a ticker the day's candles.
HyperliquidEntry == <<"info", "listed", "capacity">>
HyperliquidDaily == <<"info", "listed", "get", "capacity">>

HyperliquidTickerStream     == Method(HyperliquidDaily, {}, "whole", "skip")
HyperliquidBookTickerStream == [Method(HyperliquidEntry, {}, "whole", "skip") EXCEPT !.both = TRUE]
HyperliquidMarkPriceStream  == Method(HyperliquidEntry, {"spot", "inverse"}, "whole", "skip")
HyperliquidTradesStream     == Method(HyperliquidEntry, {}, "items", "skip")
HyperliquidOrderbookStream  == Method(HyperliquidEntry, {}, "whole", "end")

HyperliquidStream == [ticker |-> HyperliquidTickerStream,
                      book_ticker |-> HyperliquidBookTickerStream,
                      orderbook |-> HyperliquidOrderbookStream,
                      trades |-> HyperliquidTradesStream, agg_trades |-> Unstreamed,
                      mark_price |-> HyperliquidMarkPriceStream,
                      liquidations |-> Unstreamed]

-----------------------------------------------------------------------------
\* _spot_ws_symbol: the symbol map, or a heuristic.
KrakenEntry == <<"info", "guess">>

KrakenTickerStream     == Method(KrakenEntry, {}, "whole", "skip")
KrakenBookTickerStream == Method(KrakenEntry, {}, "whole", "skip")
\* The spot book arrives in one shape, the futures book in another that is
\* only yielded with both sides present; neither looks at a sequence number.
KrakenSpotBookStream    == Method(KrakenEntry, {}, "patch", "end")
KrakenFuturesBookStream == [Method(KrakenEntry, {}, "patch", "end") EXCEPT !.both = TRUE]
\* The spot subscription sets "snapshot", the futures feed sends
\* "trade_snapshot"; both hand recent trades to the reader again.
KrakenTradesStream     == [Method(KrakenEntry, {}, "items", "skip") EXCEPT !.replay = TRUE]
KrakenMarkPriceStream  == Method(<<"info">>, {"spot"}, "whole", "skip")

KrakenStream(mt) ==
  [ticker |-> KrakenTickerStream, book_ticker |-> KrakenBookTickerStream,
   orderbook |-> IF mt = "spot" THEN KrakenSpotBookStream ELSE KrakenFuturesBookStream,
   trades |-> KrakenTradesStream, agg_trades |-> Unstreamed,
   mark_price |-> KrakenMarkPriceStream, liquidations |-> Unstreamed]

-----------------------------------------------------------------------------
KucoinEntry == <<"resolve", "info", "mult">>

KucoinTickerStream         == Method(<<"resolve", "info">>, {}, "whole", "skip")
KucoinSpotBookTickerStream == [Method(KucoinEntry, {}, "whole", "skip") EXCEPT !.both = TRUE]
KucoinFutBookTickerStream  == Method(KucoinEntry, {}, "whole", "skip")
KucoinOrderbookStream      == Method(KucoinEntry, {}, "whole", "skip")
KucoinTradesStream         == Method(KucoinEntry, {}, "items", "skip")
KucoinMarkPriceStream      == Method(<<"resolve", "info">>, {"spot"}, "whole", "skip")

KucoinStream(mt) ==
  [ticker |-> KucoinTickerStream,
   book_ticker |-> IF mt = "spot" THEN KucoinSpotBookTickerStream
                   ELSE KucoinFutBookTickerStream,
   orderbook |-> KucoinOrderbookStream, trades |-> KucoinTradesStream,
   agg_trades |-> Unstreamed, mark_price |-> KucoinMarkPriceStream,
   liquidations |-> Unstreamed]

-----------------------------------------------------------------------------
OkxEntry == <<"guess", "info", "mult">>

OkxTickerStream       == Method(<<"guess", "info">>, {}, "whole", "skip")
OkxBookTickerStream   == [Method(OkxEntry, {}, "whole", "skip") EXCEPT !.both = TRUE]
\* Depths up to 5 use channels whose every frame is a whole book.
OkxOrderbookStream ==
  Method(OkxEntry, {}, IF StreamDepth <= 5 THEN "whole" ELSE "chained", "end")
OkxTradesStream       == Method(OkxEntry, {}, "items", "skip")
OkxMarkPriceStream    == Method(<<"guess", "info">>, {"spot"}, "whole", "skip")
OkxLiquidationsStream == Method(OkxEntry, {"spot"}, "items", "skip")

OkxStream == [ticker |-> OkxTickerStream, book_ticker |-> OkxBookTickerStream,
              orderbook |-> OkxOrderbookStream, trades |-> OkxTradesStream,
              agg_trades |-> Unstreamed, mark_price |-> OkxMarkPriceStream,
              liquidations |-> OkxLiquidationsStream]

-----------------------------------------------------------------------------
StreamOf(ex, mt, ch) ==
  CASE ex = "binance"     -> BinanceStream[ch]
    [] ex = "bybit"       -> BybitStream[ch]
    [] ex = "hyperliquid" -> HyperliquidStream[ch]
    [] ex = "kraken"      -> KrakenStream(mt)[ch]
    [] ex = "kucoin"      -> KucoinStream(mt)[ch]
    [] ex = "okx"         -> OkxStream[ch]

\* The shapes of the methods that do stream somewhere.
StreamShapes ==
  {s \in {StreamOf(ex, mt, ch) : ex \in Exchanges, mt \in MarketTypes, ch \in WsChannels} :
     s.refused # MarketTypes}
=============================================================================
