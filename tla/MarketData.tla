------------------------------- MODULE MarketData -------------------------------
(***************************************************************************)
(* The parts that carry market data: the TA service's candles              *)
(* (CandleFeed) and WebSocket hub (WsHub), and the exchange connector's    *)
(* ticker (CexTicker).  They share no state.                               *)
(***************************************************************************)
EXTENDS CandleFeed

CONSTANTS Conns, MaxInbox, MaxLate

VARIABLES
  process, handler, writer, socket, peer, clients, broadcast, todo, sending,
  ctx, loop, program, stream, inbox, late

hubVars    == <<process, handler, writer, socket, peer, clients, broadcast, todo, sending>>
tickerVars == <<ctx, loop, program, stream, inbox, late>>

Hub    == INSTANCE WsHub
Ticker == INSTANCE CexTicker WITH socket <- stream
-------------------------------------------------------------------------------
(* The properties of WsHub and CexTicker. *)

(* server.go: no connection is kept or left open once its writer is through. *)
NoOrphans == Hub!NoOrphans

(* server.go, main.go: the process panics while it stops, or never. *)
PanicsOnlyWhileStopping == Hub!PanicsOnlyWhileStopping

(* binance.go, main.go: two ticks at most are printed after ctx is done. *)
TwoLateTicksAtMost == Ticker!TwoLateTicksAtMost
===============================================================================
