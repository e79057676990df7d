-------------------------------- MODULE MCMarket --------------------------------
(***************************************************************************)
(* MarketData for TLC.  Its parts share no state, so a behaviour is one of *)
(* a single part and the others stay as they began.                        *)
(***************************************************************************)
EXTENDS MarketData

CONSTANTS btc, r1, c1, c2

VARIABLE part   \* the part that moves

MarketInit == Init /\ Hub!Init /\ Ticker!Init /\ part \in {"feed", "hub", "ticker"}

MarketNext ==
  /\ part' = part
  /\ \/ part = "feed" /\ Next /\ UNCHANGED <<hubVars, tickerVars>>
     \/ part = "hub" /\ Hub!Next /\ UNCHANGED <<vars, tickerVars>>
     \/ part = "ticker" /\ Ticker!Next /\ UNCHANGED <<vars, hubVars>>

MarketSpec ==
  /\ MarketInit /\ [][MarketNext]_<<vars, hubVars, tickerVars, part>>
  /\ Hub!Fairness /\ (part = "ticker" => Ticker!Fairness)
-------------------------------------------------------------------------------
(* The liveness properties, for the part they are about. *)

(* server.go, main.go: a client that does not read delays nobody. *)
SlowClientsHurtThemselves == part = "hub" => Hub!SlowClientsHurtThemselves

(* binance.go: the program ends after its deadline, a quiet socket aside. *)
EndsUnlessQuiet == part = "ticker" => Ticker!EndsUnlessQuiet
===============================================================================
