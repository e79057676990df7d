-------------------------------- MODULE MCStack --------------------------------
(* Instances of TradingStack for TLC. *)
EXTENDS TradingStack

CONSTANTS x1, w1, g1

Buy == [name |-> "buy", valid |-> TRUE]
On  == [name |-> "on", expression |-> x1]
Off == [name |-> "off"]

(* Two settings and a trade, in some order. *)
FilterCommands == <<{On, Off}, {Buy, On, Off}, {Buy}>>
OneGroup       == [w \in Workers |-> g1]
===============================================================================
