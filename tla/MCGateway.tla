------------------------------- MODULE MCGateway -------------------------------
(* Instances of Gateway for TLC. *)
EXTENDS Gateway

CONSTANT x1

Buy == [name |-> "buy", valid |-> TRUE]

Bad   == [name |-> "buy", valid |-> FALSE]
Query == [name |-> "query"]
Usage == [name |-> "usage"]

FirstThenSecond == <<{Buy, Bad, Query}, {Buy, Usage}>>
===============================================================================
