------------------------------- MODULE MCLedger --------------------------------
(* An instance of ExecLedger for TLC. *)
EXTENDS ExecLedger

CONSTANTS w1, w2, g1, p1, x1

OneGroup == [w \in Workers |-> g1]
===============================================================================
