-------------------------------- MODULE MCExec ---------------------------------
(***************************************************************************)
(* Instances of ExecWorker for TLC.  The fate of a reply comes from        *)
(* StreamReply: FlatParses is the shape parse_stream was written for,      *)
(* Resp2Parses the shape Redis sends.                                      *)
(***************************************************************************)
EXTENDS ExecWorker

R == INSTANCE StreamReply WITH Malformed <- {}

CONSTANTS w1, w2, g1, p1, x1

OneEntry    == <<[id |-> "0-1", fields |-> <<<<"intent", "intent">>>>]>>
FlatParses  == R!ParseStream(R!FlatReply(OneEntry)) # <<>>
Resp2Parses == R!ParseStream(R!Resp2Reply("trade-intents", OneEntry)) # <<>>

OneGroup    == [w \in Workers |-> g1]

(* A publication long enough for both processes to set a filter and to hang *)
(* in a trade that it gates, with a trade left for nobody to read.          *)
SetFilter == [kind |-> "filter", principal |-> p1, enabled |-> TRUE, expression |-> x1]
Gated     == [kind |-> "trade", principal |-> p1, force |-> FALSE]
Script    == <<SetFilter, SetFilter, Gated, Gated, Gated>>

PublishScripted ==
  /\ Len(stream) < Len(Script)
  /\ XAdd(Script[Len(stream) + 1])
  /\ UNCHANGED <<workerVars, faultVars>>

DrainSpec == Init /\ [][PublishScripted \/ ExecNext]_vars /\ HangFairness
===============================================================================
