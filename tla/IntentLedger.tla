----------------------------- MODULE IntentLedger ------------------------------
(***************************************************************************)
(* What the execution side promises for one consumer group, without        *)
(* processes, pending lists or connections: a log of intents that only     *)
(* grows, and at most one verdict per intent, given in any order.  A trade *)
(* is blocked or failed only because a filter that was applied, and stood  *)
(* before it in the log, was enabled for its principal.                    *)
(***************************************************************************)
EXTENDS Naturals, Sequences

CONSTANTS Intents, Positions, None, Undecided, Settled
  \* Intents: what may be appended.  Positions: of the log.  None: the empty
  \* filter expression.  Settled: the verdict on a trade that goes through.

VARIABLES log, verdict

vars == <<log, verdict>>

Init == log = <<>> /\ verdict = [i \in Positions |-> Undecided]

Append1(intent) ==
  /\ Len(log) + 1 \in Positions
  /\ log' = Append(log, intent)
  /\ UNCHANGED verdict

Enables(j, principal) ==
  /\ log[j].kind = "filter" /\ log[j].principal = principal
  /\ log[j].enabled /\ log[j].expression # None
  /\ verdict[j] = "applied"

MayBeHeld(i) == /\ ~log[i].force
                /\ \E j \in 1 .. i - 1 : Enables(j, log[i].principal)

Verdicts(i) ==
  CASE log[i].kind = "filter" -> {"applied"}
    [] log[i].kind = "other"  -> {"ignored"}
    [] OTHER -> IF MayBeHeld(i) THEN {Settled, "blocked", "failed"} ELSE {Settled}

Decide(i) ==
  /\ verdict[i] = Undecided
  /\ \E v \in Verdicts(i) : verdict' = [verdict EXCEPT ![i] = v]
  /\ UNCHANGED log

Next == \/ \E intent \in Intents : Append1(intent)
        \/ \E i \in 1 .. Len(log) : Decide(i)

Spec == Init /\ [][Next]_vars
===============================================================================
