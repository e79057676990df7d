------------------------------ MODULE ExecLedger -------------------------------
(***************************************************************************)
(* The processes of one consumer group implement the ledger: the verdict   *)
(* on an intent is the outcome at the member that decided it.              *)
(***************************************************************************)
EXTENDS ExecWorker

CONSTANT Group  \* the consumer group looked at; one without members decides nothing

Verdict(i) ==
  IF \E w \in Members(Group) : Decided(w, i)
    THEN effect[CHOOSE w \in Members(Group) : Decided(w, i)][i].outcome
    ELSE "none"

Ledger == INSTANCE IntentLedger WITH
  Intents <- Intent, Positions <- Entries, Undecided <- "none",
  Settled <- FinalOutcome, log <- stream,
  verdict <- [i \in Entries |-> Verdict(i)]

(* Every behaviour of the group, crashes and lost connections included, is *)
(* a behaviour of the ledger: handle_intent's results in stream order or   *)
(* out of it, each at most once and each justified by the log.             *)
ImplementsLedger == Ledger!Spec
===============================================================================
