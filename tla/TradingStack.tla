------------------------------ MODULE TradingStack ------------------------------
(***************************************************************************)
(* The whole path of a command: users, bot and API (Gateway) on one side   *)
(* of the Redis stream, the exec processes (ExecWorker) on the other.      *)
(***************************************************************************)
EXTENDS Naturals, Sequences

CONSTANTS
  Principal, Expressions, Commands, None, SendFails, MaxUpdates, MaxLives, MaxRetries,
  Workers, Groups, GroupOf, DryRun, ReplyParses, MaxCrashes, MaxDrops

VARIABLES
  sent, heard, offset, cursor, life, task, request, tries, replies, lost, origin,
  stream,
  lastDelivered, pending, pc, current, registry, gate, conn, epoch, effect,
  crashes, drops

StreamBound == MaxUpdates * MaxLives * (MaxRetries + 1)

Gate == INSTANCE Gateway
Exec == INSTANCE ExecWorker WITH
  Principals <- {Principal}, MaxEntries <- StreamBound

ASSUME StackAssumption ==
  /\ MaxUpdates \in Nat /\ MaxLives \in Nat \ {0} /\ MaxRetries \in Nat
  /\ None \notin Expressions /\ SendFails \in BOOLEAN
  /\ Commands \in [Gate!Updates -> SUBSET Gate!Command]
  /\ GroupOf \in [Workers -> Groups]
  /\ DryRun \in BOOLEAN /\ ReplyParses \in BOOLEAN
  /\ MaxCrashes \in Nat /\ MaxDrops \in Nat

gateVars == <<sent, heard, offset, cursor, life, task, request, tries, replies,
              lost, origin>>
execVars == <<lastDelivered, pending, pc, current, registry, gate, conn, epoch,
              effect, crashes, drops>>
vars     == <<gateVars, execVars, stream>>

Init == Gate!Init /\ Exec!Init

Next == \/ Gate!Next /\ UNCHANGED execVars
        \/ Exec!ExecNext /\ UNCHANGED gateVars

Spec == Init /\ [][Next]_vars

(* The bot polls and its goroutines run, the API's handlers end, the exec  *)
(* processes run and the TA service answers.                               *)
FairSpec ==
  /\ Spec
  /\ WF_vars(Gate!Poll /\ UNCHANGED execVars)
  /\ \A u \in Gate!Updates :
       WF_vars((Gate!Handle(u) \/ Gate!Respond(u) \/ Gate!GiveUp(u))
                      /\ UNCHANGED execVars)
  /\ \A w \in Workers :
       /\ WF_vars(Exec!Start(w) /\ UNCHANGED gateVars)
       /\ WF_vars(Exec!Work(w) /\ UNCHANGED gateVars)
-------------------------------------------------------------------------------
DecidedAt(w, k) == Exec!Decided(w, k)

FilterCommand(u) == sent[u].name \in {"on", "off"}

(* u is the newest filter command when v is sent: v's user saw it          *)
(* confirmed, and every other filter command was confirmed before u.       *)
NewestConfirmed(u, v) ==
  /\ FilterCommand(u) /\ u \in heard[v]
  /\ \A x \in 1 .. Len(sent) : FilterCommand(x) /\ x # u => x \in heard[u]

(* "Auto-trade filter enabled" and "disabled" mean it: a trade sent after  *)
(* the confirmation is gated by exactly that setting.                      *)
ConfirmedFilterGates ==
  \A v \in 1 .. Len(sent), w \in Workers : \A k \in Gate!EntriesOf(v) :
    DecidedAt(w, k) /\ sent[v].name = "buy" =>
      \A u \in 1 .. Len(sent) : NewestConfirmed(u, v) =>
        effect[w][k].gate = Gate!IntentOf(sent[u]).expression

(* A command the bot called submitted is decided by the orchestrator.      *)
SubmittedIsDecided ==
  \A u \in Gate!Updates :
    "submitted" \in replies[u] ~>
      \E k \in Gate!EntriesOf(u), w \in Workers : DecidedAt(w, k)

===============================================================================
