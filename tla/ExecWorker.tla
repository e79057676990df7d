------------------------------ MODULE ExecWorker ------------------------------
(***************************************************************************)
(* The execution orchestrator, exec/src/main.rs: worker_loop reads one     *)
(* intent at a time from the Redis stream through a consumer group,        *)
(* handle_intent applies it, XACK removes it from the group's pending      *)
(* list.  Auto-trade filters live in the process (exec/src/filters).       *)
(*                                                                         *)
(* Redis is external.  What this module relies on: XADD appends; a group   *)
(* has one last-delivered position and a pending list per consumer;        *)
(* XREADGROUP with ">" moves the position by one, puts the entry on the    *)
(* reader's pending list and never delivers an older entry again; XACK     *)
(* takes the entry off that list.                                          *)
(***************************************************************************)
EXTENDS Naturals, Sequences

CONSTANTS
  Workers,      \* exec processes
  Groups,       \* consumer groups on the stream
  GroupOf,      \* cfg.group of each process
  Principals,   \* who an intent is published for
  Expressions,  \* non-empty auto-trade expressions (with their interval)
  None,         \* the empty expression; no entry in the registry
  DryRun,       \* cfg.dry_run
  ReplyParses,  \* parse_stream finds the entry in an XREADGROUP reply
  MaxEntries,   \* bound: intents ever published
  MaxCrashes,   \* bound: process crashes
  MaxDrops      \* bound: Redis connections lost

ASSUME ExecAssumption ==
  /\ GroupOf \in [Workers -> Groups]
  /\ None \notin Expressions
  /\ DryRun \in BOOLEAN /\ ReplyParses \in BOOLEAN
  /\ MaxEntries \in Nat /\ MaxCrashes \in Nat /\ MaxDrops \in Nat

VARIABLES
  stream,         \* the stream "trade-intents", oldest first
  lastDelivered,  \* per group: position of the newest entry handed out
  pending,        \* per process: entries delivered to it and not acknowledged
  pc,             \* per process: where worker_loop is
  current,        \* per process: the entry in hand
  registry,       \* per process: filters::Registry, principal -> expression
  gate,           \* per process: the filter cloned for the trade in hand
  conn,           \* per process: its Redis connection works
  epoch,          \* per process: how often it was started
  effect,         \* what each process did with each entry (history)
  crashes, drops

groupVars  == <<stream, lastDelivered, pending>>
faultVars  == <<crashes, drops>>
workerVars == <<pc, current, registry, gate, conn, epoch, effect>>
vars       == <<groupVars, workerVars, faultVars>>

Entries == 1 .. MaxEntries

(* job::Intent as the API publishes it: a trade, the action               *)
(* set-autotrade-filter, or any other action.                              *)
Trade  == [kind: {"trade"}, principal: Principals, force: BOOLEAN]
Filter == [kind: {"filter"}, principal: Principals, enabled: BOOLEAN,
           expression: Expressions \cup {None}]
Other  == [kind: {"other"}, principal: Principals]
Intent == Trade \cup Filter \cup Other

Outcome  == {"executed", "dry_run", "blocked", "failed", "applied", "ignored"}
Effect   == [outcome: Outcome, gate: Expressions \cup {None}, epoch: Nat]
NoEffect == [outcome |-> "none"]
Decided(w, i) == effect[w][i] # NoEffect

GroupType ==
  /\ stream \in Seq(Intent) /\ Len(stream) <= MaxEntries
  /\ lastDelivered \in [Groups -> 0 .. MaxEntries]
  /\ \A g \in Groups : lastDelivered[g] <= Len(stream)
  /\ pending \in [Workers -> SUBSET Entries]

WorkerType ==
  /\ pc \in [Workers -> {"down", "read", "handle", "signals", "ack"}]
  /\ current \in [Workers -> 0 .. MaxEntries]
  /\ registry \in [Workers -> [Principals -> Expressions \cup {None}]]
  /\ gate \in [Workers -> Expressions \cup {None}]
  /\ conn \in [Workers -> BOOLEAN]
  /\ epoch \in [Workers -> Nat]
  /\ effect \in [Workers -> [Entries -> Effect \cup {NoEffect}]]

FaultType == crashes \in 0 .. MaxCrashes /\ drops \in 0 .. MaxDrops

(* Every value is one the program can hold. *)
TypeOK == GroupType /\ WorkerType /\ FaultType

EmptyRegistry == [p \in Principals |-> None]

Init ==
  /\ stream = <<>>
  /\ lastDelivered = [g \in Groups |-> 0]
  /\ pending = [w \in Workers |-> {}]
  /\ pc = [w \in Workers |-> "down"]
  /\ current = [w \in Workers |-> 0]
  /\ registry = [w \in Workers |-> EmptyRegistry]
  /\ gate = [w \in Workers |-> None]
  /\ conn = [w \in Workers |-> FALSE]
  /\ epoch = [w \in Workers |-> 0]
  /\ effect = [w \in Workers |-> [i \in Entries |-> NoEffect]]
  /\ crashes = 0 /\ drops = 0

(***************************************************************************)
(* The API's dispatcher appends an intent (api/internal/jobs).             *)
(***************************************************************************)
XAdd(intent) ==
  /\ Len(stream) < MaxEntries
  /\ stream' = Append(stream, intent)
  /\ UNCHANGED <<lastDelivered, pending>>

Publish ==
  /\ \E intent \in Intent : XAdd(intent)
  /\ UNCHANGED <<workerVars, faultVars>>

(* Mutant: the group is made again from the oldest entry on. *)
StartFromOldest(w) ==
  /\ pc[w] = "down"
  /\ pc' = [pc EXCEPT ![w] = "read"]
  /\ current' = [current EXCEPT ![w] = 0]
  /\ registry' = [registry EXCEPT ![w] = EmptyRegistry]
  /\ conn' = [conn EXCEPT ![w] = TRUE]
  /\ epoch' = [epoch EXCEPT ![w] = @ + 1]
  /\ lastDelivered' = [lastDelivered EXCEPT ![GroupOf[w]] = 0]
  /\ UNCHANGED <<stream, pending, gate, effect, faultVars>>

(***************************************************************************)
(* main: ensure_stream_group ignores the error of an existing group, so a  *)
(* restart keeps the group's position; connection and registry are new.    *)
(***************************************************************************)
Start(w) ==
  /\ pc[w] = "down"
  /\ pc' = [pc EXCEPT ![w] = "read"]
  /\ current' = [current EXCEPT ![w] = 0]
  /\ registry' = [registry EXCEPT ![w] = EmptyRegistry]
  /\ conn' = [conn EXCEPT ![w] = TRUE]
  /\ epoch' = [epoch EXCEPT ![w] = @ + 1]
  /\ UNCHANGED <<groupVars, gate, effect, faultVars>>

(* Mutant: no check that there is an entry to deliver. *)
DeliverPastEnd(w) ==
  LET g == GroupOf[w]
      i == lastDelivered[g] + 1
  IN /\ lastDelivered[g] < MaxEntries
     /\ lastDelivered' = [lastDelivered EXCEPT ![g] = i]
     /\ pending' = [pending EXCEPT ![w] = @ \cup {i}]
     /\ UNCHANGED stream

(* Mutant: XREADGROUP with NOACK. *)
DeliverNoAck(w) ==
  LET g == GroupOf[w]
  IN /\ lastDelivered[g] < Len(stream)
     /\ lastDelivered' = [lastDelivered EXCEPT ![g] = @ + 1]
     /\ UNCHANGED <<stream, pending>>

(* Redis serves XREADGROUP ... COUNT 1 STREAMS s ">" for process w. *)
Deliver(w) ==
  LET g == GroupOf[w]
      i == lastDelivered[g] + 1
  IN /\ lastDelivered[g] < Len(stream)
     /\ lastDelivered' = [lastDelivered EXCEPT ![g] = i]
     /\ pending' = [pending EXCEPT ![w] = @ \cup {i}]
     /\ UNCHANGED stream

(* Mutant: the pending list is read before new entries. *)
ReadPending(w) ==
  /\ pc[w] = "read" /\ conn[w]
  /\ \/ /\ pending[w] # {}
        /\ UNCHANGED groupVars
        /\ \E i \in pending[w] : current' = [current EXCEPT ![w] = i]
     \/ /\ pending[w] = {}
        /\ Deliver(w)
        /\ current' = [current EXCEPT ![w] = lastDelivered'[GroupOf[w]]]
  /\ pc' = [pc EXCEPT ![w] = "handle"]
  /\ UNCHANGED <<registry, gate, conn, epoch, effect, faultVars>>

(* Mutant: nothing new is read while an entry is unacknowledged. *)
ReadWhenIdle(w) ==
  /\ pc[w] = "read" /\ conn[w] /\ pending[w] = {}
  /\ Deliver(w)
  /\ pc' = [pc EXCEPT ![w] = "handle"]
  /\ current' = [current EXCEPT ![w] = lastDelivered'[GroupOf[w]]]
  /\ UNCHANGED <<registry, gate, conn, epoch, effect, faultVars>>

(***************************************************************************)
(* One read of worker_loop.  An entry that parse_stream does not find in   *)
(* the reply is neither handled nor acknowledged: the loop reads on.  The  *)
(* empty reply of a BLOCK timeout changes nothing.                         *)
(***************************************************************************)
Read(w) ==
  /\ pc[w] = "read" /\ conn[w]
  /\ Deliver(w)
  /\ IF ReplyParses
       THEN /\ pc' = [pc EXCEPT ![w] = "handle"]
            /\ current' = [current EXCEPT ![w] = lastDelivered'[GroupOf[w]]]
       ELSE UNCHANGED <<pc, current>>
  /\ UNCHANGED <<registry, gate, conn, epoch, effect, faultVars>>

(***************************************************************************)
(* The connection breaks, before Redis saw the pending XREADGROUP or after *)
(* it moved the entry.  It is opened once, in main: worker_loop logs the   *)
(* error of every later command, sleeps and tries the same one again.      *)
(***************************************************************************)
ConnectionLost(w) ==
  /\ pc[w] # "down" /\ conn[w] /\ drops < MaxDrops
  /\ conn' = [conn EXCEPT ![w] = FALSE]
  /\ drops' = drops + 1
  /\ \/ UNCHANGED groupVars
     \/ pc[w] = "read" /\ Deliver(w)
  /\ UNCHANGED <<pc, current, registry, gate, epoch, effect, crashes>>

(* What the entry in hand came to; worker_loop acknowledges next. *)
Decide(w, outcome, g) ==
  /\ effect' = [effect EXCEPT ![w][current[w]] =
                  [outcome |-> outcome, gate |-> g, epoch |-> epoch[w]]]
  /\ pc' = [pc EXCEPT ![w] = "ack"]

(* The end of handle_trade: broadcast is a stub, dry run skips it. *)
FinalOutcome == IF DryRun THEN "dry_run" ELSE "executed"

(* handle_action for set-autotrade-filter: disabled or empty clears. *)
NewFilter(intent) == IF intent.enabled THEN intent.expression ELSE None

(* Mutant: a disabled filter stays in the registry. *)
HandleFilterOnly(w) ==
  LET intent == stream[current[w]]
  IN /\ pc[w] = "handle" /\ intent.kind = "filter"
     /\ registry' = IF NewFilter(intent) = None THEN registry
                      ELSE [registry EXCEPT ![w][intent.principal] = NewFilter(intent)]
     /\ Decide(w, "applied", None)
     /\ UNCHANGED <<groupVars, current, gate, conn, epoch, faultVars>>

HandleFilter(w) ==
  LET intent == stream[current[w]]
  IN /\ pc[w] = "handle" /\ intent.kind = "filter"
     /\ registry' = [registry EXCEPT ![w][intent.principal] = NewFilter(intent)]
     /\ Decide(w, "applied", None)
     /\ UNCHANGED <<groupVars, current, gate, conn, epoch, faultVars>>

(* Every other action, set-mode and portfolio among them, is only logged. *)
HandleOther(w) ==
  /\ pc[w] = "handle" /\ stream[current[w]].kind = "other"
  /\ Decide(w, "ignored", None)
  /\ UNCHANGED <<groupVars, current, registry, gate, conn, epoch, faultVars>>

(* handle_trade when it is forced or its principal has no filter. *)
HandleUngated(w) ==
  LET intent == stream[current[w]]
  IN /\ pc[w] = "handle" /\ intent.kind = "trade"
     /\ intent.force \/ registry[w][intent.principal] = None
     /\ Decide(w, FinalOutcome, None)
     /\ UNCHANGED <<groupVars, current, registry, gate, conn, epoch, faultVars>>

(* Mutant: a forced trade is gated too. *)
HandleGatedForced(w) ==
  LET intent == stream[current[w]]
  IN /\ pc[w] = "handle" /\ intent.kind = "trade"
     /\ registry[w][intent.principal] # None
     /\ gate' = [gate EXCEPT ![w] = registry[w][intent.principal]]
     /\ pc' = [pc EXCEPT ![w] = "signals"]
     /\ UNCHANGED <<groupVars, current, registry, conn, epoch, effect, faultVars>>

(* handle_trade clones the filter and asks the TA service for signals. *)
HandleGated(w) ==
  LET intent == stream[current[w]]
  IN /\ pc[w] = "handle" /\ intent.kind = "trade"
     /\ ~intent.force /\ registry[w][intent.principal] # None
     /\ gate' = [gate EXCEPT ![w] = registry[w][intent.principal]]
     /\ pc' = [pc EXCEPT ![w] = "signals"]
     /\ UNCHANGED <<groupVars, current, registry, conn, epoch, effect, faultVars>>

(***************************************************************************)
(* filter.evaluate returns.  The TA service may fail, or the expression    *)
(* may be invalid or name a missing indicator (error): handle_trade        *)
(* returns the error.  The request has no timeout.                         *)
(***************************************************************************)
Signals(w) ==
  /\ pc[w] = "signals"
  /\ \E outcome \in {FinalOutcome, "blocked", "failed"} :
        Decide(w, outcome, gate[w])
  /\ gate' = [gate EXCEPT ![w] = None]
  /\ UNCHANGED <<groupVars, current, registry, conn, epoch, faultVars>>

(* XACK after handle_intent, whatever it returned; its own error is logged. *)
Ack(w) ==
  /\ pc[w] = "ack"
  /\ pc' = [pc EXCEPT ![w] = "read"]
  /\ pending' = IF conn[w] THEN [pending EXCEPT ![w] = @ \ {current[w]}]
                           ELSE pending
  /\ UNCHANGED <<stream, lastDelivered, current, registry, gate, conn, epoch,
                 effect, faultVars>>

(* The process dies: everything it held in memory is gone. *)
Crash(w) ==
  /\ pc[w] # "down" /\ crashes < MaxCrashes
  /\ crashes' = crashes + 1
  /\ pc' = [pc EXCEPT ![w] = "down"]
  /\ current' = [current EXCEPT ![w] = 0]
  /\ registry' = [registry EXCEPT ![w] = EmptyRegistry]
  /\ gate' = [gate EXCEPT ![w] = None]
  /\ conn' = [conn EXCEPT ![w] = FALSE]
  /\ UNCHANGED <<groupVars, epoch, effect, drops>>

Handle(w) ==
  \/ HandleFilter(w)
  \/ HandleOther(w)
  \/ HandleUngated(w)
  \/ HandleGated(w)

Work(w) == Read(w) \/ Handle(w) \/ Signals(w) \/ Ack(w)

ExecNext ==
  \E w \in Workers : Start(w) \/ Work(w) \/ ConnectionLost(w) \/ Crash(w)

Next == Publish \/ ExecNext

Spec == Init /\ [][Next]_vars

(* worker_loop never stops by itself, a supervisor restarts the process,   *)
(* and the TA service answers or fails.                                    *)
Fairness == \A w \in Workers : WF_vars(Start(w)) /\ WF_vars(Work(w))

FairSpec == Spec /\ Fairness

(* TAClient sets no timeout: the TA service may leave a request hanging.    *)
HangFairness ==
  \A w \in Workers :
    WF_vars(Start(w)) /\ WF_vars(Read(w) \/ Handle(w) \/ Ack(w))
-------------------------------------------------------------------------------
(***************************************************************************)
(* What the group and the orchestrator achieve together.                   *)
(***************************************************************************)
Members(g) == {w \in Workers : GroupOf[w] = g}

(* At most one process of a group decides an entry, whoever crashed or     *)
(* lost its connection in between: exec never runs one intent twice.       *)
AtMostOnce ==
  \A v, w \in Workers : \A i \in Entries :
    GroupOf[v] = GroupOf[w] /\ Decided(v, i) /\ Decided(w, i) => v = w

(* No process decides an entry a second time, in the same life or a later  *)
(* one: worker_loop reads only ">", never its own pending list.            *)
DecisionIsFinal ==
  [][\A w \in Workers, i \in Entries :
       Decided(w, i) => effect'[w][i] = effect[w][i]]_vars

(* An entry the group handed out was decided by a member or is still on a  *)
(* member's pending list: the XACK of worker_loop never hides a loss, so   *)
(* XPENDING shows every intent that went missing.                          *)
NothingLostSilently ==
  \A g \in Groups : \A i \in 1 .. lastDelivered[g] :
    \E w \in Members(g) : Decided(w, i) \/ i \in pending[w]

(* Process w applied filter entry j for principal p in its life e. *)
Applied(w, j, p, e) ==
  /\ Decided(w, j)
  /\ effect[w][j].outcome = "applied" /\ effect[w][j].epoch = e
  /\ stream[j].principal = p

(* f is what the newest such entry before position i set, if any did. *)
FilterBefore(w, i, p, e, f) ==
  LET before(j) == j < i /\ Applied(w, j, p, e)
  IN \/ f = None /\ \A j \in Entries : ~before(j)
     \/ \E j \in Entries : /\ before(j) /\ f = NewFilter(stream[j])
                           /\ \A k \in Entries : before(k) => k <= j

GatedByNewest(w, i) ==
  LET e == effect[w][i]
  IN /\ IF stream[i].force THEN e.gate = None
          ELSE FilterBefore(w, i, stream[i].principal, e.epoch, e.gate)
     /\ e.outcome \in {"blocked", "failed"} => e.gate # None

(* The filter that gated a decided trade is the newest one set before it,  *)
(* in stream order, by the same process in the same life; a forced trade   *)
(* has no gate; only a gate blocks or fails a trade.                       *)
NewestFilterGates ==
  \A w \in Workers, i \in Entries :
    Decided(w, i) /\ stream[i].kind = "trade" => GatedByNewest(w, i)

(* Every published intent is decided by a process of each group.           *)
EveryIntentDecided ==
  \A g \in Groups, i \in Entries :
    i <= Len(stream) ~> \E w \in Members(g) : Decided(w, i)

Stuck(w) == pc[w] = "signals" \/ (pc[w] = "read" /\ ~conn[w])

(* A group hands out everything that is published, again and again, until   *)
(* each of its members hangs in a TA request or has lost the connection     *)
(* that nothing opens again: under HangFairness no crash and no fault of    *)
(* one member stalls the others.                                            *)
StallsOnlyTogether ==
  \A g \in Groups : \/ []<>(lastDelivered[g] = Len(stream))
                    \/ <>[](\A w \in Members(g) : Stuck(w))

===============================================================================
