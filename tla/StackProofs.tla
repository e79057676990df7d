------------------------------ MODULE StackProofs ------------------------------
(***************************************************************************)
(* The whole path of a command: its parts keep their specifications when   *)
(* they run together, so what is proved of each holds of the stack, and a  *)
(* filter the bot confirmed gates the trades sent after it.                *)
(***************************************************************************)
EXTENDS TradingStack, TLAPS

CONSTANT Group  \* the consumer group looked at

GateP == INSTANCE GatewayProofs
ExecP == INSTANCE ExecProofs WITH
  Principals <- {Principal}, MaxEntries <- StreamBound

(* The bounds of the two parts fit. *)
LEMMA BoundOfStream ==
  /\ StreamBound \in Nat
  /\ StreamBound = MaxUpdates * (MaxLives * (MaxRetries + 1))
<1> PICK r \in Nat : r = MaxRetries + 1
  BY StackAssumption
<1>1. \A a, b, c \in Nat : (a * b) * c = a * (b * c) /\ (a * b) * c \in Nat
  OBVIOUS
<1>2. MaxUpdates \in Nat /\ MaxLives \in Nat
  BY StackAssumption
<1> QED BY <1>1, <1>2 DEF StreamBound

LEMMA GateAssumes == GateP!GatewayAssumption
BY StackAssumption DEF GateP!GatewayAssumption, GateP!Updates, GateP!Command,
   Gate!Updates, Gate!Command

LEMMA ExecAssumes == ExecP!ExecAssumption
BY StackAssumption, BoundOfStream DEF ExecP!ExecAssumption

-------------------------------------------------------------------------------
(* A step of the stack is one of the bot and the API, or leaves them alone. *)
LEMMA GateInit == Init => GateP!Init
BY DEF Init, Gate!Init, GateP!Init, Gate!Updates, GateP!Updates, Gate!Lives, GateP!Lives

LEMMA GateStep == [Next]_vars => [GateP!Next]_(GateP!vars)
<1> SUFFICES ASSUME [Next]_vars PROVE [GateP!Next]_(GateP!vars)
  OBVIOUS
<1>1. CASE Gate!Next
  BY <1>1
     DEF Gate!Next, Gate!BotNext, Gate!ApiNext, Gate!Updates, Gate!Lives, Gate!Send, Gate!Poll,
         Gate!Restart, Gate!Handle, Gate!Respond, Gate!GiveUp, Gate!Answer, Gate!Proxy,
         Gate!Refuse, Gate!Publish, Gate!IsTrade, Gate!IntentOf, Gate!botVars, Gate!apiVars,
         Gate!logVars,
         GateP!Next, GateP!BotNext, GateP!ApiNext, GateP!Updates, GateP!Lives, GateP!Send,
         GateP!Poll, GateP!Restart, GateP!Handle, GateP!Respond, GateP!GiveUp, GateP!Answer,
         GateP!Proxy, GateP!Refuse, GateP!Publish, GateP!IsTrade, GateP!IntentOf,
         GateP!botVars, GateP!apiVars, GateP!logVars
<1>2. ASSUME Exec!ExecNext PROVE UNCHANGED stream
  BY <1>2
     DEF Exec!ExecNext, Exec!Work, Exec!Handle, Exec!Start, Exec!Read, Exec!Deliver,
         Exec!ConnectionLost, Exec!Crash, Exec!HandleFilter, Exec!HandleOther,
         Exec!HandleUngated, Exec!HandleGated, Exec!Signals, Exec!Ack, Exec!groupVars
<1>3. CASE UNCHANGED gateVars /\ UNCHANGED stream
  BY <1>3 DEF gateVars, GateP!vars, GateP!botVars, GateP!apiVars, GateP!logVars
<1> QED BY <1>1, <1>2, <1>3 DEF Next, vars

(* The bot and the API behave in the stack as they do on their own. *)
LEMMA GateOfStack == Spec => GateP!Spec
BY GateInit, GateStep, PTL DEF Spec, GateP!Spec

LEMMA GateInvariants ==
  Spec => [](GateP!GatewayInv /\ GateP!StreamIsShort)
<1>1. GateP!Spec => []GateP!GatewayInv
  BY GateP!GatewayHolds, GateAssumes
<1>2. GateP!Spec => []GateP!StreamIsShort
  BY GateP!OneEntryPerTry, GateAssumes
<1> QED BY GateOfStack, <1>1, <1>2, PTL

-------------------------------------------------------------------------------
(* What the API publishes is an intent the exec processes know. *)
LEMMA IntentsMatch ==
  ASSUME NEW command \in GateP!Command
  PROVE  GateP!IntentOf(command) \in ExecP!Intent
BY DEF GateP!Command, GateP!IntentOf, ExecP!Intent, ExecP!Trade, ExecP!Filter, ExecP!Other

LEMMA ExecInit == Init => ExecP!Init
BY DEF Init, Gate!Init, Exec!Init, ExecP!Init, Exec!Entries, ExecP!Entries, Exec!EmptyRegistry,
   ExecP!EmptyRegistry, Exec!NoEffect, ExecP!NoEffect

LEMMA ExecStep ==
  ASSUME GateP!GatewayInv, GateP!StreamIsShort', [Next]_vars
  PROVE  [ExecP!Next]_(ExecP!vars)
<1>1. ASSUME NEW u \in Gate!Updates, NEW l \in Gate!Lives, Gate!Publish(u, l), UNCHANGED execVars
      PROVE  ExecP!Publish
  <2>1. /\ stream' = Append(stream, Gate!IntentOf(sent[u]))
        /\ request[u][l] # "none"
    BY <1>1 DEF Gate!Publish
  <2>2. sent[u] \in GateP!Command
    BY <2>1, StackAssumption
       DEF GateP!GatewayInv, GateP!TypeOK, GateP!OnlySent, Gate!Updates, Gate!Lives,
           GateP!Updates, GateP!Lives
  <2>3. Gate!IntentOf(sent[u]) = GateP!IntentOf(sent[u])
    BY DEF Gate!IntentOf, GateP!IntentOf
  <2> PICK intent \in ExecP!Intent : intent = Gate!IntentOf(sent[u])
    BY <2>2, <2>3, IntentsMatch
  <2>4. stream \in Seq(GateP!Intents) /\ stream' = Append(stream, intent)
    BY <2>1 DEF GateP!GatewayInv
  <2>5. Len(stream) \in Nat /\ Len(stream') = Len(stream) + 1
    BY <2>4
  <2>6. Len(stream) < StreamBound
    BY <2>5, BoundOfStream DEF GateP!StreamIsShort
  <2>7. ExecP!XAdd(intent)
    BY <1>1, <2>4, <2>6 DEF ExecP!XAdd, execVars
  <2> QED BY <1>1, <2>7 DEF ExecP!Publish, ExecP!workerVars, ExecP!faultVars, execVars
<1>2. CASE Gate!Next /\ UNCHANGED execVars
  <2>1. CASE \E u \in Gate!Updates, l \in Gate!Lives : Gate!Publish(u, l)
    BY <1>1, <1>2, <2>1 DEF ExecP!Next
  <2>2. CASE UNCHANGED stream
    BY <1>2, <2>2 DEF execVars, ExecP!vars, ExecP!groupVars, ExecP!workerVars, ExecP!faultVars
  <2>3. (\E u \in Gate!Updates, l \in Gate!Lives : Gate!Publish(u, l)) \/ UNCHANGED stream
    BY <1>2
       DEF Gate!Next, Gate!BotNext, Gate!ApiNext, Gate!Send, Gate!Poll, Gate!Restart,
           Gate!Handle, Gate!Respond, Gate!GiveUp, Gate!Proxy, Gate!Refuse, Gate!logVars
  <2> QED BY <2>1, <2>2, <2>3
<1>3. CASE Exec!ExecNext
  BY <1>3
     DEF Exec!ExecNext, Exec!Work, Exec!Handle, Exec!Start, Exec!Read, Exec!Deliver,
         Exec!ConnectionLost, Exec!Crash, Exec!HandleFilter, Exec!HandleOther,
         Exec!HandleUngated, Exec!HandleGated, Exec!Signals, Exec!Ack, Exec!Decide,
         Exec!NewFilter, Exec!FinalOutcome, Exec!EmptyRegistry, Exec!groupVars, Exec!faultVars,
         ExecP!Next, ExecP!ExecNext, ExecP!Work, ExecP!Handle, ExecP!Start, ExecP!Read,
         ExecP!Deliver, ExecP!ConnectionLost, ExecP!Crash, ExecP!HandleFilter,
         ExecP!HandleOther, ExecP!HandleUngated, ExecP!HandleGated, ExecP!Signals, ExecP!Ack,
         ExecP!Decide, ExecP!NewFilter, ExecP!FinalOutcome, ExecP!EmptyRegistry,
         ExecP!groupVars, ExecP!faultVars
<1>4. CASE UNCHANGED vars
  BY <1>4 DEF vars, execVars, ExecP!vars, ExecP!groupVars, ExecP!workerVars, ExecP!faultVars
<1> QED BY <1>2, <1>3, <1>4 DEF Next

(* The exec processes behave in the stack as they do on their own: the API  *)
(* never appends more than their bound allows, nor anything else.           *)
LEMMA ExecOfStack == Spec => ExecP!Spec
BY ExecInit, ExecStep, GateInvariants, PTL DEF Spec, ExecP!Spec

(* A command through the whole path: whatever the bot, the API, Redis and   *)
(* the exec processes do, crash or lose, a group decides what is on the     *)
(* stream once, and each verdict is one the ledger allows.                  *)
THEOREM StackImplementsLedger == Spec => ExecP!ImplementsLedger
BY ExecOfStack, ExecP!GroupImplementsLedger, ExecAssumes, PTL

-------------------------------------------------------------------------------
(* What the intents of commands are, and what the registry makes of them.   *)
LEMMA IntentOfCommand ==
  ASSUME NEW command \in GateP!Command
  PROVE  /\ command.name = "buy" =>
              GateP!IntentOf(command) = [kind |-> "trade", principal |-> Principal, force |-> FALSE]
         /\ GateP!IntentOf(command).kind = "filter" <=> command.name \in {"on", "off"}
         /\ GateP!IntentOf(command).kind = "filter" =>
              /\ GateP!IntentOf(command).principal = Principal
              /\ ExecP!NewFilter(GateP!IntentOf(command)) = GateP!IntentOf(command).expression
BY DEF GateP!Command, GateP!IntentOf, ExecP!NewFilter

(* The entries of messages, as both parts see them. *)
LEMMA EntriesOfCommands ==
  ASSUME GateP!GatewayInv, ExecP!OneLife
  PROVE  /\ Len(stream) \in Nat /\ Len(origin) = Len(stream)
         /\ \A k \in 1 .. Len(stream) :
              /\ k \in ExecP!Entries
              /\ origin[k] \in 1 .. Len(sent) /\ origin[k] \in GateP!Updates
              /\ sent[origin[k]] \in GateP!Command
              /\ stream[k] = GateP!IntentOf(sent[origin[k]])
         /\ \A u : Gate!EntriesOf(u) = {k \in 1 .. Len(stream) : origin[k] = u}
         /\ \A u : GateP!EntriesOf(u) = {k \in 1 .. Len(stream) : origin[k] = u}
<1>1. /\ origin \in Seq(GateP!Updates) /\ Len(origin) = Len(stream)
      /\ sent \in Seq(GateP!Command)
      /\ stream \in Seq(GateP!Intents)
      /\ \A k \in DOMAIN stream : stream[k] = GateP!IntentOf(sent[origin[k]])
      /\ \A k \in 1 .. Len(origin) : origin[k] <= Len(sent)
  BY DEF GateP!GatewayInv, GateP!TypeOK, GateP!OnlySent
<1>2. Len(stream) \in Nat /\ Len(stream) <= StreamBound
  BY <1>1 DEF ExecP!OneLife, ExecP!LInv, ExecP!IInv, ExecP!TypeOK, ExecP!GroupType
<1>3. DOMAIN origin = 1 .. Len(stream) /\ DOMAIN stream = 1 .. Len(stream)
  BY <1>1
<1>4. ASSUME NEW k \in 1 .. Len(stream)
      PROVE  /\ k \in ExecP!Entries
             /\ origin[k] \in 1 .. Len(sent) /\ origin[k] \in GateP!Updates
             /\ sent[origin[k]] \in GateP!Command
             /\ stream[k] = GateP!IntentOf(sent[origin[k]])
  <2>1. k \in ExecP!Entries
    BY <1>2, BoundOfStream DEF ExecP!Entries
  <2>2. origin[k] \in GateP!Updates /\ origin[k] <= Len(sent)
    BY <1>1
  <2>3. origin[k] \in 1 .. Len(sent)
    BY <1>1, <2>2 DEF GateP!Updates
  <2>4. sent[origin[k]] \in GateP!Command
    BY <1>1, <2>3
  <2> QED BY <1>1, <1>3, <2>1, <2>2, <2>3, <2>4
<1>5. /\ \A u : Gate!EntriesOf(u) = {k \in 1 .. Len(stream) : origin[k] = u}
      /\ \A u : GateP!EntriesOf(u) = {k \in 1 .. Len(stream) : origin[k] = u}
  BY <1>3 DEF Gate!EntriesOf, GateP!EntriesOf
<1> QED BY <1>1, <1>2, <1>4, <1>5

LEMMA NewestConfirmedGates ==
  ASSUME GateP!GatewayInv, ExecP!OneLife, ExecP!NoGaps, life = 1, crashes = 0
  PROVE  ConfirmedFilterGates
<1> SUFFICES ASSUME NEW v \in 1 .. Len(sent), NEW w \in Workers, NEW k \in Gate!EntriesOf(v),
                    DecidedAt(w, k), sent[v].name = "buy",
                    NEW u \in 1 .. Len(sent), NewestConfirmed(u, v)
             PROVE  effect[w][k].gate = Gate!IntentOf(sent[u]).expression
  BY DEF ConfirmedFilterGates
<1> DEFINE e == effect[w][k]
           Set(j) == j < k /\ ExecP!Applied(w, j, Principal, e.epoch)
<1>1. /\ k \in 1 .. Len(stream) /\ origin[k] = v /\ k \in ExecP!Entries
      /\ v \in GateP!Updates
  BY EntriesOfCommands
<1>2. stream[k] = [kind |-> "trade", principal |-> Principal, force |-> FALSE]
  BY <1>1, EntriesOfCommands, IntentOfCommand
<1>3. \A j \in ExecP!Entries : ExecP!Decided(w, j) => effect[w][j].epoch = epoch[w]
  BY DEF ExecP!OneLife, ExecP!InOrder
<1>4. ExecP!Decided(w, k) /\ e.epoch = epoch[w]
  BY <1>1, <1>3 DEF DecidedAt, Exec!Decided, ExecP!Decided, Exec!NoEffect, ExecP!NoEffect
<1>5. ExecP!FilterBefore(w, k, Principal, e.epoch, e.gate)
  BY <1>1, <1>2, <1>4
     DEF ExecP!OneLife, ExecP!LInv, ExecP!FInv, ExecP!NewestFilterGates, ExecP!GatedByNewest
(* An entry of u comes first, and it was applied. *)
<1>6. PICK first \in 1 .. Len(stream) : origin[first] = u /\ first < k
  <2>1. \E j \in GateP!EntriesOf(u) : j < k
    BY <1>1, EntriesOfCommands DEF NewestConfirmed, GateP!GatewayInv, GateP!ConfirmedComesFirst
  <2> QED BY <2>1, EntriesOfCommands
<1>7. Set(first)
  <2>1. first \in ExecP!Entries /\ ExecP!Decided(w, first)
    BY <1>1, <1>4, <1>6, EntriesOfCommands DEF ExecP!NoGaps
  <2>2. stream[first].kind = "filter" /\ stream[first].principal = Principal
    BY <1>6, EntriesOfCommands, IntentOfCommand DEF NewestConfirmed, FilterCommand
  <2>3. effect[w][first].outcome = "applied"
    BY <2>1, <2>2 DEF ExecP!OneLife, ExecP!FiltersApply
  <2> QED BY <1>3, <1>4, <1>6, <2>1, <2>2, <2>3 DEF ExecP!Applied
(* So the gate is a filter that was set, and nothing newer was. *)
<1>8. PICK last \in ExecP!Entries : /\ Set(last) /\ e.gate = ExecP!NewFilter(stream[last])
                                    /\ first <= last
  <2>1. first \in ExecP!Entries
    BY <1>6, EntriesOfCommands
  <2> QED BY <1>5, <1>7, <2>1 DEF ExecP!FilterBefore
(* It is an entry of u: any other command's entries are before u's first.   *)
<1>9. /\ last \in 1 .. Len(stream) /\ stream[last].kind = "filter"
  <2>1. ExecP!Decided(w, last) /\ effect[w][last].outcome = "applied"
    BY <1>8 DEF ExecP!Applied
  <2>2. last \in 1 .. Len(stream)
    BY <1>1, <1>8, EntriesOfCommands DEF ExecP!Entries
  <2> QED BY <1>8, <2>1, <2>2 DEF ExecP!OneLife, ExecP!LInv, ExecP!AppliedAreFilters
<1>10. origin[last] = u
  <2> SUFFICES ASSUME origin[last] # u PROVE FALSE
    OBVIOUS
  <2>1. FilterCommand(origin[last]) /\ origin[last] \in 1 .. Len(sent)
    BY <1>9, EntriesOfCommands, IntentOfCommand DEF FilterCommand
  <2>2. origin[last] \in heard[u]
    BY <2>1 DEF NewestConfirmed
  <2>3. u \in GateP!Updates
    BY <1>6, EntriesOfCommands
  <2>4. last < first
    BY <1>6, <1>9, <2>2, <2>3, EntriesOfCommands DEF GateP!GatewayInv, GateP!NoStaleReplay
  <2> QED BY <1>6, <1>8, <1>9, <2>4
<1>11. ExecP!NewFilter(stream[last]) = GateP!IntentOf(sent[u]).expression
  BY <1>9, <1>10, EntriesOfCommands, IntentOfCommand
<1> QED BY <1>8, <1>11 DEF Gate!IntentOf, GateP!IntentOf

(* "Auto-trade filter enabled" and "disabled" mean it: with one             *)
(* orchestrator per group, and as long as neither the bot nor an            *)
(* orchestrator was restarted, a trade is gated by the newest setting its   *)
(* user saw confirmed, however often XADD is retried, whatever is refused,  *)
(* times out or is lost on the way.                                         *)
THEOREM ConfirmedFilterGatesTrades ==
  ASSUME \A v, w \in Workers : GroupOf[v] = GroupOf[w] => v = w
  PROVE  Spec => [](life = 1 /\ crashes = 0 => ConfirmedFilterGates)
<1>1. ExecP!Alone
  BY DEF ExecP!Alone
<1>2. ExecP!Spec => []ExecP!OneLife
  BY <1>1, ExecP!OneLifeHolds, ExecAssumes
<1>3. ExecP!Spec => [](crashes = 0 => ExecP!NoGaps)
  BY <1>1, ExecP!AloneLeavesNoGap, ExecAssumes
<1>4. GateP!GatewayInv /\ ExecP!OneLife /\ (crashes = 0 => ExecP!NoGaps) =>
        (life = 1 /\ crashes = 0 => ConfirmedFilterGates)
  BY NewestConfirmedGates
<1> QED BY <1>2, <1>3, <1>4, ExecOfStack, GateInvariants, PTL
===============================================================================
