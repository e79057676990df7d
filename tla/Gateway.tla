-------------------------------- MODULE Gateway --------------------------------
(***************************************************************************)
(* From a Telegram message to an entry of the stream: the bot              *)
(* (bot/cmd/main.go, bot/internal/handlers) runs one goroutine per update, *)
(* which posts a request to the API (api/internal/httpapi) and tells the   *)
(* user what came of it; the API's dispatcher (api/internal/jobs) appends  *)
(* an intent with XADD.                                                    *)
(*                                                                         *)
(* Telegram and its client library are external: getUpdates(offset)        *)
(* confirms every update below offset for good and returns the others.  So *)
(* is go-redis: it sends XADD again when the answer is lost.               *)
(***************************************************************************)
EXTENDS Naturals, Sequences

CONSTANTS
  Principal,    \* auth.go: the one principal of every valid token
  Expressions,  \* filter expressions users may set
  Commands,     \* per message, what users may send
  None,         \* the empty expression
  SendFails,    \* whether Telegram may refuse an answer
  MaxUpdates,   \* bound: messages ever sent
  MaxLives,     \* bound: starts of the bot
  MaxRetries    \* go-redis: how often a command is sent again

VARIABLES
  sent,     \* messages users sent; an update's id is its position
  heard,    \* per update: the updates confirmed to the users when it was sent
  offset,   \* Telegram: updates below it are confirmed
  cursor,   \* bot: the offset its next poll sends, 0 after a start
  life,     \* which start of the bot this is
  task,     \* per update: its goroutine in this life of the bot
  request,  \* per update and life: its HTTP request
  tries,    \* per update and life: retries of its XADD
  replies,  \* per update: what the user was told (history)
  lost,     \* updates that a restart took (history)
  stream,   \* the Redis stream
  origin    \* per entry: the update it came from (history)

botVars  == <<sent, heard, offset, cursor, life, task, replies, lost>>
apiVars  == <<request, tries>>
logVars  == <<stream, origin>>
vars     == <<botVars, apiVars, logVars>>

Updates == 1 .. MaxUpdates
Lives   == 1 .. MaxLives

(* The commands that reach the API, /rsi, /macd and /signals among them as *)
(* "query", and those answered at once, as "usage".  A buy with values the *)
(* API rejects is not valid.                                               *)
Command == [name : {"buy", "forcebuy"}, valid : BOOLEAN]
             \cup [name : {"on"}, expression : Expressions]
             \cup [name : {"off", "paper", "live", "portfolio", "query", "usage"}]

ASSUME GatewayAssumption ==
  /\ MaxUpdates \in Nat /\ MaxLives \in Nat \ {0} /\ MaxRetries \in Nat
  /\ None \notin Expressions /\ SendFails \in BOOLEAN
  /\ Commands \in [Updates -> SUBSET Command]

IntentOf(command) ==
  CASE command.name \in {"buy", "forcebuy"} ->
         [kind |-> "trade", principal |-> Principal, force |-> command.name = "forcebuy"]
    [] command.name = "on" ->
         [kind |-> "filter", principal |-> Principal, enabled |-> TRUE,
          expression |-> command.expression]
    [] command.name = "off" ->
         [kind |-> "filter", principal |-> Principal, enabled |-> FALSE,
          expression |-> None]
    [] OTHER -> [kind |-> "other", principal |-> Principal]

TypeOK ==
  /\ sent \in Seq(Command) /\ Len(sent) <= MaxUpdates
  /\ heard \in [Updates -> SUBSET Updates]
  /\ offset \in 0 .. MaxUpdates + 1 /\ cursor \in 0 .. MaxUpdates + 1
  /\ life \in Lives
  /\ task \in [Updates -> {"none", "queued", "waiting", "done", "unsent"}]
  /\ request \in [Updates -> [Lives -> {"none", "sent", "retry", "published", "answered", "refused"}]]
  /\ tries \in [Updates -> [Lives -> 0 .. MaxRetries]]
  /\ replies \in [Updates -> SUBSET {"submitted", "shown", "rejected", "usage"}]
  /\ lost \subseteq Updates
  /\ origin \in Seq(Updates) /\ Len(origin) = Len(stream)
  /\ \A k \in DOMAIN stream : stream[k] = IntentOf(sent[origin[k]])

Init ==
  /\ sent = <<>> /\ heard = [u \in Updates |-> {}]
  /\ offset = 0 /\ cursor = 0 /\ life = 1
  /\ task = [u \in Updates |-> "none"]
  /\ request = [u \in Updates |-> [l \in Lives |-> "none"]]
  /\ tries = [u \in Updates |-> [l \in Lives |-> 0]]
  /\ replies = [u \in Updates |-> {}] /\ lost = {}
  /\ stream = <<>> /\ origin = <<>>

(* A user sends a message, having seen the bot's answers so far. *)
Send ==
  /\ Len(sent) < MaxUpdates
  /\ \E command \in Commands[Len(sent) + 1] : sent' = Append(sent, command)
  /\ heard' = [heard EXCEPT ![Len(sent) + 1] =
                 {u \in Updates : "submitted" \in replies[u]}]
  /\ UNCHANGED <<offset, cursor, life, task, replies, lost, apiVars, logVars>>

(* Mutant: the next offset is one too high. *)
PollSkips ==
  LET from == IF cursor > offset THEN cursor ELSE offset
      new  == {u \in 1 .. Len(sent) : u >= from}
  IN /\ offset # from \/ new # {}
     /\ offset' = from
     /\ cursor' = Len(sent) + 2
     /\ task' = [u \in Updates |-> IF u \in new THEN "queued" ELSE task[u]]
     /\ UNCHANGED <<sent, heard, life, replies, lost, apiVars, logVars>>

(***************************************************************************)
(* The library polls: what it fetched before is confirmed, what is not     *)
(* confirmed arrives on the updates channel.  main starts a goroutine for  *)
(* each, and nothing orders the goroutines.                                *)
(***************************************************************************)
Poll ==
  LET from == IF cursor > offset THEN cursor ELSE offset
      new  == {u \in 1 .. Len(sent) : u >= from}
  IN /\ offset # from \/ new # {}
     /\ offset' = from
     /\ cursor' = Len(sent) + 1
     /\ task' = [u \in Updates |-> IF u \in new THEN "queued" ELSE task[u]]
     /\ UNCHANGED <<sent, heard, life, replies, lost, apiVars, logVars>>

(* reply: when Telegram does not take the text, that is logged. *)
Answer(u, text) ==
  \/ /\ replies' = [replies EXCEPT ![u] = @ \cup {text}]
     /\ task' = [task EXCEPT ![u] = "done"]
  \/ /\ SendFails
     /\ task' = [task EXCEPT ![u] = "unsent"]
     /\ UNCHANGED replies

(* Mutant: bad arguments are not answered. *)
HandleSilently(u) ==
  /\ task[u] = "queued"
  /\ IF sent[u].name = "usage"
       THEN task' = [task EXCEPT ![u] = "done"] /\ UNCHANGED request
       ELSE /\ task' = [task EXCEPT ![u] = "waiting"]
            /\ request' = [request EXCEPT ![u][life] = "sent"]
  /\ UNCHANGED <<sent, heard, offset, cursor, life, lost, replies, tries, logVars>>

(* HandleUpdate: bad arguments are answered at once, the rest is posted. *)
Handle(u) ==
  /\ task[u] = "queued"
  /\ IF sent[u].name = "usage"
       THEN Answer(u, "usage") /\ UNCHANGED request
       ELSE /\ task' = [task EXCEPT ![u] = "waiting"]
            /\ request' = [request EXCEPT ![u][life] = "sent"]
            /\ UNCHANGED replies
  /\ UNCHANGED <<sent, heard, offset, cursor, life, lost, tries, logVars>>

(* The API's TA proxy: the TA service answers the query. *)
Proxy(u, l) ==
  /\ request[u][l] = "sent" /\ sent[u].name = "query"
  /\ request' = [request EXCEPT ![u][l] = "answered"]
  /\ UNCHANGED <<botVars, tries, logVars>>

IsTrade(command) == command.name \in {"buy", "forcebuy"}

(* The request fails before an XADD takes effect: the limiter or the token *)
(* check refuses it, createTrade finds the payload invalid, every try of   *)
(* XADD fails, or the TA service fails or lets 5 s pass.                   *)
Refuse(u, l) ==
  /\ request[u][l] \in {"sent", "retry"}
  /\ request' = [request EXCEPT ![u][l] = "refused"]
  /\ UNCHANGED <<botVars, tries, logVars>>

(***************************************************************************)
(* Publish: XADD takes effect.  Its answer arrives, or is lost: go-redis   *)
(* then sends the same intent again, or gives up and Publish returns an    *)
(* error for an intent that is on the stream.                              *)
(***************************************************************************)
Publish(u, l) ==
  /\ request[u][l] \in {"sent", "retry"}
  /\ sent[u].name # "query" /\ (IsTrade(sent[u]) => sent[u].valid)
  /\ stream' = Append(stream, IntentOf(sent[u]))
  /\ origin' = Append(origin, u)
  /\ \/ /\ request' = [request EXCEPT ![u][l] = "published"]
        /\ UNCHANGED tries
     \/ /\ tries[u][l] < MaxRetries
        /\ request' = [request EXCEPT ![u][l] = "retry"]
        /\ tries' = [tries EXCEPT ![u][l] = @ + 1]
     \/ /\ tries[u][l] = MaxRetries
        /\ request' = [request EXCEPT ![u][l] = "refused"]
        /\ UNCHANGED tries
  /\ UNCHANGED botVars

(* Mutant: the status code is ignored. *)
RespondOK(u) ==
  /\ task[u] = "waiting"
  /\ request[u][life] \in {"published", "refused"}
  /\ Answer(u, "submitted")
  /\ UNCHANGED <<sent, heard, offset, cursor, life, lost, apiVars, logVars>>

(* Mutant: the API answers before XADD has settled. *)
RespondEarly(u) ==
  /\ task[u] = "waiting"
  /\ \/ request[u][life] \in {"retry", "published"} /\ Answer(u, "submitted")
     \/ request[u][life] = "answered" /\ Answer(u, "shown")
     \/ request[u][life] = "refused" /\ Answer(u, "rejected")
  /\ UNCHANGED <<sent, heard, offset, cursor, life, lost, apiVars, logVars>>

(* The response reaches the goroutine that waits for it. *)
Respond(u) ==
  /\ task[u] = "waiting"
  /\ \/ request[u][life] = "published" /\ Answer(u, "submitted")
     \/ request[u][life] = "answered" /\ Answer(u, "shown")
     \/ request[u][life] = "refused" /\ Answer(u, "rejected")
  /\ UNCHANGED <<sent, heard, offset, cursor, life, lost, apiVars, logVars>>

(* Mutant: a timeout counts as success. *)
GiveUpSubmitted(u) ==
  /\ task[u] = "waiting"
  /\ Answer(u, "submitted")
  /\ UNCHANGED <<sent, heard, offset, cursor, life, lost, apiVars, logVars>>

(* The client's 10 s run out, or the connection breaks, as it does when the *)
(* API's main returns while a handler still works: the user is told that    *)
(* the command was rejected.  The handler may go on.                        *)
GiveUp(u) ==
  /\ task[u] = "waiting"
  /\ Answer(u, "rejected")
  /\ UNCHANGED <<sent, heard, offset, cursor, life, lost, apiVars, logVars>>

(* The bot dies with its goroutines and starts again with NewUpdate(0): an  *)
(* update that is confirmed and not answered will not be delivered again.   *)
Restart ==
  /\ life < MaxLives
  /\ life' = life + 1
  /\ cursor' = 0
  /\ task' = [u \in Updates |-> "none"]
  /\ lost' = lost \cup {u \in Updates : /\ u < offset
                                       /\ task[u] \in {"queued", "waiting", "unsent"}}
  /\ UNCHANGED <<sent, heard, offset, replies, apiVars, logVars>>

BotNext == Send \/ Poll \/ Restart
             \/ \E u \in Updates : Handle(u) \/ Respond(u) \/ GiveUp(u)

ApiNext == \E u \in Updates, l \in Lives : Proxy(u, l) \/ Refuse(u, l) \/ Publish(u, l)

Next == BotNext \/ ApiNext

Spec == Init /\ [][Next]_vars

(* The library polls forever, goroutines run, the client's timeout ends    *)
(* every wait.                                                             *)
Fairness ==
  /\ WF_vars(Poll)
  /\ \A u \in Updates : WF_vars(Handle(u)) /\ WF_vars(Respond(u) \/ GiveUp(u))

FairSpec == Spec /\ Fairness
-------------------------------------------------------------------------------
EntriesOf(u) == {k \in DOMAIN origin : origin[k] = u}

(* What the bot calls submitted is on the stream.                          *)
SubmittedIsPublished ==
  \A u \in Updates : "submitted" \in replies[u] => EntriesOf(u) # {}

(* A user who waits for the confirmation of one command before sending the *)
(* next gets them on the stream in that order: the confirmed one is there  *)
(* before any entry of the later one, whatever is retried or redelivered.  *)
ConfirmedComesFirst ==
  \A v \in Updates : \A u \in heard[v] : \A k \in EntriesOf(v) :
    \E j \in EntriesOf(u) : j < k

(* While the bot is not restarted, a confirmed command is never published  *)
(* again behind a later one: it cannot override the later one.             *)
NoStaleReplay ==
  life = 1 => \A v \in Updates : \A u \in heard[v] :
                \A j \in EntriesOf(u), k \in EntriesOf(v) : j < k

(* Every message is answered, in whichever life of the bot, or the log says *)
(* that the answer could not be sent; but for a message that was confirmed  *)
(* to Telegram and not yet answered when the bot died.                      *)
EveryUpdateAnswered ==
  \A u \in Updates :
    u <= Len(sent) ~> replies[u] # {} \/ task[u] = "unsent" \/ u \in lost

===============================================================================
