----------------------------- MODULE GatewayProofs ------------------------------
(***************************************************************************)
(* What the bot calls submitted is on the stream, and confirmed commands   *)
(* keep their order, for every number of messages, retries and restarts    *)
(* and whatever Telegram refuses to send.                                  *)
(***************************************************************************)
EXTENDS Gateway, FiniteSetTheorems, TLAPS

Intents == {IntentOf(command) : command \in Command}

(* Nothing is known of a message that was not sent. *)
OnlySent ==
  /\ \A u \in Updates : task[u] # "none" => u <= Len(sent)
  /\ \A u \in Updates, l \in Lives : request[u][l] # "none" => u <= Len(sent)
  /\ \A k \in 1 .. Len(origin) : origin[k] <= Len(sent)

(* A request whose XADD was answered has an entry. *)
AnsweredIsPublished ==
  \A u \in Updates, l \in Lives :
    request[u][l] = "published" => \E k \in 1 .. Len(origin) : origin[k] = u

(* Users have seen only what they were told. *)
HeardIsTold == \A v \in Updates : \A u \in heard[v] : "submitted" \in replies[u]

(* In the bot's first life the library delivers a message once, so a        *)
(* message has one request, and a confirmed one is through with it.         *)
OneRequestEach ==
  life = 1 => \A u \in Updates :
    /\ u >= cursor => task[u] = "none"
    /\ \A l \in Lives : l # 1 => request[u][l] = "none"
    /\ task[u] \in {"none", "queued"} => request[u][1] = "none"
    /\ "submitted" \in replies[u] => request[u][1] = "published"

GatewayInv ==
  /\ TypeOK /\ stream \in Seq(Intents)
  /\ OnlySent /\ AnsweredIsPublished /\ HeardIsTold /\ OneRequestEach
  /\ SubmittedIsPublished /\ ConfirmedComesFirst /\ NoStaleReplay

USE GatewayAssumption DEF Updates, Lives

LEMMA EntriesInDomain ==
  ASSUME TypeOK, NEW u \in Updates
  PROVE  EntriesOf(u) = {k \in 1 .. Len(origin) : origin[k] = u}
<1>1. origin \in Seq(Updates)
  BY DEF TypeOK
<1>2. DOMAIN origin = 1 .. Len(origin)
  BY <1>1, SMT
<1> QED BY <1>2, Zenon DEF EntriesOf

LEMMA Naturals ==
  ASSUME TypeOK
  PROVE  /\ Len(sent) \in Nat /\ Len(origin) \in Nat /\ life \in Nat /\ cursor \in Nat
         /\ \A k \in 1 .. Len(origin) : origin[k] \in Updates /\ origin[k] \in Nat
         /\ \A u \in Updates : u \in Nat
<1>1. /\ sent \in Seq(Command) /\ origin \in Seq(Updates) /\ life \in Lives
      /\ cursor \in 0 .. MaxUpdates + 1
  BY DEF TypeOK
<1>2. Len(sent) \in Nat /\ Len(origin) \in Nat /\ life \in Nat /\ cursor \in Nat
  BY <1>1, SMT
<1>3. \A k \in 1 .. Len(origin) : origin[k] \in Updates
  BY <1>1, SMT
<1> QED BY <1>2, <1>3, SMT

LEMMA InitGateway == Init => GatewayInv
<1> SUFFICES ASSUME Init PROVE GatewayInv
  OBVIOUS
<1> USE DEF Init
<1>1. TypeOK /\ stream \in Seq(Intents)
  BY SMT DEF TypeOK
<1>2. OnlySent /\ AnsweredIsPublished /\ HeardIsTold /\ OneRequestEach
  BY SMT DEF OnlySent, AnsweredIsPublished, HeardIsTold, OneRequestEach
<1>3. SubmittedIsPublished /\ ConfirmedComesFirst /\ NoStaleReplay
  BY SMT DEF SubmittedIsPublished, ConfirmedComesFirst, NoStaleReplay
<1> QED BY <1>1, <1>2, <1>3 DEF GatewayInv

(* What the stream says of messages does not change where it does not grow, *)
(* nobody is told that a message was submitted, and users learn nothing.    *)
LEMMA OrderIsKept ==
  ASSUME GatewayInv, UNCHANGED <<origin, heard>>, life' >= life, life' \in Lives
  PROVE  ConfirmedComesFirst' /\ NoStaleReplay'
<1>1. life' = 1 => life = 1
  BY SMT DEF GatewayInv, TypeOK
<1> QED BY <1>1, SMT DEF GatewayInv, ConfirmedComesFirst, NoStaleReplay, EntriesOf

LEMMA SendStep == GatewayInv /\ Send => GatewayInv'
<1> SUFFICES ASSUME GatewayInv, Send PROVE GatewayInv'
  OBVIOUS
<1> DEFINE n == Len(sent) + 1
<1>1. PICK command \in Commands[n] : sent' = Append(sent, command)
  BY Zenon DEF Send
<1>2. /\ Len(sent) < MaxUpdates
      /\ heard' = [heard EXCEPT ![n] = {u \in Updates : "submitted" \in replies[u]}]
      /\ UNCHANGED <<offset, cursor, life, task, replies, lost, request, tries, stream, origin>>
  BY DEF Send, apiVars, logVars
<1>3. n \in Updates /\ sent \in Seq(Command) /\ command \in Command
  BY <1>1, <1>2, SMT DEF GatewayInv, TypeOK
<1>4. /\ sent' \in Seq(Command) /\ Len(sent') = n
      /\ \A i \in 1 .. Len(sent) : sent'[i] = sent[i]
  BY <1>1, <1>3, SMT
<1>5. TypeOK' /\ stream' \in Seq(Intents)
  <2>1. \A k \in DOMAIN stream : sent'[origin[k]] = sent[origin[k]]
    BY <1>4, SMT DEF GatewayInv, TypeOK, OnlySent
  <2>2. heard' \in [Updates -> SUBSET Updates]
    BY <1>2, <1>3, SMT DEF GatewayInv, TypeOK
  <2> QED BY <1>2, <1>3, <1>4, <2>1, <2>2, SMT DEF GatewayInv, TypeOK
<1>6. OnlySent' /\ AnsweredIsPublished' /\ OneRequestEach' /\ SubmittedIsPublished'
  <2>1. OnlySent'
    <3>1. /\ TypeOK /\ OnlySent
          /\ UNCHANGED <<task, request, origin>>
      BY <1>2 DEF GatewayInv
    <3>2. Len(sent) \in Nat /\ \A k \in 1 .. Len(origin) : origin[k] \in Nat
      BY <3>1, Naturals
    <3>3. Len(sent) <= Len(sent') /\ Len(sent') \in Nat
      BY <1>4, <3>2, SMT
    <3>4. \A i \in Nat : i <= Len(sent) => i <= Len(sent')
      BY <3>2, <3>3, SMT
    <3>5. Updates \subseteq Nat
      BY SMT
    <3> QED BY <3>1, <3>2, <3>4, <3>5, Zenon DEF OnlySent
  <2>2. AnsweredIsPublished' /\ OneRequestEach'
    BY <1>2, SMT DEF GatewayInv, AnsweredIsPublished, OneRequestEach
  <2>3. SubmittedIsPublished'
    BY <1>2, Zenon DEF GatewayInv, SubmittedIsPublished, EntriesOf
  <2> QED BY <2>1, <2>2, <2>3
<1>7. HeardIsTold'
  BY <1>2, <1>3, SMT DEF GatewayInv, TypeOK, HeardIsTold
<1>8. EntriesOf(n) = {} /\ \A v \in Updates : EntriesOf(v)' = EntriesOf(v)
  <2>1. EntriesOf(n) = {k \in 1 .. Len(origin) : origin[k] = n}
    BY <1>3, EntriesInDomain DEF GatewayInv
  <2>2. EntriesOf(n) = {}
    BY <2>1, Naturals, SMT DEF GatewayInv, OnlySent
  <2>3. \A v \in Updates : EntriesOf(v)' = EntriesOf(v)
    BY <1>2, Zenon DEF EntriesOf
  <2> QED BY <2>2, <2>3
<1>9. \A v \in Updates : v # n => heard'[v] = heard[v]
  BY <1>2, <1>3, SMT DEF GatewayInv, TypeOK
<1>10. \A v \in Updates : heard'[v] \subseteq Updates
  BY <1>5, SMT DEF TypeOK
<1> HIDE DEF n
<1>11. ConfirmedComesFirst'
  BY <1>2, <1>8, <1>9, <1>10, SMT DEF GatewayInv, TypeOK, ConfirmedComesFirst
<1>12. NoStaleReplay'
  BY <1>2, <1>8, <1>9, <1>10, SMT DEF GatewayInv, TypeOK, NoStaleReplay
<1> QED BY <1>5, <1>6, <1>7, <1>11, <1>12 DEF GatewayInv

LEMMA PollStep == GatewayInv /\ Poll => GatewayInv'
<1> SUFFICES ASSUME GatewayInv, Poll PROVE GatewayInv'
  OBVIOUS
<1> DEFINE from == IF cursor > offset THEN cursor ELSE offset
           new  == {u \in 1 .. Len(sent) : u >= from}
<1>1. /\ offset' = from /\ cursor' = Len(sent) + 1
      /\ task' = [u \in Updates |-> IF u \in new THEN "queued" ELSE task[u]]
      /\ UNCHANGED <<sent, heard, life, replies, lost, request, tries, stream, origin>>
  BY DEF Poll, apiVars, logVars
<1>2. from \in 0 .. MaxUpdates + 1 /\ from >= cursor
  BY SMT DEF GatewayInv, TypeOK
<1>3. TypeOK' /\ stream' \in Seq(Intents)
  BY <1>1, <1>2, SMT DEF GatewayInv, TypeOK
<1>4. OnlySent' /\ AnsweredIsPublished' /\ HeardIsTold' /\ SubmittedIsPublished'
  BY <1>1, SMT DEF GatewayInv, TypeOK, OnlySent, AnsweredIsPublished, HeardIsTold,
                   SubmittedIsPublished, EntriesOf
<1>5. OneRequestEach'
  <2> SUFFICES ASSUME life = 1, NEW u \in Updates
               PROVE  /\ u >= cursor' => task'[u] = "none"
                      /\ \A l \in Lives : l # 1 => request[u][l] = "none"
                      /\ task'[u] \in {"none", "queued"} => request[u][1] = "none"
                      /\ "submitted" \in replies[u] => request[u][1] = "published"
    BY <1>1 DEF OneRequestEach
  <2>1. u \in new => task[u] = "none"
    BY <1>2, SMT DEF GatewayInv, TypeOK, OneRequestEach
  <2>2. task'[u] = IF u \in new THEN "queued" ELSE task[u]
    BY <1>1
  <2>3. u >= cursor' => u \notin new /\ task[u] = "none"
    BY <1>1, SMT DEF GatewayInv, TypeOK, OnlySent
  <2> QED BY <2>1, <2>2, <2>3, Zenon DEF GatewayInv, OneRequestEach
<1>6. ConfirmedComesFirst' /\ NoStaleReplay'
  BY <1>1, <1>3, OrderIsKept, SMT DEF GatewayInv, TypeOK
<1> QED BY <1>3, <1>4, <1>5, <1>6 DEF GatewayInv

LEMMA RestartStep == GatewayInv /\ Restart => GatewayInv'
<1> SUFFICES ASSUME GatewayInv, Restart PROVE GatewayInv'
  OBVIOUS
<1> USE DEF Restart, apiVars, logVars
<1>1. life' \in Lives /\ life' # 1 /\ life' >= life
  BY SMT DEF GatewayInv, TypeOK
<1>2. TypeOK' /\ stream' \in Seq(Intents)
  <2>1. lost' \subseteq Updates
    BY DEF GatewayInv, TypeOK
  <2>2. task' \in [Updates -> {"none", "queued", "waiting", "done", "unsent"}]
    OBVIOUS
  <2>3. UNCHANGED <<sent, heard, offset, replies, request, tries, stream, origin>>
    OBVIOUS
  <2>4. cursor' \in 0 .. MaxUpdates + 1
    BY GatewayAssumption, SMT
  <2> QED BY <1>1, <2>1, <2>2, <2>3, <2>4 DEF GatewayInv, TypeOK
<1>3. OnlySent' /\ AnsweredIsPublished' /\ HeardIsTold' /\ SubmittedIsPublished'
  BY SMT DEF GatewayInv, TypeOK, OnlySent, AnsweredIsPublished, HeardIsTold,
             SubmittedIsPublished, EntriesOf
<1>4. OneRequestEach'
  BY <1>1 DEF OneRequestEach
<1>5. ConfirmedComesFirst' /\ NoStaleReplay'
  BY <1>1, OrderIsKept
<1> QED BY <1>2, <1>3, <1>4, <1>5 DEF GatewayInv

(* Everything a step of a request or a goroutine leaves to be shown, when   *)
(* the stream does not grow: the states of one request and of one task, and *)
(* what its user was told.                                                  *)
LEMMA NoEntryStep ==
  ASSUME GatewayInv,
         UNCHANGED <<sent, heard, offset, cursor, life, lost, tries, stream, origin>>,
         NEW u \in Updates, NEW l \in Lives, task[u] # "none" \/ request[u][l] # "none",
         NEW step \in {"none", "queued", "waiting", "done", "unsent"},
         NEW result \in {"none", "sent", "retry", "published", "answered", "refused"},
         NEW texts \in SUBSET {"submitted", "shown", "rejected", "usage"},
         task' = [task EXCEPT ![u] = step],
         request' = [request EXCEPT ![u][l] = result],
         replies' = [replies EXCEPT ![u] = @ \cup texts],
         result = "published" => request[u][l] = "published",
         "submitted" \in texts => request[u][l] = "published",
         life = 1 => /\ step = "none" => task[u] = "none"
                     /\ step = "queued" => task[u] = "queued" /\ result = "none"
                     /\ request[u][l] = "published" => result = "published"
                     /\ task[u] = "none" => step = "none" /\ result = "none"
                     /\ l = 1 \/ result = "none"
                     /\ "submitted" \in texts => l = 1
  PROVE  GatewayInv'
<1>1. TypeOK' /\ stream' \in Seq(Intents)
  <2>1. task' \in [Updates -> {"none", "queued", "waiting", "done", "unsent"}]
    BY SMT DEF GatewayInv, TypeOK
  <2>2. request' \in [Updates -> [Lives -> {"none", "sent", "retry", "published", "answered", "refused"}]]
    BY SMT DEF GatewayInv, TypeOK
  <2> DEFINE Texts == {"submitted", "shown", "rejected", "usage"}
  <2>4. replies \in [Updates -> SUBSET Texts] /\ texts \in SUBSET Texts
    BY DEF GatewayInv, TypeOK
  <2> HIDE DEF Texts
  <2>5. replies' \in [Updates -> SUBSET Texts]
    BY <2>4, SMT
  <2>3. replies' \in [Updates -> SUBSET {"submitted", "shown", "rejected", "usage"}]
    BY <2>5 DEF Texts
  <2> QED BY <2>1, <2>2, <2>3 DEF GatewayInv, TypeOK
<1>2. /\ \A v \in Updates : task'[v] = IF v = u THEN step ELSE task[v]
      /\ \A v \in Updates, k \in Lives :
           request'[v][k] = IF v = u /\ k = l THEN result ELSE request[v][k]
      /\ \A v \in Updates : replies'[v] = IF v = u THEN replies[v] \cup texts ELSE replies[v]
  <2>1. \A v \in Updates : task'[v] = IF v = u THEN step ELSE task[v]
    BY SMT DEF GatewayInv, TypeOK
  <2>2. \A v \in Updates, k \in Lives :
          request'[v][k] = IF v = u /\ k = l THEN result ELSE request[v][k]
    <3>1. DOMAIN request = Updates /\ \A v \in Updates : DOMAIN request[v] = Lives
      BY Zenon DEF GatewayInv, TypeOK
    <3> QED BY <3>1, Zenon
  <2>3. DOMAIN replies = Updates
    BY DEF GatewayInv, TypeOK
  <2>4. \A v \in Updates : replies'[v] = IF v = u THEN replies[v] \cup texts ELSE replies[v]
    BY <2>3, Zenon
  <2> QED BY <2>1, <2>2, <2>4
<1>3. u <= Len(sent)
  BY SMT DEF GatewayInv, OnlySent
<1>4. OnlySent'
  BY <1>2, <1>3, SMT DEF GatewayInv, OnlySent
<1>5. AnsweredIsPublished'
  BY <1>2, SMT DEF GatewayInv, AnsweredIsPublished
<1>6. HeardIsTold'
  BY <1>2, SMT DEF GatewayInv, TypeOK, HeardIsTold
<1>7. OneRequestEach'
  BY <1>2, SMT DEF GatewayInv, OneRequestEach
<1>8. SubmittedIsPublished'
  <2>1. request[u][l] = "published" => EntriesOf(u) # {}
    <3>1. EntriesOf(u) = {k \in 1 .. Len(origin) : origin[k] = u}
      BY EntriesInDomain DEF GatewayInv
    <3> QED BY <3>1, Zenon DEF GatewayInv, AnsweredIsPublished
  <2>2. \A v \in Updates : EntriesOf(v)' = EntriesOf(v)
    BY Zenon DEF EntriesOf
  <2> QED BY <1>2, <2>1, <2>2, SMT DEF GatewayInv, SubmittedIsPublished
<1>9. ConfirmedComesFirst' /\ NoStaleReplay'
  BY OrderIsKept, SMT DEF GatewayInv, TypeOK
<1> QED BY <1>1, <1>4, <1>5, <1>6, <1>7, <1>8, <1>9 DEF GatewayInv

LEMMA NothingChanges ==
  ASSUME TypeOK, NEW u \in Updates, NEW l \in Lives
  PROVE  /\ task = [task EXCEPT ![u] = task[u]]
         /\ request = [request EXCEPT ![u][l] = request[u][l]]
         /\ replies = [replies EXCEPT ![u] = @ \cup {}]
         /\ task[u] \in {"none", "queued", "waiting", "done", "unsent"}
         /\ request[u][l] \in {"none", "sent", "retry", "published", "answered", "refused"}
<1>1. task = [task EXCEPT ![u] = task[u]] /\ request = [request EXCEPT ![u][l] = request[u][l]]
  BY SMT DEF TypeOK
<1>2. replies = [replies EXCEPT ![u] = @ \cup {}]
  <2>1. replies \in [Updates -> SUBSET {"submitted", "shown", "rejected", "usage"}]
    BY DEF TypeOK
  <2>2. replies[u] \cup {} = replies[u]
    BY Zenon
  <2> QED BY <2>1, <2>2, Zenon
<1>3. /\ task[u] \in {"none", "queued", "waiting", "done", "unsent"}
      /\ request[u][l] \in {"none", "sent", "retry", "published", "answered", "refused"}
  BY SMT DEF TypeOK
<1> QED BY <1>1, <1>2, <1>3

(* A goroutine that answers: with "submitted" only when its request is      *)
(* answered.                                                                *)
LEMMA AnswerStep ==
  ASSUME GatewayInv, NEW u \in Updates, NEW text \in {"submitted", "shown", "rejected", "usage"},
         UNCHANGED <<sent, heard, offset, cursor, life, lost, request, tries, stream, origin>>,
         task[u] # "none", Answer(u, text),
         text = "submitted" => request[u][life] = "published"
  PROVE  GatewayInv'
<1>1. TypeOK /\ life \in Lives
  BY DEF GatewayInv, TypeOK
<1>2. /\ request' = [request EXCEPT ![u][life] = request[u][life]]
      /\ replies = [replies EXCEPT ![u] = @ \cup {}]
      /\ request[u][life] \in {"none", "sent", "retry", "published", "answered", "refused"}
  BY <1>1, NothingChanges
<1>3. ASSUME NEW step \in {"done", "unsent"}, NEW texts \in {{}, {text}},
             task' = [task EXCEPT ![u] = step],
             replies' = [replies EXCEPT ![u] = @ \cup texts]
      PROVE  GatewayInv'
  <2>1. texts \in SUBSET {"submitted", "shown", "rejected", "usage"}
    BY <1>3
  <2>2. "submitted" \in texts => text = "submitted"
    BY <1>3
  <2>3. step \in {"none", "queued", "waiting", "done", "unsent"}
    BY <1>3
  <2>4. step # "none" /\ step # "queued"
    BY <1>3
  <2> QED BY <1>1, <1>2, <1>3, <2>1, <2>2, <2>3, <2>4, NoEntryStep
<1>4. CASE replies' = [replies EXCEPT ![u] = @ \cup {text}] /\ task' = [task EXCEPT ![u] = "done"]
  BY <1>3, <1>4
<1>5. CASE task' = [task EXCEPT ![u] = "unsent"] /\ UNCHANGED replies
  BY <1>2, <1>3, <1>5
<1> QED BY <1>4, <1>5 DEF Answer

LEMMA HandleStep ==
  ASSUME GatewayInv, NEW u \in Updates, Handle(u)
  PROVE  GatewayInv'
<1>1. TypeOK /\ life \in Lives
  BY DEF GatewayInv, TypeOK
<1>2. CASE sent[u].name = "usage"
  BY <1>2, AnswerStep DEF Handle, logVars
<1>3. CASE sent[u].name # "usage"
  <2>1. /\ task[u] = "queued" /\ task' = [task EXCEPT ![u] = "waiting"]
        /\ request' = [request EXCEPT ![u][life] = "sent"]
        /\ UNCHANGED <<sent, heard, offset, cursor, life, lost, tries, stream, origin, replies>>
    BY <1>3 DEF Handle, logVars
  <2>2. replies' = [replies EXCEPT ![u] = @ \cup {}]
    BY <2>1, <1>1, NothingChanges
  <2>3. life = 1 => request[u][life] = "none"
    BY <2>1 DEF GatewayInv, OneRequestEach
  <2> QED BY <1>1, <2>1, <2>2, <2>3, NoEntryStep
<1> QED BY <1>2, <1>3

LEMMA RespondStep ==
  ASSUME GatewayInv, NEW u \in Updates, Respond(u) \/ GiveUp(u)
  PROVE  GatewayInv'
<1>1. UNCHANGED <<sent, heard, offset, cursor, life, lost, request, tries, stream, origin>>
  BY DEF Respond, GiveUp, apiVars, logVars
<1>2. task[u] # "none"
  BY DEF Respond, GiveUp
<1>3. \/ request[u][life] = "published" /\ Answer(u, "submitted")
      \/ Answer(u, "shown") \/ Answer(u, "rejected")
  BY DEF Respond, GiveUp
<1> QED BY <1>1, <1>2, <1>3, AnswerStep

(* A request of the first life that is under way is that life's, and the    *)
(* goroutine has taken its message up.                                      *)
LEMMA UnderWay ==
  ASSUME GatewayInv, NEW u \in Updates, NEW l \in Lives, request[u][l] \in {"sent", "retry"}
  PROVE  life = 1 => /\ l = 1 /\ task[u] \notin {"none", "queued"}
                     /\ "submitted" \notin replies[u]
BY SMT DEF GatewayInv, OneRequestEach

LEMMA SettleStep ==
  ASSUME GatewayInv, NEW u \in Updates, NEW l \in Lives, Proxy(u, l) \/ Refuse(u, l)
  PROVE  GatewayInv'
<1>1. TypeOK
  BY DEF GatewayInv
<1>2. PICK result \in {"answered", "refused"} : request' = [request EXCEPT ![u][l] = result]
  BY DEF Proxy, Refuse
<1>3. /\ request[u][l] \in {"sent", "retry"}
      /\ UNCHANGED <<sent, heard, offset, cursor, life, lost, task, replies, tries, stream, origin>>
  BY SMT DEF Proxy, Refuse, botVars, logVars
<1>4. /\ task' = [task EXCEPT ![u] = task[u]] /\ replies' = [replies EXCEPT ![u] = @ \cup {}]
      /\ task[u] \in {"none", "queued", "waiting", "done", "unsent"}
  BY <1>1, <1>3, NothingChanges
<1>5. request[u][l] # "none" /\ request[u][l] # "published"
  BY <1>3
<1>6. life = 1 => l = 1 /\ task[u] # "none" /\ task[u] # "queued"
  BY <1>3, UnderWay
<1>7. result \in {"none", "sent", "retry", "published", "answered", "refused"}
        /\ result # "published"
  BY <1>2
<1>8. UNCHANGED <<sent, heard, offset, cursor, life, lost, tries, stream, origin>>
  BY <1>3
<1>9. life = 1 => /\ task[u] = "none" => task[u] = "none"
                  /\ task[u] = "queued" => task[u] = "queued" /\ result = "none"
                  /\ request[u][l] = "published" => result = "published"
                  /\ task[u] = "none" => task[u] = "none" /\ result = "none"
                  /\ l = 1 \/ result = "none"
                  /\ "submitted" \in {} => l = 1
  BY <1>5, <1>6
<1>10. {} \in SUBSET {"submitted", "shown", "rejected", "usage"} /\ "submitted" \notin {}
  OBVIOUS
<1> QED BY <1>2, <1>4, <1>5, <1>7, <1>8, <1>9, <1>10, NoEntryStep

LEMMA PublishStep ==
  ASSUME GatewayInv, NEW u \in Updates, NEW l \in Lives, Publish(u, l)
  PROVE  GatewayInv'
<1> DEFINE n == Len(origin) + 1
<1>1. PICK result \in {"published", "retry", "refused"} :
         request' = [request EXCEPT ![u][l] = result]
  BY DEF Publish
<1>2. /\ request[u][l] \in {"sent", "retry"}
      /\ stream' = Append(stream, IntentOf(sent[u])) /\ origin' = Append(origin, u)
      /\ UNCHANGED <<sent, heard, offset, cursor, life, lost, task, replies>>
  BY DEF Publish, botVars
<1>3. /\ TypeOK /\ sent \in Seq(Command) /\ origin \in Seq(Updates) /\ stream \in Seq(Intents)
      /\ Len(origin) = Len(stream)
  BY DEF GatewayInv, TypeOK
<1>4. u <= Len(sent) /\ Len(sent) \in Nat /\ u \in Nat /\ n \in Nat
  BY <1>2, <1>3, Naturals, SMT DEF GatewayInv, OnlySent
<1>5. sent[u] \in Command
  BY <1>3, <1>4, SMT
<1>6. IntentOf(sent[u]) \in Intents
  BY <1>5 DEF Intents
<1>7. /\ origin' \in Seq(Updates) /\ Len(origin') = n /\ origin'[n] = u
      /\ \A k \in 1 .. Len(origin) : origin'[k] = origin[k]
  BY <1>2, <1>3, SMT
<1>8. /\ stream' \in Seq(Intents) /\ Len(stream') = n /\ stream'[n] = IntentOf(sent[u])
      /\ \A k \in 1 .. Len(stream) : stream'[k] = stream[k]
  BY <1>2, <1>3, <1>6, SMT
<1>9. /\ \A v \in Updates, k \in Lives :
           request'[v][k] = IF v = u /\ k = l THEN result ELSE request[v][k]
      /\ request' \in [Updates -> [Lives -> {"none", "sent", "retry", "published",
                                             "answered", "refused"}]]
  <2> DEFINE Results == {"none", "sent", "retry", "published", "answered", "refused"}
  <2>1. request \in [Updates -> [Lives -> Results]] /\ result \in Results
    BY <1>3 DEF TypeOK
  <2> HIDE DEF Results
  <2>2. /\ \A v \in Updates, k \in Lives :
             request'[v][k] = IF v = u /\ k = l THEN result ELSE request[v][k]
        /\ request' \in [Updates -> [Lives -> Results]]
    BY <1>1, <2>1, SMT
  <2> QED BY <2>2 DEF Results
<1>10. tries' \in [Updates -> [Lives -> 0 .. MaxRetries]]
  <2>1. \/ UNCHANGED tries
        \/ tries[u][l] < MaxRetries /\ tries' = [tries EXCEPT ![u][l] = @ + 1]
    BY DEF Publish
  <2>2. tries \in [Updates -> [Lives -> 0 .. MaxRetries]]
    BY <1>3 DEF TypeOK
  <2> DEFINE m == tries[u][l] + 1
  <2>3. tries[u][l] < MaxRetries => m \in 0 .. MaxRetries
    BY <2>2, SMT
  <2>4. \/ UNCHANGED tries
        \/ m \in 0 .. MaxRetries /\ tries' = [tries EXCEPT ![u][l] = m]
    BY <2>1, <2>3
  <2> HIDE DEF m
  <2>5. CASE m \in 0 .. MaxRetries /\ tries' = [tries EXCEPT ![u][l] = m]
    <3> DEFINE Counts == 0 .. MaxRetries
    <3>1. tries \in [Updates -> [Lives -> Counts]] /\ m \in Counts
      BY <2>2, <2>5
    <3> HIDE DEF Counts
    <3>2. tries' \in [Updates -> [Lives -> Counts]]
      BY <3>1, <2>5, SMT
    <3> QED BY <3>2 DEF Counts
  <2> QED BY <2>2, <2>4, <2>5
<1> HIDE DEF n
<1>11. TypeOK'
  <2>1. \A k \in 1 .. n : stream'[k] = IntentOf(sent[origin'[k]])
    <3> SUFFICES ASSUME NEW k \in 1 .. n PROVE stream'[k] = IntentOf(sent[origin'[k]])
      OBVIOUS
    <3>1. CASE k = n
      BY <3>1, <1>7, <1>8
    <3>2. CASE k \in 1 .. Len(origin)
      <4>1. stream[k] = IntentOf(sent[origin[k]])
        <5>1. k \in DOMAIN stream
          BY <3>2, <1>3, SMT
        <5> QED BY <5>1, <1>3 DEF TypeOK
      <4> QED BY <3>2, <4>1, <1>3, <1>7, <1>8
    <3> QED BY <3>1, <3>2, <1>3, SMT DEF n
  <2>2. DOMAIN stream' = 1 .. n
    BY <1>8, SMT
  <2> QED BY <1>2, <1>3, <1>7, <1>8, <1>9, <1>10, <2>1, <2>2, Zenon DEF GatewayInv, TypeOK
<1>12. /\ \A k \in 1 .. n : k \in 1 .. Len(origin) \/ k = n
       /\ n \in 1 .. n /\ \A k \in 1 .. Len(origin) : k \in 1 .. n
  <2>1. Len(origin) \in Nat
    BY <1>3, Naturals
  <2> QED BY <2>1, SMT DEF n
<1>13. OnlySent'
  <2>1. \A v \in Updates : task'[v] # "none" => v <= Len(sent')
    BY <1>2 DEF GatewayInv, OnlySent
  <2>2. \A v \in Updates, k \in Lives : request'[v][k] # "none" => v <= Len(sent')
    <3> SUFFICES ASSUME NEW v \in Updates, NEW k \in Lives, request'[v][k] # "none"
                 PROVE  v <= Len(sent')
      OBVIOUS
    <3>1. v = u \/ request[v][k] # "none"
      BY <1>9
    <3> QED BY <3>1, <1>2, <1>4 DEF GatewayInv, OnlySent
  <2>3. \A k \in 1 .. n : origin'[k] <= Len(sent')
    BY <1>2, <1>4, <1>7, <1>12, SMT DEF GatewayInv, OnlySent
  <2> QED BY <1>7, <2>1, <2>2, <2>3 DEF OnlySent
<1>14. AnsweredIsPublished'
  <2>1. \A v \in Updates, k \in Lives :
          request[v][k] = "published" => \E j \in 1 .. n : origin'[j] = v
    BY <1>7, <1>12, Zenon DEF GatewayInv, AnsweredIsPublished
  <2>2. \A v \in Updates, k \in Lives :
          request'[v][k] = "published" => v = u \/ request[v][k] = "published"
    BY <1>9
  <2>3. \E j \in 1 .. n : origin'[j] = u
    BY <1>7, <1>12
  <2> QED BY <1>7, <2>1, <2>2, <2>3, Zenon DEF AnsweredIsPublished
<1>15. HeardIsTold'
  BY <1>2 DEF GatewayInv, HeardIsTold
<1>16. OneRequestEach'
  <2>1. life = 1 => /\ l = 1 /\ task[u] \notin {"none", "queued"}
                    /\ "submitted" \notin replies[u]
    BY <1>2, UnderWay
  <2>2. 1 \in Lives
    BY SMT
  <2> SUFFICES ASSUME life = 1, NEW v \in Updates
               PROVE  /\ v >= cursor => task[v] = "none"
                      /\ \A k \in Lives : k # 1 => request'[v][k] = "none"
                      /\ task[v] \in {"none", "queued"} => request'[v][1] = "none"
                      /\ "submitted" \in replies[v] => request'[v][1] = "published"
    BY <1>2 DEF OneRequestEach
  <2>3. /\ v >= cursor => task[v] = "none"
        /\ \A k \in Lives : k # 1 => request[v][k] = "none"
        /\ task[v] \in {"none", "queued"} => request[v][1] = "none"
        /\ "submitted" \in replies[v] => request[v][1] = "published"
    BY DEF GatewayInv, OneRequestEach
  <2>4. CASE v = u
    BY <1>9, <2>1, <2>2, <2>3, <2>4
  <2>5. CASE v # u
    BY <1>9, <2>2, <2>3, <2>5
  <2> QED BY <2>4, <2>5
<1>17. \A v \in Updates : EntriesOf(v)' = IF v = u THEN EntriesOf(v) \cup {n} ELSE EntriesOf(v)
  <2> SUFFICES ASSUME NEW v \in Updates
               PROVE  EntriesOf(v)' = IF v = u THEN EntriesOf(v) \cup {n} ELSE EntriesOf(v)
    OBVIOUS
  <2>1. EntriesOf(v) = {k \in 1 .. Len(origin) : origin[k] = v}
    BY <1>3, EntriesInDomain
  <2>2. EntriesOf(v)' = {k \in 1 .. n : origin'[k] = v}
    <3>1. DOMAIN origin' = 1 .. n
      BY <1>7, SMT
    <3> QED BY <3>1 DEF EntriesOf
  <2> QED BY <2>1, <2>2, <1>7, <1>12, SMT
<1>18. \A v \in Updates : \A k \in EntriesOf(v) : k \in Nat /\ k < n
  <2>1. \A v \in Updates : EntriesOf(v) = {k \in 1 .. Len(origin) : origin[k] = v}
    BY <1>3, EntriesInDomain
  <2> QED BY <2>1, <1>3, SMT DEF n
<1>19. SubmittedIsPublished'
  BY <1>2, <1>17, SMT DEF GatewayInv, SubmittedIsPublished
<1>20. \A v \in Updates : heard[v] \subseteq Updates
  <2>1. heard \in [Updates -> SUBSET Updates]
    BY <1>3 DEF TypeOK
  <2> QED BY <2>1, Zenon
<1>21. \A v \in Updates : \A w \in heard[v] : EntriesOf(w) # {}
  BY <1>20, Zenon DEF GatewayInv, HeardIsTold, SubmittedIsPublished
<1>22. ConfirmedComesFirst'
  <2> SUFFICES ASSUME NEW v \in Updates, NEW w \in heard[v], NEW k \in EntriesOf(v)'
               PROVE  \E j \in EntriesOf(w)' : j < k
    BY <1>2 DEF ConfirmedComesFirst
  <2>1. w \in Updates /\ EntriesOf(w) \subseteq EntriesOf(w)'
    BY <1>17, <1>20, Zenon
  <2>2. CASE k \in EntriesOf(v)
    BY <2>1, <2>2, Zenon DEF GatewayInv, ConfirmedComesFirst
  <2>3. CASE k = n
    BY <2>1, <2>3, <1>18, <1>21, Zenon
  <2> QED BY <2>2, <2>3, <1>17, Zenon
<1>23. NoStaleReplay'
  <2> SUFFICES ASSUME life = 1, NEW v \in Updates, NEW w \in heard[v],
                      NEW j \in EntriesOf(w)', NEW k \in EntriesOf(v)'
               PROVE  j < k
    BY <1>2 DEF NoStaleReplay
  <2>1. w \in Updates /\ "submitted" \in replies[w]
    BY <1>20, Zenon DEF GatewayInv, HeardIsTold
  <2>2. w # u
    BY <1>2, <2>1, UnderWay
  <2>3. j \in EntriesOf(w)
    BY <1>17, <2>1, <2>2, Zenon
  <2>4. CASE k \in EntriesOf(v)
    BY <2>3, <2>4, Zenon DEF GatewayInv, NoStaleReplay
  <2>5. CASE k = n
    BY <2>1, <2>3, <2>5, <1>18
  <2> QED BY <2>4, <2>5, <1>17, Zenon
<1> QED BY <1>8, <1>11, <1>13, <1>14, <1>15, <1>16, <1>19, <1>22, <1>23 DEF GatewayInv

LEMMA NextGateway == GatewayInv /\ [Next]_vars => GatewayInv'
<1> SUFFICES ASSUME GatewayInv, [Next]_vars PROVE GatewayInv'
  OBVIOUS
<1>1. CASE Send
  BY <1>1, SendStep
<1>2. CASE Poll
  BY <1>2, PollStep
<1>3. CASE Restart
  BY <1>3, RestartStep
<1>4. ASSUME NEW u \in Updates, Handle(u) PROVE GatewayInv'
  BY <1>4, HandleStep
<1>5. ASSUME NEW u \in Updates, Respond(u) \/ GiveUp(u) PROVE GatewayInv'
  BY <1>5, RespondStep
<1>6. ASSUME NEW u \in Updates, NEW l \in Lives, Proxy(u, l) \/ Refuse(u, l) PROVE GatewayInv'
  BY <1>6, SettleStep
<1>7. ASSUME NEW u \in Updates, NEW l \in Lives, Publish(u, l) PROVE GatewayInv'
  BY <1>7, PublishStep
<1>8. CASE UNCHANGED vars
  <2> USE <1>8 DEF vars, botVars, apiVars, logVars, GatewayInv
  <2>1. TypeOK' /\ stream' \in Seq(Intents)
    BY DEF TypeOK
  <2>2. OnlySent' /\ AnsweredIsPublished'
    BY SMT DEF OnlySent, AnsweredIsPublished
  <2>3. HeardIsTold' /\ OneRequestEach'
    BY SMT DEF HeardIsTold, OneRequestEach
  <2>4. \A u : EntriesOf(u)' = EntriesOf(u)
    BY DEF EntriesOf
  <2>5. SubmittedIsPublished'
    BY <2>4, SMT DEF SubmittedIsPublished
  <2>6. ConfirmedComesFirst' /\ NoStaleReplay'
    BY OrderIsKept, SMT DEF TypeOK
  <2> QED BY <2>1, <2>2, <2>3, <2>5, <2>6
<1> QED BY <1>1, <1>2, <1>3, <1>4, <1>5, <1>6, <1>7, <1>8 DEF Next, BotNext, ApiNext

LEMMA GatewayHolds == Spec => []GatewayInv
BY InitGateway, NextGateway, PTL DEF Spec

(* Every reachable state of bot, API and stream has the types of TypeOK,    *)
(* and an entry is the intent of the message it came from.                  *)
THEOREM EntriesAreIntents == Spec => []TypeOK
<1>1. GatewayInv => TypeOK
  BY DEF GatewayInv
<1> QED BY <1>1, GatewayHolds, PTL

(* createTrade and HandleUpdate: what the bot calls submitted is on the     *)
(* stream.                                                                  *)
THEOREM SubmittedMeansPublished == Spec => []SubmittedIsPublished
<1>1. GatewayInv => SubmittedIsPublished
  BY DEF GatewayInv
<1> QED BY <1>1, GatewayHolds, PTL

(* HandleUpdate and Publish: a confirmed command precedes every entry of a  *)
(* command its user sent after seeing the confirmation.                     *)
THEOREM ConfirmedKeepTheirOrder == Spec => []ConfirmedComesFirst
<1>1. GatewayInv => ConfirmedComesFirst
  BY DEF GatewayInv
<1> QED BY <1>1, GatewayHolds, PTL

(* bot/cmd/main.go: until the bot is restarted, no entry of a confirmed     *)
(* command appears behind one of a later command.                           *)
THEOREM NothingIsReplayed == Spec => []NoStaleReplay
<1>1. GatewayInv => NoStaleReplay
  BY DEF GatewayInv
<1> QED BY <1>1, GatewayHolds, PTL

-------------------------------------------------------------------------------
(* In one life of the bot the library delivers a message once, so it has    *)
(* one request, and none in a life to come.                                 *)
OneRequestPerLife ==
  \A u \in Updates :
    /\ u >= cursor => task[u] = "none" /\ request[u][life] = "none"
    /\ task[u] = "queued" => request[u][life] = "none"
    /\ \A l \in Lives : l > life => request[u][l] = "none"

(* Try t of the request is over, whether XADD took effect with it or not.   *)
Tried(u, l, t) ==
  t < tries[u][l] \/ (t = tries[u][l] /\ request[u][l] \in {"published", "answered", "refused"})

(* Every entry was appended by a try of its own: n entries, entry k of them *)
(* by try number[k] in life lives[k].                                       *)
OwnTry(n, lives, number) ==
  /\ \A k \in 1 .. n : Tried(origin[k], lives[k], number[k])
  /\ \A j, k \in 1 .. n :
       j # k => <<origin[j], lives[j], number[j]>> # <<origin[k], lives[k], number[k]>>

EntriesAreTries ==
  \E n \in Nat : /\ n = Len(origin)
                 /\ \E lives \in [1 .. n -> Lives], number \in [1 .. n -> 0 .. MaxRetries] :
                      OwnTry(n, lives, number)

LEMMA OneRequestStep ==
  TypeOK /\ OnlySent /\ OneRequestPerLife /\ [Next]_vars => OneRequestPerLife'
<1> SUFFICES ASSUME TypeOK, OnlySent, OneRequestPerLife, [Next]_vars PROVE OneRequestPerLife'
  OBVIOUS
<1>1. /\ life \in Nat /\ cursor \in Nat /\ Len(sent) \in Nat /\ life \in Lives
      /\ DOMAIN task = Updates /\ DOMAIN request = Updates
      /\ \A u \in Updates : DOMAIN request[u] = Lives
      /\ \A u \in Updates : u \in Nat
  BY Naturals DEF TypeOK
<1>2. CASE UNCHANGED vars \/ Send
  BY <1>2 DEF vars, botVars, apiVars, Send, OneRequestPerLife
<1>3. CASE Poll
  <2>1. PICK from \in Nat : /\ from >= cursor /\ cursor' = Len(sent) + 1
                            /\ task' = [u \in Updates |->
                                 IF u \in {v \in 1 .. Len(sent) : v >= from} THEN "queued"
                                                                            ELSE task[u]]
    <3>1. (IF cursor > offset THEN cursor ELSE offset) \in Nat
      BY DEF TypeOK
    <3>2. (IF cursor > offset THEN cursor ELSE offset) >= cursor
      BY DEF TypeOK
    <3> QED BY <1>3, <3>1, <3>2 DEF Poll
  <2>2. UNCHANGED <<life, request>>
    BY <1>3 DEF Poll, apiVars
  <2> SUFFICES ASSUME NEW u \in Updates
               PROVE  /\ u >= cursor' => task'[u] = "none" /\ request[u][life] = "none"
                      /\ task'[u] = "queued" => request[u][life] = "none"
                      /\ \A l \in Lives : l > life => request[u][l] = "none"
    BY <2>2 DEF OneRequestPerLife
  <2>3. task'[u] = IF u \in 1 .. Len(sent) /\ u >= from THEN "queued" ELSE task[u]
    BY <2>1
  <2>4. u >= cursor' => task[u] = "none" /\ request[u][life] = "none" /\ u \notin 1 .. Len(sent)
    BY <1>1, <2>1 DEF OnlySent
  <2>5. u >= from => request[u][life] = "none"
    BY <1>1, <2>1 DEF OneRequestPerLife
  <2> QED BY <2>3, <2>4, <2>5 DEF OneRequestPerLife
<1>4. CASE Restart
  <2>1. /\ life' = life + 1 /\ life' \in Lives /\ UNCHANGED request
        /\ task' = [u \in Updates |-> "none"]
    BY <1>1, <1>4 DEF Restart, apiVars
  <2>2. \A u \in Updates : request[u][life'] = "none"
    BY <1>1, <2>1 DEF OneRequestPerLife
  <2>3. \A u \in Updates, l \in Lives : l > life' => request[u][l] = "none"
    BY <1>1, <2>1 DEF OneRequestPerLife
  <2> QED BY <2>1, <2>2, <2>3 DEF OneRequestPerLife
<1>5. ASSUME NEW u \in Updates, Handle(u) \/ Respond(u) \/ GiveUp(u) PROVE OneRequestPerLife'
  <2>1. /\ task[u] # "none" /\ UNCHANGED <<cursor, life>>
        /\ \/ UNCHANGED request
           \/ request' = [request EXCEPT ![u][life] = "sent"]
        /\ \E step \in {"waiting", "done", "unsent"} : task' = [task EXCEPT ![u] = step]
    BY <1>5, Zenon DEF Handle, Respond, GiveUp, Answer, apiVars
  <2>2. u < cursor
    BY <1>1, <2>1 DEF OneRequestPerLife
  <2>3. /\ task'[u] \notin {"none", "queued"}
        /\ \A v \in Updates : v # u => task'[v] = task[v] /\ request'[v] = request[v]
        /\ \A l \in Lives : l # life => request'[u][l] = request[u][l]
    BY <1>1, <2>1
  <2> QED BY <1>1, <2>1, <2>2, <2>3 DEF OneRequestPerLife
<1>6. ASSUME NEW u \in Updates, NEW l \in Lives, Proxy(u, l) \/ Refuse(u, l) \/ Publish(u, l)
      PROVE  OneRequestPerLife'
  <2>1. /\ request[u][l] # "none" /\ UNCHANGED <<cursor, life, task>>
        /\ \E result : request' = [request EXCEPT ![u][l] = result]
    BY <1>6, Zenon DEF Proxy, Refuse, Publish, botVars
  <2>2. \A v \in Updates, k \in Lives : v # u \/ k # l => request'[v][k] = request[v][k]
    BY <1>1, <2>1
  <2>3. l <= life /\ (l = life => u < cursor /\ task[u] # "queued")
    BY <1>1, <2>1 DEF OneRequestPerLife
  <2> QED BY <1>1, <2>1, <2>2, <2>3 DEF OneRequestPerLife
<1> QED BY <1>2, <1>3, <1>4, <1>5, <1>6 DEF Next, BotNext, ApiNext

(* A try that is over stays so: no request is sent a second time. *)
LEMMA TriedStays ==
  ASSUME TypeOK, OneRequestPerLife, [Next]_vars,
         NEW u \in Updates, NEW l \in Lives, NEW t \in 0 .. MaxRetries, Tried(u, l, t)
  PROVE  Tried(u, l, t)'
<1>1. /\ DOMAIN request = Updates /\ DOMAIN tries = Updates
      /\ \A v \in Updates : DOMAIN request[v] = Lives /\ DOMAIN tries[v] = Lives
      /\ \A v \in Updates, k \in Lives : tries[v][k] \in Nat
  <2>1. /\ request \in [Updates -> [Lives -> {"none", "sent", "retry", "published", "answered",
                                               "refused"}]]
        /\ tries \in [Updates -> [Lives -> 0 .. MaxRetries]]
    BY DEF TypeOK
  <2>2. \A v \in Updates : tries[v] \in [Lives -> 0 .. MaxRetries]
    BY <2>1
  <2>3. \A v \in Updates, k \in Lives : tries[v][k] \in 0 .. MaxRetries
    BY <2>2
  <2> QED BY <2>1, <2>2, <2>3
<1>2. CASE UNCHANGED <<request, tries>>
  BY <1>2 DEF Tried
<1>3. ASSUME NEW v \in Updates, Handle(v) PROVE Tried(u, l, t)'
  <2>1. CASE request' = [request EXCEPT ![v][life] = "sent"] /\ UNCHANGED tries
    <3>1. request[v][life] = "none"
      BY <1>3 DEF Handle, OneRequestPerLife
    <3>2. life \in Lives /\ t \in Nat /\ tries[v][life] = tries'[v][life]
      BY <2>1 DEF TypeOK
    <3>3. CASE v = u /\ l = life
      <4>1. t < tries[u][l]
        BY <3>1, <3>3 DEF Tried
      <4> QED BY <2>1, <4>1 DEF Tried
    <3>4. CASE ~(v = u /\ l = life)
      <4>1. request'[u][l] = request[u][l]
        BY <1>1, <2>1, <3>4
      <4> QED BY <2>1, <4>1 DEF Tried
    <3> QED BY <3>3, <3>4
  <2>2. UNCHANGED tries /\ (UNCHANGED request \/ request' = [request EXCEPT ![v][life] = "sent"])
    BY <1>3 DEF Handle
  <2> QED BY <1>2, <2>1, <2>2
<1>4. ASSUME NEW v \in Updates, NEW k \in Lives, Proxy(v, k) \/ Refuse(v, k) \/ Publish(v, k)
      PROVE  Tried(u, l, t)'
  <2>1. /\ request[v][k] \in {"sent", "retry"}
        /\ \/ /\ \E result \in {"published", "answered", "refused"} :
                   request' = [request EXCEPT ![v][k] = result]
              /\ UNCHANGED tries
           \/ /\ request' = [request EXCEPT ![v][k] = "retry"]
              /\ tries' = [tries EXCEPT ![v][k] = @ + 1]
    BY <1>4, Zenon DEF Proxy, Refuse, Publish
  <2>2. CASE v = u /\ k = l
    <3>1. t < tries[u][l]
      BY <2>1, <2>2 DEF Tried
    <3>2. tries'[u][l] \in Nat /\ tries'[u][l] >= tries[u][l] /\ tries[u][l] \in Nat
      BY <1>1, <2>1, <2>2
    <3> QED BY <3>1, <3>2 DEF Tried
  <2>3. CASE ~(v = u /\ k = l)
    <3>1. request'[u][l] = request[u][l] /\ tries'[u][l] = tries[u][l]
      BY <1>1, <2>1, <2>3
    <3> QED BY <3>1 DEF Tried
  <2> QED BY <2>2, <2>3
<1> QED BY <1>2, <1>3, <1>4
        DEF Next, vars, botVars, apiVars, BotNext, ApiNext, Send, Poll, Restart, Respond, GiveUp

LEMMA TriesStep ==
  TypeOK /\ OneRequestPerLife /\ EntriesAreTries /\ [Next]_vars => EntriesAreTries'
<1> SUFFICES ASSUME TypeOK, OneRequestPerLife, EntriesAreTries, [Next]_vars
             PROVE  EntriesAreTries'
  OBVIOUS
<1>0. PICK n \in Nat :
        /\ n = Len(origin)
        /\ \E lives \in [1 .. n -> Lives], number \in [1 .. n -> 0 .. MaxRetries] :
             OwnTry(n, lives, number)
  BY DEF EntriesAreTries
<1>1. PICK lives \in [1 .. n -> Lives], number \in [1 .. n -> 0 .. MaxRetries] :
        OwnTry(n, lives, number)
  BY <1>0
<1>2. origin \in Seq(Updates)
  BY DEF TypeOK
<1>3. ASSUME NEW k \in 1 .. n, origin'[k] = origin[k]
      PROVE  Tried(origin[k], lives[k], number[k])'
  <2>1. origin[k] \in Updates /\ lives[k] \in Lives /\ number[k] \in 0 .. MaxRetries
    <3>1. origin[k] \in Updates
      BY <1>0, Naturals
    <3>2. lives[k] \in Lives /\ number[k] \in 0 .. MaxRetries
      OBVIOUS
    <3> QED BY <3>1, <3>2
  <2>2. PICK u \in Updates, l \in Lives, t \in 0 .. MaxRetries :
          u = origin[k] /\ l = lives[k] /\ t = number[k]
    BY <2>1
  <2>3. Tried(u, l, t)
    BY <1>1, <2>2 DEF OwnTry
  <2>4. Tried(u, l, t)'
    BY <2>3, TriedStays
  <2> QED BY <1>3, <2>2, <2>4 DEF Tried
<1>4. CASE UNCHANGED origin
  <2>1. \A k \in 1 .. n : Tried(origin[k], lives[k], number[k])'
    BY <1>3, <1>4
  <2>2. OwnTry(n, lives, number)'
    BY <1>1, <1>4, <2>1, Zenon DEF OwnTry
  <2>3. n = Len(origin')
    BY <1>0, <1>4
  <2> QED BY <2>2, <2>3, Zenon DEF EntriesAreTries
<1>5. ASSUME NEW u \in Updates, NEW l \in Lives, Publish(u, l) PROVE EntriesAreTries'
  <2> PICK t : t = tries[u][l]
    OBVIOUS
  <2>1. /\ t \in 0 .. MaxRetries /\ request[u][l] \in {"sent", "retry"}
        /\ origin' = Append(origin, u)
    <3>1. tries \in [Updates -> [Lives -> 0 .. MaxRetries]]
      BY DEF TypeOK
    <3>2. tries[u] \in [Lives -> 0 .. MaxRetries]
      BY <3>1
    <3> QED BY <1>5, <3>2 DEF Publish
  <2>2. /\ Len(origin') = n + 1 /\ origin'[n + 1] = u
        /\ \A k \in 1 .. n : origin'[k] = origin[k]
    BY <1>0, <1>2, <2>1
  <2> DEFINE newLives  == [k \in 1 .. n + 1 |-> IF k = n + 1 THEN l ELSE lives[k]]
             newNumber == [k \in 1 .. n + 1 |-> IF k = n + 1 THEN t ELSE number[k]]
  <2>3. /\ newLives \in [1 .. n + 1 -> Lives] /\ newNumber \in [1 .. n + 1 -> 0 .. MaxRetries]
        /\ newLives[n + 1] = l /\ newNumber[n + 1] = t
        /\ \A k \in 1 .. n : newLives[k] = lives[k] /\ newNumber[k] = number[k]
    BY <2>1
  <2> HIDE DEF newLives, newNumber
  <2>4. Tried(u, l, t)'
    <3>1. /\ tries'[u][l] \in Nat /\ t \in Nat
          /\ \/ tries'[u][l] = t /\ request'[u][l] \in {"published", "refused"}
             \/ tries'[u][l] = t + 1
      <4>1. /\ request \in [Updates -> [Lives -> {"none", "sent", "retry", "published", "answered",
                                                   "refused"}]]
            /\ tries \in [Updates -> [Lives -> 0 .. MaxRetries]]
        BY DEF TypeOK
      <4>2. /\ DOMAIN request = Updates /\ DOMAIN request[u] = Lives
            /\ DOMAIN tries = Updates /\ DOMAIN tries[u] = Lives
        BY <4>1
      <4>3. \/ tries'[u][l] = t /\ request'[u][l] \in {"published", "refused"}
            \/ tries'[u][l] = t + 1
        BY <1>5, <4>2 DEF Publish
      <4> QED BY <2>1, <4>3
    <3> QED BY <3>1 DEF Tried
  <2>5. ~Tried(u, l, t)
    BY <2>1 DEF Tried
  <2>6. \A k \in 1 .. n + 1 : Tried(origin[k], newLives[k], newNumber[k])'
    <3> SUFFICES ASSUME NEW k \in 1 .. n + 1
                 PROVE Tried(origin[k], newLives[k], newNumber[k])'
      OBVIOUS
    <3>1. CASE k = n + 1
      BY <2>2, <2>3, <2>4, <3>1 DEF Tried
    <3>2. CASE k # n + 1
      <4>1. k \in 1 .. n
        BY <3>2
      <4>2. Tried(origin[k], lives[k], number[k])'
        BY <1>3, <2>2, <4>1
      <4> QED BY <2>3, <4>1, <4>2 DEF Tried
    <3> QED BY <3>1, <3>2
  <2>7. ASSUME NEW k \in 1 .. n
        PROVE  <<origin[k], lives[k], number[k]>> # <<u, l, t>>
    <3>1. Tried(origin[k], lives[k], number[k])
      BY <1>1 DEF OwnTry
    <3> QED BY <2>5, <3>1
  <2>8. \A j, k \in 1 .. n + 1 : j # k =>
          <<origin'[j], newLives[j], newNumber[j]>> # <<origin'[k], newLives[k], newNumber[k]>>
    <3> SUFFICES ASSUME NEW j \in 1 .. n + 1, NEW k \in 1 .. n + 1, j # k
                 PROVE  <<origin'[j], newLives[j], newNumber[j]>>
                          # <<origin'[k], newLives[k], newNumber[k]>>
      OBVIOUS
    <3>1. CASE j \in 1 .. n /\ k \in 1 .. n
      BY <1>1, <2>2, <2>3, <3>1 DEF OwnTry
    <3>2. CASE j \in 1 .. n /\ k = n + 1
      BY <2>2, <2>3, <2>7, <3>2
    <3>3. CASE j = n + 1 /\ k \in 1 .. n
      BY <2>2, <2>3, <2>7, <3>3
    <3>4. /\ j \in 1 .. n \/ j = n + 1
          /\ k \in 1 .. n \/ k = n + 1
      OBVIOUS
    <3> QED BY <3>1, <3>2, <3>3, <3>4, Zenon
  <2>9. OwnTry(n + 1, newLives, newNumber)'
    BY <2>6, <2>8 DEF OwnTry
  <2>10. \E ls \in [1 .. n + 1 -> Lives], ns \in [1 .. n + 1 -> 0 .. MaxRetries] :
           OwnTry(n + 1, ls, ns)'
    BY <2>3, <2>9, Zenon
  <2>11. n + 1 \in Nat /\ n + 1 = Len(origin')
    BY <2>2
  <2> QED BY <2>10, <2>11, Zenon DEF EntriesAreTries
<1> QED BY <1>4, <1>5
        DEF Next, vars, logVars, BotNext, ApiNext, Send, Poll, Restart, Handle, Respond, GiveUp,
            Proxy, Refuse

(* Distinct tries are at most as many as there are messages, lives and      *)
(* tries of one request.                                                    *)
LEMMA TriesAreFew ==
  ASSUME TypeOK, EntriesAreTries
  PROVE  Len(origin) <= MaxUpdates * (MaxLives * (MaxRetries + 1))
<1>0. PICK n \in Nat :
        /\ n = Len(origin)
        /\ \E lives \in [1 .. n -> Lives], number \in [1 .. n -> 0 .. MaxRetries] :
             OwnTry(n, lives, number)
  BY DEF EntriesAreTries
<1>1. PICK lives \in [1 .. n -> Lives], number \in [1 .. n -> 0 .. MaxRetries] :
        OwnTry(n, lives, number)
  BY <1>0
<1> DEFINE T == Updates \X (Lives \X (0 .. MaxRetries))
           f == [k \in 1 .. n |-> <<origin[k], <<lives[k], number[k]>>>>]
<1>2. f \in [1 .. n -> T]
  BY <1>0, Naturals
<1>3. ASSUME NEW j \in 1 .. n, NEW k \in 1 .. n, f[j] = f[k] PROVE j = k
  BY <1>1, <1>3 DEF OwnTry
<1>4. IsFiniteSet(Updates) /\ Cardinality(Updates) = MaxUpdates
  <2>1. 1 \in Int /\ MaxUpdates \in Int
    BY GatewayAssumption
  <2>2. /\ IsFiniteSet(1 .. MaxUpdates)
        /\ Cardinality(1 .. MaxUpdates) = IF 1 > MaxUpdates THEN 0 ELSE MaxUpdates - 1 + 1
    BY <2>1, FS_Interval, Zenon
  <2> QED BY <2>2, GatewayAssumption
<1>5. IsFiniteSet(Lives) /\ Cardinality(Lives) = MaxLives
  <2>1. 1 \in Int /\ MaxLives \in Int
    BY GatewayAssumption
  <2>2. /\ IsFiniteSet(1 .. MaxLives)
        /\ Cardinality(1 .. MaxLives) = IF 1 > MaxLives THEN 0 ELSE MaxLives - 1 + 1
    BY <2>1, FS_Interval, Zenon
  <2> QED BY <2>2, GatewayAssumption
<1>6. IsFiniteSet(0 .. MaxRetries) /\ Cardinality(0 .. MaxRetries) = MaxRetries + 1
  <2>1. 0 \in Int /\ MaxRetries \in Int
    BY GatewayAssumption
  <2>2. /\ IsFiniteSet(0 .. MaxRetries)
        /\ Cardinality(0 .. MaxRetries) = IF 0 > MaxRetries THEN 0 ELSE MaxRetries - 0 + 1
    BY <2>1, FS_Interval, Zenon
  <2> QED BY <2>2, GatewayAssumption
<1>7. IsFiniteSet(1 .. n) /\ Cardinality(1 .. n) = n
  <2>1. 1 \in Int /\ n \in Int
    OBVIOUS
  <2>2. /\ IsFiniteSet(1 .. n)
        /\ Cardinality(1 .. n) = IF 1 > n THEN 0 ELSE n - 1 + 1
    BY <2>1, FS_Interval, Zenon
  <2> QED BY <2>2
<1>8. IsFiniteSet(T) /\ Cardinality(T) = MaxUpdates * (MaxLives * (MaxRetries + 1))
  <2> DEFINE R == Lives \X (0 .. MaxRetries)
  <2>1. IsFiniteSet(R) /\ Cardinality(R) = Cardinality(Lives) * Cardinality(0 .. MaxRetries)
    BY <1>5, <1>6, FS_Product, Zenon
  <2>2. Cardinality(R) = MaxLives * (MaxRetries + 1)
    BY <1>5, <1>6, <2>1, Zenon
  <2>3. IsFiniteSet(T) /\ Cardinality(T) = Cardinality(Updates) * Cardinality(R)
    BY <1>4, <2>1, FS_Product, Zenon
  <2> QED BY <1>4, <2>2, <2>3, Zenon
<1> HIDE DEF f, T
<1>9. f \in Injection(1 .. n, T)
  BY <1>2, <1>3 DEF Injection, IsInjective
<1>10. Cardinality(1 .. n) <= Cardinality(T)
  BY <1>8, <1>9, FS_Injection
<1> QED BY <1>0, <1>7, <1>8, <1>10 DEF TypeOK

(* As many entries as there are tries at most. *)
StreamIsShort == Len(stream) <= MaxUpdates * (MaxLives * (MaxRetries + 1))

LEMMA StreamStaysShort == Spec => [](OneRequestPerLife /\ EntriesAreTries /\ StreamIsShort)
<1> DEFINE Inv == GatewayInv /\ OneRequestPerLife /\ EntriesAreTries
<1>1. Init => Inv
  <2> SUFFICES ASSUME Init PROVE Inv
    OBVIOUS
  <2>1. GatewayInv
    BY InitGateway
  <2>2. OneRequestPerLife
    BY DEF Init, OneRequestPerLife
  <2>3. OwnTry(0, <<>>, <<>>) /\ 0 \in Nat /\ 0 = Len(origin)
    BY DEF Init, OwnTry
  <2>4. <<>> \in [1 .. 0 -> Lives] /\ <<>> \in [1 .. 0 -> 0 .. MaxRetries]
    OBVIOUS
  <2>5. EntriesAreTries
    BY <2>3, <2>4, Zenon DEF EntriesAreTries
  <2> QED BY <2>1, <2>2, <2>5
<1>2. Inv /\ [Next]_vars => Inv'
  BY NextGateway, OneRequestStep, TriesStep DEF GatewayInv
<1>3. Inv => OneRequestPerLife /\ EntriesAreTries /\ StreamIsShort
  BY TriesAreFew DEF GatewayInv, TypeOK, StreamIsShort
<1> QED BY <1>1, <1>2, <1>3, PTL DEF Spec

(* A message puts at most one entry on the stream per try of its one        *)
(* request per life of the bot: this is all that redelivery and go-redis'   *)
(* retries can add to it.                                                   *)
THEOREM OneEntryPerTry == Spec => []StreamIsShort
BY StreamStaysShort, PTL
===============================================================================
