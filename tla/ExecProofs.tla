------------------------------ MODULE ExecProofs -------------------------------
(***************************************************************************)
(* The exec processes, for every set of processes and groups, every stream *)
(* and every number of crashes and lost connections: custody of entries,   *)
(* the filter that gates a trade, and the ledger a group implements.       *)
(***************************************************************************)
EXTENDS ExecLedger, TLAPS

(* Entry i is with process w: on its pending list, or decided by it.       *)
Holds(w, i) == i \in pending[w] \/ Decided(w, i)

(* The entry in hand is pending and new; the one to acknowledge is decided. *)
InHand ==
  \A w \in Workers :
    /\ pc[w] \in {"handle", "signals"} =>
         /\ current[w] \in pending[w]
         /\ \A i \in Entries : Decided(w, i) => i < current[w]
    /\ pc[w] = "ack" => current[w] \in Entries /\ Decided(w, current[w])

(* Nobody holds an entry the group has not handed out. *)
BehindCursor ==
  \A w \in Workers, i \in Entries :
    Holds(w, i) => i <= lastDelivered[GroupOf[w]]

(* No two processes of a group hold the same entry. *)
OneHolder ==
  \A v, w \in Workers : \A i \in Entries :
    GroupOf[v] = GroupOf[w] /\ Holds(v, i) /\ Holds(w, i) => v = w

Custody == InHand /\ BehindCursor /\ OneHolder /\ NothingLostSilently

IInv == TypeOK /\ Custody

USE ExecAssumption DEF Entries, Decided, TypeOK, GroupType, WorkerType, FaultType

(* An effect is never mistaken for "not decided". *)
LEMMA EffectIsDecided == \A e \in Effect : e # NoEffect
BY SMT DEF Effect, Outcome, NoEffect

(* What the model's filter entries leave in the registry. *)
LEMMA NewFilterType ==
  \A intent \in Intent : intent.kind = "filter" =>
    /\ intent.principal \in Principals
    /\ NewFilter(intent) \in Expressions \cup {None}
BY SMT DEF Intent, Trade, Filter, Other, NewFilter

LEMMA InitInv == Init => IInv
<1> SUFFICES ASSUME Init PROVE IInv
  OBVIOUS
<1>1. TypeOK
  BY SMT DEF Init, TypeOK, EmptyRegistry
<1>2. Custody
  BY SMT DEF Init, Custody, InHand, BehindCursor, OneHolder, Holds,
             NothingLostSilently
<1> QED BY <1>1, <1>2 DEF IInv

(* The entry in hand is on the stream. *)
LEMMA CurrentOnStream ==
  ASSUME IInv, NEW w \in Workers, pc[w] \in {"handle", "signals"}
  PROVE  /\ current[w] \in Entries
         /\ current[w] \in 1 .. Len(stream)
         /\ stream[current[w]] \in Intent
         /\ ~Decided(w, current[w])
BY SMT DEF IInv, TypeOK, Custody, InHand, BehindCursor, Holds

(* A decision of the entry in hand, whatever the outcome. *)
LEMMA DecideCustody ==
  ASSUME IInv, NEW w \in Workers, pc[w] \in {"handle", "signals"},
         NEW outcome \in Outcome, NEW g \in Expressions \cup {None},
         Decide(w, outcome, g), UNCHANGED <<groupVars, current>>
  PROVE  /\ effect' \in [Workers -> [Entries -> Effect \cup {NoEffect}]]
         /\ pc' \in [Workers -> {"down", "read", "handle", "signals", "ack"}]
         /\ Custody'
<1> DEFINE e == [outcome |-> outcome, gate |-> g, epoch |-> epoch[w]]
           c == current[w]
<1>1. e \in Effect /\ e # NoEffect
  BY EffectIsDecided, SMT DEF IInv, TypeOK, Effect
<1>2. /\ c \in Entries /\ c \in pending[w] /\ ~Decided(w, c)
      /\ c <= lastDelivered[GroupOf[w]]
  BY CurrentOnStream, SMT DEF IInv, TypeOK, Custody, InHand, BehindCursor, Holds
<1>3. /\ effect' = [effect EXCEPT ![w] = [effect[w] EXCEPT ![c] = e]]
      /\ pc' = [pc EXCEPT ![w] = "ack"]
  BY DEF Decide
<1> HIDE DEF e, c
<1>4. effect' \in [Workers -> [Entries -> Effect \cup {NoEffect}]]
  BY <1>1, <1>2, <1>3, SMT DEF IInv, TypeOK
<1>5. \A v \in Workers : \A i \in Entries :
        Decided(v, i)' <=> Decided(v, i) \/ (v = w /\ i = c)
  BY <1>1, <1>2, <1>3, SMT DEF IInv, TypeOK
<1>6. \A v \in Workers : \A i \in Entries : Holds(v, i)' <=> Holds(v, i)
  BY <1>2, <1>5, SMT DEF Holds, groupVars
<1>7. InHand'
  BY <1>2, <1>3, <1>5, SMT DEF IInv, TypeOK, Custody, InHand, groupVars, c
<1>8. BehindCursor' /\ OneHolder'
  BY <1>6, SMT DEF IInv, Custody, BehindCursor, OneHolder, groupVars
<1>9. NothingLostSilently'
  BY <1>6, SMT DEF IInv, TypeOK, Custody, NothingLostSilently, groupVars, Members, Holds
<1> QED
  BY <1>3, <1>4, <1>7, <1>8, <1>9, SMT DEF Custody, IInv, TypeOK

(* Redis hands the next entry of its group to w, which takes it in hand or  *)
(* never learns of it.                                                      *)
LEMMA DeliverCustody ==
  ASSUME IInv, NEW w \in Workers, pc[w] = "read", Deliver(w), UNCHANGED effect,
         \/ UNCHANGED <<pc, current>>
         \/ /\ pc' = [pc EXCEPT ![w] = "handle"]
            /\ current' = [current EXCEPT ![w] = lastDelivered'[GroupOf[w]]]
  PROVE  GroupType' /\ Custody'
<1> DEFINE g == GroupOf[w]
           i == lastDelivered[g] + 1
<1>1. /\ g \in Groups /\ i \in Entries /\ i \in 1 .. Len(stream)
      /\ lastDelivered' = [lastDelivered EXCEPT ![g] = i]
      /\ pending' = [pending EXCEPT ![w] = pending[w] \cup {i}]
      /\ stream' = stream
  BY SMT DEF Deliver, IInv
<1>2. \A v \in Workers : GroupOf[v] = g => ~Holds(v, i)
  BY <1>1, SMT DEF IInv, Custody, BehindCursor
<1> HIDE DEF i
<1>3. GroupType'
  BY <1>1, SMT DEF IInv
<1>4. \A v \in Workers : \A j \in Entries :
        Holds(v, j)' <=> Holds(v, j) \/ (v = w /\ j = i)
  BY <1>1, SMT DEF Holds, IInv
<1>5. InHand'
  <2> SUFFICES ASSUME NEW v \in Workers
               PROVE  InHand!(v)'
    BY DEF InHand
  <2>1. CASE v = w
    BY <2>1, <1>1, SMT DEF IInv, Custody, InHand, BehindCursor, Holds, i
  <2>2. CASE v # w
    BY <2>2, <1>1, SMT DEF IInv, Custody, InHand
  <2> QED BY <2>1, <2>2
<1>6. BehindCursor'
  BY <1>1, <1>4, SMT DEF IInv, Custody, BehindCursor, i
<1>7. OneHolder'
  <2> SUFFICES ASSUME NEW u \in Workers, NEW v \in Workers, NEW j \in Entries,
                      GroupOf[u] = GroupOf[v], Holds(u, j)', Holds(v, j)'
               PROVE  u = v
    BY DEF OneHolder
  <2>1. CASE j = i /\ GroupOf[u] = g
    BY <1>2, <1>4, <2>1
  <2>2. CASE ~(j = i /\ GroupOf[u] = g)
    BY <1>4, <2>2 DEF IInv, Custody, OneHolder
  <2> QED BY <2>1, <2>2
<1>8. NothingLostSilently'
  <2> SUFFICES ASSUME NEW h \in Groups, NEW j \in 1 .. lastDelivered'[h]
               PROVE  \E v \in Members(h) : Decided(v, j)' \/ j \in pending'[v]
    BY DEF NothingLostSilently, Members
  <2>1. CASE h = g /\ j = i
    BY <2>1, <1>1, SMT DEF Members, IInv
  <2>2. CASE ~(h = g /\ j = i)
    <3>1. j \in 1 .. lastDelivered[h]
      BY <2>2, <1>1, SMT DEF i, IInv
    <3>2. PICK v \in Members(h) : Decided(v, j) \/ j \in pending[v]
      BY <3>1 DEF IInv, Custody, NothingLostSilently
    <3> QED BY <3>2, <1>1, SMT DEF Members, IInv
  <2> QED BY <2>1, <2>2
<1> QED BY <1>3, <1>5, <1>6, <1>7, <1>8 DEF Custody

LEMMA StepInv == IInv /\ [Next]_vars => IInv'
<1> SUFFICES ASSUME IInv, [Next]_vars PROVE IInv'
  OBVIOUS
<1> USE DEF IInv, groupVars, workerVars, faultVars
<1>1. CASE UNCHANGED vars
  BY <1>1 DEF vars, Custody, InHand, BehindCursor, OneHolder, Holds,
              NothingLostSilently, Members
<1>2. CASE Publish
  <2>1. PICK intent \in Intent : XAdd(intent)
    BY <1>2 DEF Publish
  <2>2. stream' \in Seq(Intent) /\ Len(stream') = Len(stream) + 1
    BY <2>1, SMT DEF XAdd
  <2>3. TypeOK'
    BY <1>2, <2>1, <2>2, SMT DEF Publish, XAdd
  <2>4. Custody'
    BY <1>2, <2>1, SMT DEF Publish, XAdd, Custody, InHand, BehindCursor,
                           OneHolder, Holds, NothingLostSilently, Members
  <2> QED BY <2>3, <2>4
<1>3. ASSUME NEW w \in Workers, Start(w) PROVE IInv'
  <2>1. TypeOK'
    BY <1>3, SMT DEF Start, EmptyRegistry
  <2>2. Custody'
    BY <1>3, SMT DEF Start, Custody, InHand, BehindCursor, OneHolder, Holds,
                     NothingLostSilently, Members
  <2> QED BY <2>1, <2>2
<1>4. ASSUME NEW w \in Workers, Read(w) PROVE IInv'
  <2>1. GroupType' /\ Custody'
    BY <1>4, DeliverCustody DEF Read
  <2>2. lastDelivered'[GroupOf[w]] \in Entries
    BY <1>4, SMT DEF Read, Deliver
  <2>3. WorkerType' /\ FaultType'
    BY <1>4, <2>2, SMT DEF Read
  <2> QED BY <2>1, <2>3
<1>5. ASSUME NEW w \in Workers, ConnectionLost(w) PROVE IInv'
  <2>1. WorkerType' /\ FaultType'
    BY <1>5, SMT DEF ConnectionLost
  <2>2. CASE UNCHANGED groupVars
    BY <1>5, <2>1, <2>2 DEF ConnectionLost, Custody, InHand, BehindCursor,
         OneHolder, Holds, NothingLostSilently, Members
  <2>3. CASE pc[w] = "read" /\ Deliver(w)
    BY <1>5, <2>1, <2>3, DeliverCustody DEF ConnectionLost
  <2> QED BY <1>5, <2>2, <2>3 DEF ConnectionLost
<1>6. ASSUME NEW w \in Workers, HandleFilter(w) PROVE IInv'
  <2> DEFINE intent == stream[current[w]]
  <2>1. intent.principal \in Principals /\ NewFilter(intent) \in Expressions \cup {None}
    BY <1>6, CurrentOnStream, NewFilterType DEF HandleFilter
  <2>2. registry' \in [Workers -> [Principals -> Expressions \cup {None}]]
    BY <1>6, <2>1, SMT DEF HandleFilter
  <2>3. "applied" \in Outcome /\ None \in Expressions \cup {None}
    BY DEF Outcome
  <2> QED
    BY <1>6, <2>2, <2>3, DecideCustody DEF HandleFilter
<1>7. ASSUME NEW w \in Workers, HandleOther(w) PROVE IInv'
  BY <1>7, DecideCustody DEF HandleOther, Outcome
<1>8. ASSUME NEW w \in Workers, HandleUngated(w) PROVE IInv'
  BY <1>8, DecideCustody DEF HandleUngated, Outcome, FinalOutcome
<1>9. ASSUME NEW w \in Workers, HandleGated(w) PROVE IInv'
  <2>1. /\ stream[current[w]].kind = "trade" /\ stream[current[w]] \in Intent
    BY <1>9, CurrentOnStream DEF HandleGated
  <2>2. stream[current[w]].principal \in Principals
    BY <2>1, SMT DEF Intent, Trade, Filter, Other
  <2>3. TypeOK'
    BY <1>9, <2>2, SMT DEF HandleGated
  <2>4. Custody'
    BY <1>9, SMT DEF HandleGated, Custody, InHand, BehindCursor, OneHolder, Holds,
                     NothingLostSilently, Members
  <2> QED BY <2>3, <2>4
<1>10. ASSUME NEW w \in Workers, Signals(w) PROVE IInv'
  <2>1. PICK outcome \in {FinalOutcome, "blocked", "failed"} :
          Decide(w, outcome, gate[w])
    BY <1>10 DEF Signals
  <2>2. outcome \in Outcome /\ gate[w] \in Expressions \cup {None}
    BY <2>1, SMT DEF Outcome, FinalOutcome
  <2>3. gate' \in [Workers -> Expressions \cup {None}]
    BY <1>10, SMT DEF Signals
  <2> QED BY <1>10, <2>1, <2>2, <2>3, DecideCustody DEF Signals
<1>11. ASSUME NEW w \in Workers, Ack(w) PROVE IInv'
  <2>1. TypeOK'
    BY <1>11, SMT DEF Ack
  <2>2. InHand'
    BY <1>11, SMT DEF Ack, Custody, InHand
  <2>3. BehindCursor' /\ OneHolder'
    BY <1>11, SMT DEF Ack, Custody, BehindCursor, OneHolder, Holds
  <2>4. NothingLostSilently'
    <3> SUFFICES ASSUME NEW g \in Groups, NEW i \in 1 .. lastDelivered[g]
                 PROVE  \E v \in Members(g) : Decided(v, i)' \/ i \in pending'[v]
      BY <1>11 DEF Ack, NothingLostSilently, Members
    <3>1. PICK v \in Members(g) : Decided(v, i) \/ i \in pending[v]
      BY DEF Custody, NothingLostSilently
    <3>2. i \in pending[v] => i \in pending'[v] \/ (v = w /\ i = current[w])
      BY <1>11, SMT DEF Ack, Members
    <3>3. Decided(w, current[w])
      BY <1>11 DEF Ack, Custody, InHand
    <3>4. Decided(v, i)' \/ i \in pending'[v]
      BY <1>11, <3>1, <3>2, <3>3 DEF Ack
    <3> QED BY <3>4
  <2> QED BY <2>1, <2>2, <2>3, <2>4 DEF Custody
<1>12. ASSUME NEW w \in Workers, Crash(w) PROVE IInv'
  <2>1. TypeOK'
    BY <1>12, SMT DEF Crash, EmptyRegistry
  <2>2. Custody'
    BY <1>12, SMT DEF Crash, Custody, InHand, BehindCursor, OneHolder, Holds,
                      NothingLostSilently, Members
  <2> QED BY <2>1, <2>2
<1> QED
  BY <1>1, <1>2, <1>3, <1>4, <1>5, <1>6, <1>7, <1>8, <1>9, <1>10, <1>11, <1>12
     DEF Next, ExecNext, Work, Handle

LEMMA InvariantHolds == Spec => []IInv
BY InitInv, StepInv, PTL DEF Spec

(* Every value of worker_loop and of the group is one the program can hold, *)
(* for every pool of processes and groups.                                  *)
THEOREM TypeCorrect == Spec => []TypeOK
<1>1. IInv => TypeOK
  BY DEF IInv
<1> QED BY <1>1, InvariantHolds, PTL

(* No intent is decided by two processes of a consumer group, however many *)
(* processes, crashes and lost connections there are.                      *)
THEOREM GroupDecidesAtMostOnce == Spec => []AtMostOnce
<1>1. IInv => AtMostOnce
  BY DEF IInv, Custody, OneHolder, Holds, AtMostOnce
<1> QED BY <1>1, InvariantHolds, PTL

(* Every intent a group handed out was decided or is on a pending list.    *)
THEOREM LossIsVisible == Spec => []NothingLostSilently
<1>1. IInv => NothingLostSilently
  BY DEF IInv, Custody
<1> QED BY <1>1, InvariantHolds, PTL

(* No step of the system changes what a process did with an entry.         *)
LEMMA StepKeepsDecisions ==
  IInv /\ [Next]_vars =>
    [\A w \in Workers, i \in Entries :
       Decided(w, i) => effect'[w][i] = effect[w][i]]_vars
<1> SUFFICES ASSUME IInv, Next,
                    NEW v \in Workers, NEW i \in Entries, Decided(v, i)
             PROVE  effect'[v][i] = effect[v][i]
  BY DEF vars
<1>1. CASE UNCHANGED effect
  BY <1>1
<1>2. ASSUME NEW w \in Workers, NEW outcome, NEW g,
             pc[w] \in {"handle", "signals"}, Decide(w, outcome, g)
      PROVE  effect'[v][i] = effect[v][i]
  BY <1>2, CurrentOnStream, SMT DEF Decide, IInv
<1>3. CASE Publish \/ \E w \in Workers : Start(w) \/ Read(w) \/ HandleGated(w)
                        \/ Ack(w) \/ ConnectionLost(w) \/ Crash(w)
  BY <1>1, <1>3 DEF Publish, Start, Read, HandleGated, Ack, ConnectionLost, Crash,
                    workerVars
<1>4. ASSUME NEW w \in Workers, HandleFilter(w) \/ HandleOther(w) \/ HandleUngated(w)
      PROVE  effect'[v][i] = effect[v][i]
  BY <1>2, <1>4 DEF HandleFilter, HandleOther, HandleUngated
<1>5. ASSUME NEW w \in Workers, Signals(w)
      PROVE  effect'[v][i] = effect[v][i]
  BY <1>2, <1>5 DEF Signals
<1> QED BY <1>3, <1>4, <1>5 DEF Next, ExecNext, Work, Handle

(* A decision is never taken twice nor revised, across crashes as well.    *)
THEOREM DecisionsAreFinal == Spec => DecisionIsFinal
BY InvariantHolds, StepKeepsDecisions, PTL DEF Spec, DecisionIsFinal

-------------------------------------------------------------------------------
(***************************************************************************)
(* The filter that gates a trade is the newest one: the registry always    *)
(* equals what the log of this life says.                                  *)
(***************************************************************************)

(* Decisions carry the life they were taken in. *)
EpochBound ==
  \A w \in Workers, i \in Entries :
    Decided(w, i) => effect[w][i].epoch <= epoch[w]

(* The registry of a running process is what its own log of this life says. *)
RegistryFollows ==
  \A w \in Workers : pc[w] # "down" =>
    \A p \in Principals : FilterBefore(w, MaxEntries + 1, p, epoch[w], registry[w][p])

(* The filter cloned for a request is still the one in the registry. *)
GateFollows ==
  \A w \in Workers : pc[w] = "signals" =>
    /\ stream[current[w]].kind = "trade" /\ ~stream[current[w]].force
    /\ gate[w] = registry[w][stream[current[w]].principal] /\ gate[w] # None

FInv == EpochBound /\ RegistryFollows /\ GateFollows /\ NewestFilterGates

LEMMA InitFilters == Init => FInv
BY SMT DEF Init, FInv, EpochBound, RegistryFollows, GateFollows, NewestFilterGates,
           NoEffect

(* A decided entry is on the stream. *)
LEMMA DecidedOnStream ==
  ASSUME IInv, NEW w \in Workers, NEW i \in Entries, Decided(w, i)
  PROVE  /\ i \in 1 .. Len(stream) /\ stream[i] \in Intent
         /\ effect[w][i] \in Effect
BY SMT DEF IInv, Custody, BehindCursor, Holds, NoEffect

(* What a filter entry set before position i depends only on the effects    *)
(* before i, and on the stream where there are effects.                     *)
LEMMA FilterFrame ==
  ASSUME NEW w \in Workers, NEW i \in Nat, NEW p, NEW e, NEW f,
         \A j \in Entries : j < i =>
           /\ effect'[w][j] = effect[w][j]
           /\ Decided(w, j) => stream'[j] = stream[j],
         FilterBefore(w, i, p, e, f)
  PROVE  FilterBefore(w, i, p, e, f)'
<1>1. \A j \in Entries : j < i => (Applied(w, j, p, e)' <=> Applied(w, j, p, e))
  BY DEF Applied
<1>2. \A j \in Entries : j < i /\ Applied(w, j, p, e) => stream'[j] = stream[j]
  BY DEF Applied
<1> QED BY <1>1, <1>2 DEF FilterBefore, NewFilter

(* The same for the end of the stream when a step adds no filter entry.     *)
LEMMA FilterSame ==
  ASSUME NEW w \in Workers, NEW i \in Nat, NEW p, NEW e, NEW f,
         \A j \in Entries : j < i => (Applied(w, j, p, e)' <=> Applied(w, j, p, e)),
         UNCHANGED stream, FilterBefore(w, i, p, e, f)
  PROVE  FilterBefore(w, i, p, e, f)'
BY DEF FilterBefore, NewFilter

(* At the entry in hand, the end of the stream and the entry see the same.  *)
LEMMA FilterAtHand ==
  ASSUME IInv, NEW w \in Workers, pc[w] \in {"handle", "signals"},
         NEW p, NEW e, NEW f, FilterBefore(w, MaxEntries + 1, p, e, f)
  PROVE  FilterBefore(w, current[w], p, e, f)
<1>1. \A j \in Entries : Applied(w, j, p, e) => j < current[w] /\ j < MaxEntries + 1
  BY SMT DEF Applied, IInv, Custody, InHand
<1> QED BY <1>1 DEF FilterBefore

(* The gate of a decided trade stays right when nothing before it changes. *)
LEMMA GateFrame ==
  ASSUME FInv, NEW w \in Workers, NEW i \in Entries, Decided(w, i),
         \A j \in Entries : j <= i =>
           /\ effect'[w][j] = effect[w][j]
           /\ Decided(w, j) => stream'[j] = stream[j],
         stream'[i].kind = "trade"
  PROVE  GatedByNewest(w, i)'
<1>1. PICK p, e, f : /\ p = stream[i].principal
                     /\ e = effect[w][i].epoch /\ f = effect[w][i].gate
  OBVIOUS
<1>2. /\ effect'[w][i] = effect[w][i] /\ stream'[i] = stream[i]
      /\ GatedByNewest(w, i)
  BY SMT, ExecAssumption DEF FInv, NewestFilterGates
<1>3. ASSUME FilterBefore(w, i, p, e, f) PROVE FilterBefore(w, i, p, e, f)'
  <2>1. i \in Nat /\ \A j \in Entries : j < i => j <= i
    BY SMT
  <2> QED BY <1>3, <2>1, FilterFrame
<1>4. stream'[i].force = stream[i].force
  BY <1>2
<1>5. CASE stream[i].force
  BY <1>2, <1>5 DEF GatedByNewest
<1>6. CASE ~stream[i].force
  BY <1>1, <1>2, <1>3, <1>6 DEF GatedByNewest
<1> QED BY <1>5, <1>6

(* Steps that decide nothing and neither start a process nor touch a        *)
(* registry: reading, acknowledging, publishing, faults.                    *)
LEMMA QuietStep ==
  ASSUME IInv, FInv, UNCHANGED <<effect, epoch>>,
         \A j \in 1 .. Len(stream) : stream'[j] = stream[j],
         \A w \in Workers : pc'[w] = "down" \/ (pc[w] # "down" /\ registry'[w] = registry[w])
  PROVE  EpochBound' /\ RegistryFollows' /\ NewestFilterGates'
<1>1. EpochBound'
  BY DEF FInv, EpochBound
<1>2. \A w \in Workers, j \in Entries : Decided(w, j) => stream'[j] = stream[j]
  BY DecidedOnStream
<1>3. RegistryFollows'
  <2> SUFFICES ASSUME NEW w \in Workers, pc'[w] # "down", NEW p \in Principals
               PROVE  FilterBefore(w, MaxEntries + 1, p, epoch[w], registry[w][p])'
    BY DEF RegistryFollows
  <2>1. FilterBefore(w, MaxEntries + 1, p, epoch[w], registry[w][p])
    BY DEF FInv, RegistryFollows
  <2> DEFINE e == epoch[w]
             f == registry[w][p]
  <2>2. e' = e /\ f' = f
    OBVIOUS
  <2> HIDE DEF e, f
  <2>3. FilterBefore(w, MaxEntries + 1, p, e, f)
    BY <2>1 DEF e, f
  <2>4. \A j \in Entries : Applied(w, j, p, e)' <=> Applied(w, j, p, e)
    BY <1>2, <2>2 DEF Applied
  <2> QED BY <1>2, <2>2, <2>3, <2>4 DEF FilterBefore, NewFilter, Applied, e, f
<1>4. NewestFilterGates'
  <2> SUFFICES ASSUME NEW w \in Workers, NEW i \in Entries, Decided(w, i)',
                      stream'[i].kind = "trade"
               PROVE  GatedByNewest(w, i)'
    BY DEF NewestFilterGates
  <2> QED BY <1>2, GateFrame
<1> QED BY <1>1, <1>3, <1>4

(* Deciding the entry in hand adds one effect, stamped with this life.      *)
LEMMA DecideEffect ==
  ASSUME IInv, NEW w \in Workers, pc[w] \in {"handle", "signals"},
         NEW outcome \in Outcome, NEW g, Decide(w, outcome, g)
  PROVE  /\ current[w] \in Entries /\ ~Decided(w, current[w])
         /\ effect'[w][current[w]] = [outcome |-> outcome, gate |-> g, epoch |-> epoch[w]]
         /\ \A v \in Workers, i \in Entries :
              ~(v = w /\ i = current[w]) => effect'[v][i] = effect[v][i]
         /\ \A i \in Entries : Decided(w, i) => i < current[w]
<1>1. /\ current[w] \in Entries /\ ~Decided(w, current[w])
      /\ \A i \in Entries : Decided(w, i) => i < current[w]
  BY CurrentOnStream DEF IInv, Custody, InHand
<1> QED BY <1>1, SMT DEF Decide, IInv

LEMMA DecideFilters ==
  ASSUME IInv, FInv, NEW w \in Workers, pc[w] \in {"handle", "signals"},
         NEW outcome \in Outcome, NEW g \in Expressions \cup {None},
         Decide(w, outcome, g), UNCHANGED <<stream, epoch>>,
         stream[current[w]].kind = "trade" =>
           /\ g = IF stream[current[w]].force THEN None
                   ELSE registry[w][stream[current[w]].principal]
           /\ outcome \in {"blocked", "failed"} => g # None
  PROVE  EpochBound' /\ NewestFilterGates'
<1> PICK c : c = current[w]
  OBVIOUS
<1> PICK life : life = epoch[w]
  OBVIOUS
<1>1. /\ c \in Entries /\ ~Decided(w, c) /\ stream[c] \in Intent /\ life \in Nat
      /\ effect'[w][c] = [outcome |-> outcome, gate |-> g, epoch |-> life]
      /\ \A v \in Workers, i \in Entries :
           ~(v = w /\ i = c) => effect'[v][i] = effect[v][i]
      /\ \A i \in Entries : Decided(w, i) => i < c
  BY DecideEffect, CurrentOnStream DEF IInv
<1>2. EpochBound'
  BY <1>1, SMT DEF FInv, EpochBound
<1>3. ASSUME stream[c].kind = "trade" PROVE GatedByNewest(w, c)'
  <2> PICK p : p = stream[c].principal
    OBVIOUS
  <2>1. p \in Principals
    BY <1>1, <1>3, SMT DEF Intent, Trade, Filter, Other
  <2>2. CASE stream[c].force
    BY <1>1, <1>3, <2>2 DEF GatedByNewest
  <2>3. CASE ~stream[c].force
    <3>1. g = registry[w][p]
      BY <1>3, <2>3
    <3>2. FilterBefore(w, MaxEntries + 1, p, life, g)
      BY <2>1, <3>1 DEF FInv, RegistryFollows
    <3>3. FilterBefore(w, c, p, life, g)
      BY <3>2, FilterAtHand
    <3>4. \A j \in Entries : j < c =>
            /\ effect'[w][j] = effect[w][j]
            /\ Decided(w, j) => stream'[j] = stream[j]
      BY <1>1, SMT
    <3>5. c \in Nat
      BY <1>1
    <3>6. FilterBefore(w, c, p, life, g)'
      BY <3>3, <3>4, <3>5, FilterFrame
    <3> QED BY <1>1, <1>3, <2>3, <3>6 DEF GatedByNewest
  <2> QED BY <2>2, <2>3
<1>4. NewestFilterGates'
  <2> SUFFICES ASSUME NEW v \in Workers, NEW i \in Entries, Decided(v, i)',
                      stream[i].kind = "trade"
               PROVE  GatedByNewest(v, i)'
    BY DEF NewestFilterGates
  <2>1. CASE v = w /\ i = c
    BY <1>3, <2>1
  <2>2. CASE ~(v = w /\ i = c)
    <3>1. Decided(v, i)
      BY <1>1, <2>2
    <3>2. \A j \in Entries : j <= i =>
            /\ effect'[v][j] = effect[v][j]
            /\ Decided(v, j) => stream'[j] = stream[j]
      BY <1>1, <2>2, <3>1, SMT
    <3> QED BY <3>1, <3>2, GateFrame
  <2> QED BY <2>1, <2>2
<1> QED BY <1>2, <1>4

(* A decision that applies no filter leaves the registry right.             *)
LEMMA KeepRegistry ==
  ASSUME IInv, FInv, NEW w \in Workers, pc[w] \in {"handle", "signals"},
         NEW outcome \in Outcome, outcome # "applied", NEW g, Decide(w, outcome, g),
         UNCHANGED <<stream, epoch, registry>>
  PROVE  RegistryFollows'
<1>1. \A v \in Workers : pc'[v] # "down" => pc[v] # "down"
  BY SMT DEF Decide, IInv
<1> SUFFICES ASSUME NEW v \in Workers, pc'[v] # "down", NEW p \in Principals
             PROVE  FilterBefore(v, MaxEntries + 1, p, epoch[v], registry[v][p])'
  BY DEF RegistryFollows
<1> PICK life, f : life = epoch[v] /\ f = registry[v][p]
  OBVIOUS
<1>2. FilterBefore(v, MaxEntries + 1, p, life, f)
  BY <1>1 DEF FInv, RegistryFollows
<1>3. ASSUME NEW j \in Entries PROVE Applied(v, j, p, life)' <=> Applied(v, j, p, life)
  <2>1. CASE v = w /\ j = current[w]
    <3>1. /\ effect'[v][j] = [outcome |-> outcome, gate |-> g, epoch |-> epoch[w]]
          /\ ~Decided(v, j)
      BY <2>1, DecideEffect
    <3>2. effect'[v][j].outcome = outcome
      BY <3>1
    <3> QED BY <3>1, <3>2 DEF Applied
  <2>2. CASE ~(v = w /\ j = current[w])
    BY <2>2, DecideEffect DEF Applied
  <2> QED BY <2>1, <2>2
<1>4. MaxEntries + 1 \in Nat
  OBVIOUS
<1>5. FilterBefore(v, MaxEntries + 1, p, life, f)'
  BY <1>2, <1>3, <1>4, FilterSame
<1> QED BY <1>5

LEMMA StartFilters ==
  ASSUME IInv, FInv, NEW w \in Workers, Start(w)
  PROVE  EpochBound' /\ RegistryFollows' /\ NewestFilterGates'
<1>1. /\ UNCHANGED <<stream, effect>>
      /\ epoch' = [epoch EXCEPT ![w] = epoch[w] + 1]
      /\ registry' = [registry EXCEPT ![w] = EmptyRegistry]
      /\ pc' = [pc EXCEPT ![w] = "read"]
  BY DEF Start, groupVars
<1>2. EpochBound'
  <2>1. \A v \in Workers : epoch'[v] \in Nat /\ epoch[v] \in Nat /\ epoch[v] <= epoch'[v]
    BY <1>1, SMT DEF IInv
  <2>2. \A v \in Workers, i \in Entries : Decided(v, i) => effect[v][i].epoch \in Nat
    BY DecidedOnStream, SMT DEF Effect
  <2> QED BY <1>1, <2>1, <2>2, SMT DEF FInv, EpochBound
<1>3. NewestFilterGates'
  <2> SUFFICES ASSUME NEW v \in Workers, NEW i \in Entries, Decided(v, i)',
                      stream'[i].kind = "trade"
               PROVE  GatedByNewest(v, i)'
    BY DEF NewestFilterGates
  <2> QED BY <1>1, GateFrame
<1>4. RegistryFollows'
  <2> SUFFICES ASSUME NEW v \in Workers, pc'[v] # "down", NEW p \in Principals
               PROVE  FilterBefore(v, MaxEntries + 1, p, epoch[v], registry[v][p])'
    BY DEF RegistryFollows
  <2>1. CASE v = w
    <3> PICK life : life = epoch[w] + 1
      OBVIOUS
    <3>1. epoch'[v] = life /\ registry'[v][p] = None
      BY <1>1, <2>1, SMT DEF IInv, EmptyRegistry
    <3>2. \A j \in Entries : ~Applied(v, j, p, life)'
      BY <1>1, <2>1, SMT DEF Applied, FInv, EpochBound, IInv
    <3>3. FilterBefore(v, MaxEntries + 1, p, life, None)'
      BY <3>2 DEF FilterBefore
    <3> QED BY <3>1, <3>3
  <2>2. CASE v # w
    <3> PICK life, f : life = epoch[v] /\ f = registry[v][p]
      OBVIOUS
    <3>1. epoch'[v] = life /\ registry'[v][p] = f /\ pc[v] # "down"
      BY <1>1, <2>2, SMT DEF IInv
    <3>2. FilterBefore(v, MaxEntries + 1, p, life, f)
      BY <3>1 DEF FInv, RegistryFollows
    <3>3. \A j \in Entries : Applied(v, j, p, life)' <=> Applied(v, j, p, life)
      BY <1>1 DEF Applied
    <3>4. MaxEntries + 1 \in Nat
      OBVIOUS
    <3>5. FilterBefore(v, MaxEntries + 1, p, life, f)'
      BY <1>1, <3>2, <3>3, <3>4, FilterSame
    <3> QED BY <3>1, <3>5
  <2> QED BY <2>1, <2>2
<1> QED BY <1>2, <1>3, <1>4

(* A filter entry becomes the newest one of its principal.                  *)
LEMMA FilterStep ==
  ASSUME IInv, FInv, NEW w \in Workers, HandleFilter(w)
  PROVE  RegistryFollows'
<1> PICK c : c = current[w]
  OBVIOUS
<1>1. /\ pc[w] = "handle" /\ UNCHANGED <<stream, epoch>>
      /\ stream[c].kind = "filter" /\ Decide(w, "applied", None)
      /\ registry' = [registry EXCEPT ![w][stream[c].principal] = NewFilter(stream[c])]
      /\ "applied" \in Outcome
  BY DEF HandleFilter, groupVars, Outcome
<1>2. /\ c \in Entries /\ ~Decided(w, c)
      /\ effect'[w][c] = [outcome |-> "applied", gate |-> None, epoch |-> epoch[w]]
      /\ \A v \in Workers, i \in Entries :
           ~(v = w /\ i = c) => effect'[v][i] = effect[v][i]
      /\ \A i \in Entries : Decided(w, i) => i < c
  BY <1>1, DecideEffect
<1>3. stream[c].principal \in Principals
  BY <1>1, CurrentOnStream, NewFilterType
<1> SUFFICES ASSUME NEW v \in Workers, pc'[v] # "down", NEW p \in Principals
             PROVE  FilterBefore(v, MaxEntries + 1, p, epoch[v], registry[v][p])'
  BY DEF RegistryFollows
<1>4. pc[v] # "down"
  BY <1>1, SMT DEF Decide, IInv
<1> PICK life : life = epoch[v]
  OBVIOUS
<1>5. CASE v = w /\ p = stream[c].principal
  <2> PICK f : f = NewFilter(stream[c])
    OBVIOUS
  <2>1. registry'[v][p] = f
    BY <1>1, <1>3, <1>5, SMT DEF IInv
  <2>2. Applied(v, c, p, life)'
    BY <1>1, <1>2, <1>5, EffectIsDecided, SMT DEF Applied, NoEffect
  <2>3. \A k \in Entries : Applied(v, k, p, life)' => k <= c
    BY <1>2, <1>5, SMT DEF Applied
  <2>4. f = NewFilter(stream'[c]) /\ c < MaxEntries + 1
    BY <1>1, <1>2
  <2>5. FilterBefore(v, MaxEntries + 1, p, life, f)'
    BY <1>2, <2>2, <2>3, <2>4 DEF FilterBefore, NewFilter
  <2> QED BY <1>1, <2>1, <2>5
<1>6. CASE ~(v = w /\ p = stream[c].principal)
  <2> PICK f : f = registry[v][p]
    OBVIOUS
  <2>1. registry'[v][p] = f
    BY <1>1, <1>3, <1>6, SMT DEF IInv
  <2>2. FilterBefore(v, MaxEntries + 1, p, life, f)
    BY <1>4 DEF FInv, RegistryFollows
  <2>3. ASSUME NEW j \in Entries PROVE Applied(v, j, p, life)' <=> Applied(v, j, p, life)
    BY <1>1, <1>2, <1>6 DEF Applied
  <2>4. FilterBefore(v, MaxEntries + 1, p, life, f)'
    BY <1>1, <2>2, <2>3, FilterSame
  <2> QED BY <1>1, <2>1, <2>4
<1> QED BY <1>5, <1>6

(* The log only grows. *)
LEMMA LogGrows ==
  ASSUME IInv, [Next]_vars
  PROVE  \A j \in 1 .. Len(stream) : stream'[j] = stream[j]
<1>1. CASE Publish
  BY <1>1, SMT DEF Publish, XAdd, IInv
<1>2. CASE UNCHANGED stream
  BY <1>2
<1> QED
  BY <1>1, <1>2 DEF Next, ExecNext, Work, Handle, vars, groupVars, Start, Read,
     Deliver, HandleFilter, HandleOther, HandleUngated, HandleGated, Signals, Ack,
     Crash, ConnectionLost

LEMMA GateStep ==
  ASSUME IInv, FInv, [Next]_vars
  PROVE  GateFollows'
<1> SUFFICES ASSUME NEW v \in Workers, pc'[v] = "signals"
             PROVE  /\ stream'[current'[v]].kind = "trade"
                    /\ ~stream'[current'[v]].force
                    /\ gate'[v] = registry'[v][stream'[current'[v]].principal]
                    /\ gate'[v] # None
  BY DEF GateFollows
<1>1. CASE HandleGated(v)
  BY <1>1, SMT DEF HandleGated, groupVars, IInv
<1>2. CASE /\ pc[v] = "signals" /\ gate'[v] = gate[v]
           /\ current'[v] = current[v] /\ registry'[v] = registry[v]
  <2>1. stream'[current[v]] = stream[current[v]]
    BY <1>2, CurrentOnStream, LogGrows
  <2> QED BY <1>2, <2>1 DEF FInv, GateFollows
<1> DEFINE Still == /\ pc[v] = "signals" /\ gate'[v] = gate[v]
                    /\ current'[v] = current[v] /\ registry'[v] = registry[v]
<1>3. CASE UNCHANGED vars \/ Publish
  BY <1>2, <1>3 DEF vars, workerVars, Publish
<1>4. ASSUME NEW w \in Workers, Start(w) \/ Read(w) PROVE Still
  BY <1>4, SMT DEF Start, Read, IInv
<1>5. ASSUME NEW w \in Workers, HandleFilter(w) \/ HandleOther(w) \/ HandleUngated(w)
      PROVE  Still
  BY <1>5, SMT DEF HandleFilter, HandleOther, HandleUngated, Decide, IInv
<1>6. ASSUME NEW w \in Workers, HandleGated(w), w # v PROVE Still
  BY <1>6, SMT DEF HandleGated, IInv
<1>7. ASSUME NEW w \in Workers, Signals(w) PROVE Still
  BY <1>7, SMT DEF Signals, Decide, IInv
<1>8. ASSUME NEW w \in Workers, Ack(w) \/ ConnectionLost(w) \/ Crash(w) PROVE Still
  BY <1>8, SMT DEF Ack, ConnectionLost, Crash, IInv
<1> QED
  BY <1>1, <1>2, <1>3, <1>4, <1>5, <1>6, <1>7, <1>8
     DEF Next, ExecNext, Work, Handle

LEMMA StepFilters == IInv /\ FInv /\ [Next]_vars => FInv'
<1> SUFFICES ASSUME IInv, FInv, [Next]_vars PROVE FInv'
  OBVIOUS
<1>1. GateFollows'
  BY GateStep
<1>2. CASE UNCHANGED vars \/ Publish \/ \E w \in Workers :
             Read(w) \/ HandleGated(w) \/ Ack(w) \/ ConnectionLost(w) \/ Crash(w)
  <2>1. UNCHANGED <<effect, epoch>>
    BY <1>2 DEF vars, workerVars, Publish, Read, HandleGated, Ack, ConnectionLost, Crash
  <2>2. \A j \in 1 .. Len(stream) : stream'[j] = stream[j]
    BY LogGrows
  <2>3. ASSUME NEW w \in Workers
        PROVE  pc'[w] = "down" \/ (pc[w] # "down" /\ registry'[w] = registry[w])
    BY <1>2, SMT DEF vars, workerVars, Publish, Read, HandleGated, Ack,
                     ConnectionLost, Crash, IInv
  <2> QED BY <1>1, <2>1, <2>2, <2>3, QuietStep DEF FInv
<1>3. ASSUME NEW w \in Workers, Start(w) PROVE FInv'
  BY <1>1, <1>3, StartFilters DEF FInv
<1>4. ASSUME NEW w \in Workers, HandleFilter(w) PROVE FInv'
  <2>1. EpochBound' /\ NewestFilterGates'
    BY <1>4, DecideFilters DEF HandleFilter, groupVars, Outcome
  <2> QED BY <1>1, <1>4, <2>1, FilterStep DEF FInv
<1>5. ASSUME NEW w \in Workers, HandleOther(w) PROVE FInv'
  BY <1>1, <1>5, DecideFilters, KeepRegistry DEF HandleOther, groupVars, Outcome, FInv
<1>6. ASSUME NEW w \in Workers, HandleUngated(w) PROVE FInv'
  <2>1. FinalOutcome \in Outcome /\ FinalOutcome \notin {"applied", "blocked", "failed"}
    BY DEF FinalOutcome, Outcome
  <2>2. EpochBound' /\ NewestFilterGates'
    BY <1>6, <2>1, DecideFilters DEF HandleUngated, groupVars
  <2>3. RegistryFollows'
    BY <1>6, <2>1, KeepRegistry DEF HandleUngated, groupVars
  <2> QED BY <1>1, <2>2, <2>3 DEF FInv
<1>7. ASSUME NEW w \in Workers, Signals(w) PROVE FInv'
  <2>1. PICK outcome \in {FinalOutcome, "blocked", "failed"} : Decide(w, outcome, gate[w])
    BY <1>7 DEF Signals
  <2>2. outcome \in Outcome /\ outcome # "applied"
    BY <2>1 DEF FinalOutcome, Outcome
  <2>3. gate[w] \in Expressions \cup {None} /\ pc[w] = "signals"
    BY <1>7 DEF Signals, IInv
  <2> PICK g \in Expressions \cup {None} : g = gate[w]
    BY <2>3
  <2>4. EpochBound' /\ NewestFilterGates'
    <3>1. /\ g = registry[w][stream[current[w]].principal] /\ g # None
          /\ ~stream[current[w]].force
      BY <2>3 DEF FInv, GateFollows
    <3> QED BY <1>7, <2>1, <2>2, <2>3, <3>1, DecideFilters DEF Signals, groupVars
  <2>5. RegistryFollows'
    BY <1>7, <2>1, <2>2, <2>3, KeepRegistry DEF Signals, groupVars
  <2> QED BY <1>1, <2>4, <2>5 DEF FInv
<1> QED BY <1>2, <1>3, <1>4, <1>5, <1>6, <1>7 DEF Next, ExecNext, Work, Handle

(* handle_trade: every decided trade was gated by the newest filter entry   *)
(* its process applied before it in stream order, in the same life; a       *)
(* forced trade has no gate, and only a gate blocks or fails one.           *)
THEOREM TradesAreGatedByTheNewestFilter == Spec => []NewestFilterGates
<1>1. Init => IInv /\ FInv
  BY InitInv, InitFilters
<1>2. IInv /\ FInv /\ [Next]_vars => (IInv /\ FInv)'
  BY StepInv, StepFilters
<1>3. FInv => NewestFilterGates
  BY DEF FInv
<1> QED BY <1>1, <1>2, <1>3, PTL DEF Spec
-------------------------------------------------------------------------------
(* Only filter entries come to "applied". *)
AppliedAreFilters ==
  \A w \in Workers, i \in Entries :
    Decided(w, i) /\ effect[w][i].outcome = "applied" => stream[i].kind = "filter"

LInv == IInv /\ FInv /\ AppliedAreFilters

(* A decision is "applied" for a filter entry only.                         *)
LEMMA DecideApplied ==
  ASSUME IInv, AppliedAreFilters, NEW w \in Workers, NEW outcome, NEW g,
         pc[w] \in {"handle", "signals"}, Decide(w, outcome, g), UNCHANGED stream,
         outcome = "applied" => stream[current[w]].kind = "filter"
  PROVE  AppliedAreFilters'
<1> SUFFICES ASSUME NEW v \in Workers, NEW i \in Entries,
                    effect'[v][i] # NoEffect, effect'[v][i].outcome = "applied"
             PROVE  stream[i].kind = "filter"
  BY DEF AppliedAreFilters
<1>1. current[w] \in Entries
  BY CurrentOnStream
<1>2. CASE v = w /\ i = current[w]
  <2>1. effect'[v][i] = [outcome |-> outcome, gate |-> g, epoch |-> epoch[w]]
    BY <1>1, <1>2, SMT DEF Decide, IInv
  <2> QED BY <1>2, <2>1
<1>3. CASE ~(v = w /\ i = current[w])
  <2>1. effect'[v][i] = effect[v][i]
    BY <1>1, <1>3, SMT DEF Decide, IInv
  <2> QED BY <2>1 DEF AppliedAreFilters
<1> QED BY <1>2, <1>3

LEMMA StepApplied == IInv /\ AppliedAreFilters /\ [Next]_vars => AppliedAreFilters'
<1> SUFFICES ASSUME IInv, AppliedAreFilters, [Next]_vars PROVE AppliedAreFilters'
  OBVIOUS
<1>1. CASE UNCHANGED effect
  <2>1. \A j \in 1 .. Len(stream) : stream'[j] = stream[j]
    BY LogGrows
  <2> QED BY <1>1, <2>1, DecidedOnStream, SMT DEF AppliedAreFilters
<1>2. CASE UNCHANGED vars \/ Publish \/ \E w \in Workers :
             Start(w) \/ Read(w) \/ HandleGated(w) \/ Ack(w) \/ ConnectionLost(w) \/ Crash(w)
  BY <1>1, <1>2 DEF vars, workerVars, Publish, Start, Read, HandleGated, Ack, ConnectionLost, Crash
<1>3. ASSUME NEW w \in Workers, HandleFilter(w) \/ HandleOther(w) \/ HandleUngated(w)
      PROVE  AppliedAreFilters'
  <2>1. PICK outcome \in Outcome : /\ Decide(w, outcome, None)
                                   /\ outcome = "applied" => stream[current[w]].kind = "filter"
    BY <1>3 DEF HandleFilter, HandleOther, HandleUngated, Outcome, FinalOutcome
  <2>2. pc[w] \in {"handle", "signals"} /\ UNCHANGED stream
    BY <1>3 DEF HandleFilter, HandleOther, HandleUngated, groupVars
  <2> QED BY <2>1, <2>2, DecideApplied
<1>4. ASSUME NEW w \in Workers, Signals(w) PROVE AppliedAreFilters'
  <2>1. PICK outcome \in {FinalOutcome, "blocked", "failed"} : Decide(w, outcome, gate[w])
    BY <1>4 DEF Signals
  <2>2. outcome # "applied"
    BY <2>1 DEF FinalOutcome
  <2>3. pc[w] \in {"handle", "signals"} /\ UNCHANGED stream
    BY <1>4 DEF Signals, groupVars
  <2> QED BY <2>1, <2>2, <2>3, DecideApplied
<1> QED BY <1>2, <1>3, <1>4 DEF Next, ExecNext, Work, Handle

LEMMA LedgerInv == Init => LInv
BY InitInv, InitFilters, SMT DEF LInv, AppliedAreFilters, Init, NoEffect

LEMMA StepLedgerInv == LInv /\ [Next]_vars => LInv'
BY StepInv, StepFilters, StepApplied DEF LInv

-------------------------------------------------------------------------------
(* The member that decided is the one chosen. *)
LEMMA Chosen ==
  ASSUME NEW e, NEW i, NEW w \in Members(Group), e[w][i] # NoEffect,
         \A v \in Members(Group) : e[v][i] # NoEffect => v = w
  PROVE  /\ \E v \in Members(Group) : e[v][i] # NoEffect
         /\ (CHOOSE v \in Members(Group) : e[v][i] # NoEffect) = w
BY Zenon

(* Members do not share decisions. *)
LEMMA OneMember ==
  ASSUME IInv, NEW v \in Members(Group), NEW w \in Members(Group), NEW i \in Entries,
         Decided(v, i), i \in pending[w] \/ Decided(w, i)
  PROVE  v = w
BY DEF Members, IInv, Custody, OneHolder, Holds

LEMMA VerdictOf ==
  ASSUME IInv, NEW w \in Members(Group), NEW i \in Entries, Decided(w, i)
  PROVE  Verdict(i) = effect[w][i].outcome
<1>1. \A v \in Members(Group) : effect[v][i] # NoEffect => v = w
  BY OneMember DEF Decided
<1>2. /\ \E v \in Members(Group) : effect[v][i] # NoEffect
      /\ (CHOOSE v \in Members(Group) : effect[v][i] # NoEffect) = w
  BY <1>1, Chosen
<1> QED BY <1>2 DEF Verdict

(* A verdict changes only where a member's effect does. *)
LEMMA SameVerdict ==
  ASSUME IInv, NEW i \in Entries,
         \A v \in Members(Group) : effect'[v][i] = effect[v][i]
  PROVE  Verdict(i)' = Verdict(i)
<1>1. CASE \E w \in Members(Group) : Decided(w, i)
  <2> PICK w \in Members(Group) : Decided(w, i)
    BY <1>1
  <2>1. \A v \in Members(Group) : effect'[v][i] # NoEffect => v = w
    BY OneMember DEF Decided
  <2>2. effect'[w][i] # NoEffect
    OBVIOUS
  <2>3. /\ \E v \in Members(Group) : effect'[v][i] # NoEffect
        /\ (CHOOSE v \in Members(Group) : effect'[v][i] # NoEffect) = w
    BY <2>1, <2>2, Chosen
  <2>4. Verdict(i)' = effect'[w][i].outcome
    BY <2>3 DEF Verdict, Members
  <2> QED BY <2>4, VerdictOf
<1>2. CASE ~ \E w \in Members(Group) : Decided(w, i)
  <2>1. ~ \E w \in Members(Group) : effect'[w][i] # NoEffect
    BY <1>2
  <2> QED BY <1>2, <2>1 DEF Verdict, Members
<1> QED BY <1>1, <1>2

LEMMA Stutters ==
  ASSUME IInv, \A i \in Entries : \A v \in Members(Group) : effect'[v][i] = effect[v][i],
         UNCHANGED stream
  PROVE  UNCHANGED Ledger!vars
<1>1. \A i \in Entries : Verdict(i)' = Verdict(i)
  BY SameVerdict
<1>2. [i \in Entries |-> Verdict(i)]' = [i \in Entries |-> Verdict(i)]
  BY <1>1
<1> QED BY <1>2 DEF Ledger!vars

(* What a process decides is a verdict of the ledger, if it is a justified  *)
(* one, and nothing to the ledger in another group.                         *)
LEMMA DecideVerdict ==
  ASSUME IInv, NEW w \in Workers, NEW outcome, NEW g,
         pc[w] \in {"handle", "signals"}, Decide(w, outcome, g), UNCHANGED stream,
         w \in Members(Group) => outcome \in Ledger!Verdicts(current[w])
  PROVE  [Ledger!Next]_(Ledger!vars)
<1> PICK k \in Entries : k = current[w]
  BY CurrentOnStream
<1>1. k \in 1 .. Len(stream) /\ ~Decided(w, k) /\ k \in pending[w]
  BY CurrentOnStream DEF IInv, Custody, InHand
<1>2. /\ \A v \in Workers, i \in Entries :
           v # w \/ i # k => effect'[v][i] = effect[v][i]
      /\ effect'[w][k] = [outcome |-> outcome, gate |-> g, epoch |-> epoch[w]]
  BY <1>1, SMT DEF Decide, IInv
<1>3. CASE w \notin Members(Group)
  BY <1>2, <1>3, Stutters DEF Members
<1>4. CASE w \in Members(Group)
  <2>1. \A v \in Members(Group) : ~Decided(v, k)
    BY <1>1, <1>4, OneMember
  <2>2. Verdict(k) = "none"
    BY <2>1 DEF Verdict
  <2>3. effect'[w][k].outcome = outcome /\ effect'[w][k] # NoEffect
    BY <1>2, SMT DEF NoEffect
  <2>4. \A v \in Members(Group) : effect'[v][k] # NoEffect => v = w
    BY <1>1, <1>2, <2>1 DEF Members
  <2>5. /\ \E v \in Members(Group) : effect'[v][k] # NoEffect
        /\ (CHOOSE v \in Members(Group) : effect'[v][k] # NoEffect) = w
    BY <1>4, <2>3, <2>4, Chosen
  <2>6. Verdict(k)' = outcome
    BY <2>3, <2>5 DEF Verdict, Members
  <2>7. \A i \in Entries : i # k => Verdict(i)' = Verdict(i)
    BY <1>2, SameVerdict DEF Members
  <2>8. [i \in Entries |-> Verdict(i)]' = [[i \in Entries |-> Verdict(i)] EXCEPT ![k] = outcome]
    BY <1>1, <2>6, <2>7
  <2>9. Ledger!Decide(k)
    BY <1>1, <1>4, <2>2, <2>8 DEF Ledger!Decide
  <2> QED BY <1>1, <2>9 DEF Ledger!Next
<1> QED BY <1>3, <1>4

(* A filter in the registry was enabled by an entry the process applied.    *)
LEMMA GatesAreEnabled ==
  ASSUME LInv, NEW w \in Members(Group), pc[w] = "signals"
  PROVE  Ledger!MayBeHeld(current[w])
<1> DEFINE k == current[w]
           p == stream[k].principal
<1>1. w \in Workers
  BY DEF Members
<1>2. /\ k \in Entries /\ k \in 1 .. Len(stream) /\ stream[k] \in Intent
      /\ \A i \in Entries : Decided(w, i) => i < k
  BY <1>1, CurrentOnStream DEF LInv, IInv, Custody, InHand
<1>3. /\ stream[k].kind = "trade" /\ ~stream[k].force
      /\ gate[w] = registry[w][p] /\ gate[w] # None
  BY <1>1 DEF LInv, FInv, GateFollows
<1>4. p \in Principals
  BY <1>2, SMT DEF Intent, Trade, Filter, Other
<1>5. FilterBefore(w, MaxEntries + 1, p, epoch[w], registry[w][p])
  BY <1>1, <1>4 DEF LInv, FInv, RegistryFollows
<1>6. PICK j \in Entries : /\ Applied(w, j, p, epoch[w])
                           /\ registry[w][p] = NewFilter(stream[j])
  BY <1>3, <1>5 DEF FilterBefore
<1>7. /\ Decided(w, j) /\ effect[w][j].outcome = "applied" /\ stream[j].principal = p
  BY <1>6 DEF Applied
<1>8. stream[j].enabled /\ stream[j].expression # None
  BY <1>3, <1>6 DEF NewFilter
<1>9. stream[j].kind = "filter"
  BY <1>1, <1>7 DEF LInv, AppliedAreFilters
<1>10. Verdict(j) = "applied"
  BY <1>7, VerdictOf DEF LInv
<1>11. j \in 1 .. k - 1
  BY <1>2, <1>7, SMT
<1>12. Ledger!Enables(j, p)
  BY <1>7, <1>8, <1>9, <1>10 DEF Ledger!Enables
<1> QED BY <1>3, <1>11, <1>12 DEF Ledger!MayBeHeld

LEMMA LedgerStep == LInv /\ [Next]_vars => [Ledger!Next]_(Ledger!vars)
<1> SUFFICES ASSUME LInv, [Next]_vars PROVE [Ledger!Next]_(Ledger!vars)
  OBVIOUS
<1>1. IInv
  BY DEF LInv
<1>2. CASE UNCHANGED vars \/ \E w \in Workers :
             Start(w) \/ Read(w) \/ HandleGated(w) \/ Ack(w) \/ ConnectionLost(w) \/ Crash(w)
  <2>1. UNCHANGED <<effect, stream>>
    BY <1>2 DEF vars, groupVars, workerVars, Start, Read, HandleGated, Ack, ConnectionLost, Crash,
                Deliver
  <2> QED BY <1>1, <2>1, Stutters
<1>3. CASE Publish
  <2>1. PICK intent \in Intent : Len(stream) < MaxEntries /\ stream' = Append(stream, intent)
    BY <1>3 DEF Publish, XAdd
  <2>2. UNCHANGED effect
    BY <1>3 DEF Publish, workerVars
  <2>3. [i \in Entries |-> Verdict(i)]' = [i \in Entries |-> Verdict(i)]
    BY <1>1, <2>2, SameVerdict
  <2>4. Len(stream) + 1 \in Entries
    BY <1>1, <2>1, SMT DEF IInv
  <2>5. Ledger!Append1(intent)
    BY <2>1, <2>3, <2>4 DEF Ledger!Append1
  <2> QED BY <2>5 DEF Ledger!Next
<1>4. ASSUME NEW w \in Workers, HandleFilter(w) PROVE [Ledger!Next]_(Ledger!vars)
  <2>1. "applied" \in Ledger!Verdicts(current[w])
    BY <1>4 DEF HandleFilter, Ledger!Verdicts
  <2> QED BY <1>1, <1>4, <2>1, DecideVerdict DEF HandleFilter, groupVars
<1>5. ASSUME NEW w \in Workers, HandleOther(w) PROVE [Ledger!Next]_(Ledger!vars)
  <2>1. "ignored" \in Ledger!Verdicts(current[w])
    BY <1>5 DEF HandleOther, Ledger!Verdicts
  <2> QED BY <1>1, <1>5, <2>1, DecideVerdict DEF HandleOther, groupVars
<1>6. ASSUME NEW w \in Workers, HandleUngated(w) PROVE [Ledger!Next]_(Ledger!vars)
  <2>1. FinalOutcome \in Ledger!Verdicts(current[w])
    BY <1>6 DEF HandleUngated, Ledger!Verdicts
  <2> QED BY <1>1, <1>6, <2>1, DecideVerdict DEF HandleUngated, groupVars
<1>7. ASSUME NEW w \in Workers, Signals(w) PROVE [Ledger!Next]_(Ledger!vars)
  <2>1. PICK outcome \in {FinalOutcome, "blocked", "failed"} : Decide(w, outcome, gate[w])
    BY <1>7 DEF Signals
  <2>2. pc[w] = "signals" /\ UNCHANGED stream
    BY <1>7 DEF Signals, groupVars
  <2>3. stream[current[w]].kind = "trade"
    BY <2>2 DEF LInv, FInv, GateFollows
  <2>4. w \in Members(Group) => outcome \in Ledger!Verdicts(current[w])
    BY <2>1, <2>2, <2>3, GatesAreEnabled DEF Ledger!Verdicts
  <2> QED BY <1>1, <2>1, <2>2, <2>4, DecideVerdict
<1> QED BY <1>2, <1>3, <1>4, <1>5, <1>6, <1>7 DEF Next, ExecNext, Work, Handle

LEMMA LedgerInit == Init => Ledger!Init
<1> SUFFICES ASSUME Init PROVE Ledger!Init
  OBVIOUS
<1>1. \A i \in Entries : \A w \in Members(Group) : ~Decided(w, i)
  BY DEF Init, Members
<1>2. \A i \in Entries : Verdict(i) = "none"
  BY <1>1 DEF Verdict
<1> QED BY <1>2 DEF Init, Ledger!Init

(* worker_loop and handle_intent: every behaviour of a group's processes is *)
(* one of the ledger, where each intent gets at most one verdict, in any    *)
(* order, and a trade is held up only by a filter enabled before it.        *)
THEOREM GroupImplementsLedger == Spec => ImplementsLedger
BY LedgerInv, StepLedgerInv, LedgerInit, LedgerStep, PTL
   DEF Spec, ImplementsLedger, Ledger!Spec
-------------------------------------------------------------------------------
(***************************************************************************)
(* A process alone in its group, as one orchestrator is: until it crashes  *)
(* it decides the stream entry by entry, in one life, and a lost reply is  *)
(* the last thing it reads.                                                *)
(***************************************************************************)
Alone == \A v, w \in Workers : GroupOf[v] = GroupOf[w] => v = w

InOrder ==
  crashes = 0 => \A w \in Workers :
    /\ pc[w] = "down" => lastDelivered[GroupOf[w]] = 0
    /\ \A i \in Entries : Decided(w, i) => ReplyParses /\ effect[w][i].epoch = epoch[w]
    /\ pc[w] \in {"handle", "signals"} => current[w] = lastDelivered[GroupOf[w]]
    /\ pc[w] \in {"down", "read"} \/ ReplyParses
    /\ ReplyParses => \A i \in 1 .. lastDelivered[GroupOf[w]] :
         \/ Decided(w, i)
         \/ /\ i = lastDelivered[GroupOf[w]]
            /\ pc[w] # "ack" /\ ~(pc[w] = "read" /\ conn[w])

(* A filter entry is always applied. *)
FiltersApply ==
  \A w \in Workers, i \in Entries :
    Decided(w, i) /\ stream[i].kind = "filter" => effect[w][i].outcome = "applied"

LEMMA DecideInOrder ==
  ASSUME IInv, InOrder, FiltersApply, NEW w \in Workers, pc[w] \in {"handle", "signals"},
         NEW outcome \in Outcome, NEW g, Decide(w, outcome, g),
         stream[current[w]].kind = "filter" => outcome = "applied",
         UNCHANGED <<stream, lastDelivered, current, conn, epoch, crashes>>
  PROVE  InOrder' /\ FiltersApply'
<1> DEFINE c == current[w]
<1>1. /\ c \in Entries
      /\ effect'[w][c] = [outcome |-> outcome, gate |-> g, epoch |-> epoch[w]]
      /\ \A v \in Workers, i \in Entries : ~(v = w /\ i = c) => effect'[v][i] = effect[v][i]
  BY DecideEffect
<1>2. pc' = [pc EXCEPT ![w] = "ack"] /\ effect'[w][c] # NoEffect
  BY <1>1 DEF Decide, NoEffect
<1>3. FiltersApply'
  BY <1>1 DEF FiltersApply
<1>4. ASSUME crashes = 0, NEW v \in Workers PROVE InOrder!2!(v)'
  <2>1. InOrder!2!(v)
    BY <1>4 DEF InOrder
  <2>2. CASE v # w
    <3>1. pc'[v] = pc[v] /\ \A i \in Entries : effect'[v][i] = effect[v][i]
      BY <1>1, <1>2, <2>2 DEF IInv
    <3>2. lastDelivered[GroupOf[v]] \in 0 .. MaxEntries
      BY DEF IInv
    <3> QED BY <2>1, <3>1, <3>2
  <2>3. CASE v = w
    <3>1. pc'[w] = "ack" /\ ReplyParses /\ c = lastDelivered[GroupOf[w]]
      BY <1>2, <2>1, <2>3 DEF IInv
    <3>2. \A i \in Entries : Decided(w, i)' => effect'[w][i].epoch = epoch'[w]
      BY <1>1, <2>1, <2>3
    <3>3. lastDelivered[GroupOf[w]] \in 0 .. MaxEntries
      BY DEF IInv
    <3>4. \A i \in 1 .. lastDelivered[GroupOf[w]] : Decided(w, i)'
      BY <1>1, <1>2, <2>1, <2>3, <3>1, <3>3
    <3> QED BY <2>3, <3>1, <3>2, <3>4
  <2> QED BY <2>2, <2>3
<1> QED BY <1>3, <1>4 DEF InOrder

(* Redis hands an entry to a process that has decided all before it. *)
LEMMA DeliverInOrder ==
  ASSUME IInv, Alone, InOrder, NEW w \in Workers, pc[w] = "read", conn[w], Deliver(w),
         UNCHANGED <<effect, epoch, crashes>>,
         \/ /\ IF ReplyParses
                 THEN /\ pc' = [pc EXCEPT ![w] = "handle"]
                      /\ current' = [current EXCEPT ![w] = lastDelivered'[GroupOf[w]]]
                 ELSE UNCHANGED <<pc, current>>
            /\ UNCHANGED conn
         \/ UNCHANGED <<pc, current>> /\ conn' = [conn EXCEPT ![w] = FALSE]
  PROVE  InOrder'
<1> SUFFICES ASSUME crashes = 0, NEW v \in Workers PROVE InOrder!2!(v)'
  BY DEF InOrder
<1>1. InOrder!2!(v)
  BY DEF InOrder
<1>2. lastDelivered' = [lastDelivered EXCEPT ![GroupOf[w]] = lastDelivered[GroupOf[w]] + 1]
  BY DEF Deliver
<1>3. CASE v # w
  <2>1. GroupOf[v] # GroupOf[w]
    BY <1>3 DEF Alone
  <2>2. /\ lastDelivered'[GroupOf[v]] = lastDelivered[GroupOf[v]]
        /\ pc'[v] = pc[v] /\ conn'[v] = conn[v] /\ current'[v] = current[v]
    BY <1>2, <1>3, <2>1 DEF IInv
  <2> QED BY <1>1, <2>2
<1>4. CASE v = w
  <2> DEFINE n == lastDelivered[GroupOf[w]]
  <2>1. /\ n \in Nat /\ n + 1 \in 1 .. MaxEntries /\ lastDelivered'[GroupOf[w]] = n + 1
    BY <1>2 DEF Deliver, IInv
  <2>2. /\ \/ ReplyParses /\ pc'[w] = "handle" /\ current'[w] = n + 1
           \/ ~ReplyParses /\ pc'[w] = "read"
           \/ pc'[w] = "read" /\ conn'[w] = FALSE
    BY <2>1 DEF IInv
  <2>3. ReplyParses => \A i \in 1 .. n : Decided(w, i)
    BY <1>1, <1>4
  <2> HIDE DEF n
  <2>4. ReplyParses => \A i \in 1 .. n + 1 : Decided(w, i)' \/ i = n + 1
    BY <2>1, <2>3
  <2> QED BY <1>1, <1>4, <2>1, <2>2, <2>4
<1> QED BY <1>3, <1>4

LEMMA StepInOrder ==
  ASSUME Alone, IInv, FInv, InOrder, FiltersApply, [Next]_vars
  PROVE  InOrder' /\ FiltersApply'
<1>1. ASSUME UNCHANGED effect PROVE FiltersApply'
  <2> SUFFICES ASSUME NEW w \in Workers, NEW i \in Entries,
                      Decided(w, i), stream'[i].kind = "filter"
               PROVE  effect[w][i].outcome = "applied"
    BY <1>1 DEF FiltersApply
  <2>1. i \in 1 .. Len(stream)
    BY DecidedOnStream
  <2>2. stream'[i] = stream[i]
    BY <2>1, LogGrows
  <2> QED BY <2>2 DEF FiltersApply
<1>2. CASE UNCHANGED <<lastDelivered, pc, current, conn, epoch, effect, crashes>>
  <2>1. InOrder'
    BY <1>2 DEF InOrder
  <2> QED BY <1>1, <1>2, <2>1
<1>3. CASE UNCHANGED vars \/ Publish
  BY <1>2, <1>3 DEF vars, groupVars, workerVars, faultVars, Publish, XAdd
<1>4. ASSUME NEW w \in Workers, Start(w) PROVE InOrder' /\ FiltersApply'
  <2>1. /\ pc[w] = "down" /\ pc' = [pc EXCEPT ![w] = "read"]
        /\ current' = [current EXCEPT ![w] = 0] /\ conn' = [conn EXCEPT ![w] = TRUE]
        /\ epoch' = [epoch EXCEPT ![w] = @ + 1]
        /\ UNCHANGED <<lastDelivered, effect, crashes>>
    BY <1>4 DEF Start, groupVars, faultVars
  <2>2. ASSUME crashes = 0, NEW v \in Workers PROVE InOrder!2!(v)'
    <3>1. InOrder!2!(v) /\ InOrder!2!(w)
      BY <2>2 DEF InOrder
    <3>2. CASE v = w
      <4>1. lastDelivered[GroupOf[w]] = 0 /\ pc'[w] = "read"
        BY <2>1, <3>1 DEF IInv
      <4>2. \A i \in Entries : ~Decided(w, i)
        BY <4>1 DEF IInv, Custody, BehindCursor, Holds
      <4> QED BY <2>1, <3>2, <4>1, <4>2
    <3>3. CASE v # w
      <4>1. /\ pc'[v] = pc[v] /\ current'[v] = current[v]
            /\ conn'[v] = conn[v] /\ epoch'[v] = epoch[v]
        BY <2>1, <3>3 DEF IInv
      <4> QED BY <2>1, <3>1, <4>1
    <3> QED BY <3>2, <3>3
  <2> QED BY <1>1, <2>1, <2>2 DEF InOrder
<1>5. ASSUME NEW w \in Workers, Read(w) PROVE InOrder' /\ FiltersApply'
  BY <1>1, <1>5, DeliverInOrder DEF Read, faultVars
<1>6. ASSUME NEW w \in Workers, ConnectionLost(w) PROVE InOrder' /\ FiltersApply'
  <2>1. CASE pc[w] = "read" /\ Deliver(w)
    BY <1>1, <1>6, <2>1, DeliverInOrder DEF ConnectionLost
  <2>2. CASE UNCHANGED groupVars
    <3>1. \A v \in Workers : conn'[v] => conn[v]
      BY <1>6 DEF ConnectionLost, IInv
    <3>2. UNCHANGED <<lastDelivered, pc, current, epoch, effect, crashes>>
      BY <1>6, <2>2 DEF ConnectionLost, groupVars
    <3> QED BY <1>1, <3>1, <3>2 DEF InOrder
  <2> QED BY <1>6, <2>1, <2>2 DEF ConnectionLost
<1>7. ASSUME NEW w \in Workers, HandleFilter(w) \/ HandleOther(w) \/ HandleUngated(w)
      PROVE  InOrder' /\ FiltersApply'
  <2>1. PICK outcome \in Outcome : /\ Decide(w, outcome, None)
                                   /\ stream[current[w]].kind = "filter" => outcome = "applied"
    BY <1>7 DEF HandleFilter, HandleOther, HandleUngated, Outcome, FinalOutcome
  <2>2. /\ pc[w] \in {"handle", "signals"}
        /\ UNCHANGED <<stream, lastDelivered, current, conn, epoch, crashes>>
    BY <1>7 DEF HandleFilter, HandleOther, HandleUngated, groupVars, faultVars
  <2> QED BY <2>1, <2>2, DecideInOrder
<1>8. ASSUME NEW w \in Workers, HandleGated(w) PROVE InOrder' /\ FiltersApply'
  <2>1. /\ pc[w] = "handle" /\ pc' = [pc EXCEPT ![w] = "signals"]
        /\ UNCHANGED <<lastDelivered, current, conn, epoch, effect, crashes>>
    BY <1>8 DEF HandleGated, groupVars, faultVars
  <2>2. \A v \in Workers : pc'[v] = IF v = w THEN "signals" ELSE pc[v]
    BY <2>1 DEF IInv
  <2> QED BY <1>1, <2>1, <2>2 DEF InOrder
<1>9. ASSUME NEW w \in Workers, Signals(w) PROVE InOrder' /\ FiltersApply'
  <2>1. PICK outcome \in {FinalOutcome, "blocked", "failed"} : Decide(w, outcome, gate[w])
    BY <1>9 DEF Signals
  <2>2. outcome \in Outcome
    BY <2>1 DEF Outcome, FinalOutcome
  <2>3. /\ pc[w] = "signals"
        /\ UNCHANGED <<stream, lastDelivered, current, conn, epoch, crashes>>
    BY <1>9 DEF Signals, groupVars, faultVars
  <2>4. stream[current[w]].kind # "filter"
    BY <2>3 DEF FInv, GateFollows
  <2> QED BY <2>1, <2>2, <2>3, <2>4, DecideInOrder
<1>10. ASSUME NEW w \in Workers, Ack(w) PROVE InOrder' /\ FiltersApply'
  <2>1. /\ pc[w] = "ack" /\ pc' = [pc EXCEPT ![w] = "read"]
        /\ UNCHANGED <<lastDelivered, current, conn, epoch, effect, crashes>>
    BY <1>10 DEF Ack, faultVars
  <2>2. \A v \in Workers : pc'[v] = IF v = w THEN "read" ELSE pc[v]
    BY <2>1 DEF IInv
  <2> QED BY <1>1, <2>1, <2>2 DEF InOrder
<1>11. ASSUME NEW w \in Workers, Crash(w) PROVE InOrder' /\ FiltersApply'
  <2>1. crashes' # 0 /\ UNCHANGED effect
    BY <1>11 DEF Crash, IInv
  <2> QED BY <1>1, <2>1 DEF InOrder
<1> QED
  BY <1>3, <1>4, <1>5, <1>6, <1>7, <1>8, <1>9, <1>10, <1>11 DEF Next, ExecNext, Work, Handle

(* What holds of a process alone in its group, and what it rests on. *)
OneLife == LInv /\ InOrder /\ FiltersApply

LEMMA OneLifeHolds == ASSUME Alone PROVE Spec => []OneLife
<1>1. Init => OneLife
  BY LedgerInv, SMT DEF OneLife, InOrder, FiltersApply, Init, NoEffect
<1>2. OneLife /\ [Next]_vars => OneLife'
  BY StepLedgerInv, StepInOrder DEF OneLife, LInv
<1> QED BY <1>1, <1>2, PTL DEF Spec

(* An orchestrator alone in its group leaves no gap: until it crashes, an   *)
(* entry is decided only after all the entries before it.                   *)
NoGaps ==
  \A w \in Workers, i, j \in Entries : Decided(w, i) /\ j < i => Decided(w, j)

THEOREM AloneLeavesNoGap == ASSUME Alone PROVE Spec => [](crashes = 0 => NoGaps)
<1>1. OneLife => (crashes = 0 => NoGaps)
  <2> SUFFICES ASSUME OneLife, crashes = 0, NEW w \in Workers, NEW i \in Entries,
                      NEW j \in Entries, Decided(w, i), j < i
               PROVE  Decided(w, j)
    BY DEF NoGaps
  <2>1. InOrder!2!(w)
    BY DEF OneLife, InOrder
  <2>2. i <= lastDelivered[GroupOf[w]] /\ lastDelivered[GroupOf[w]] \in Nat
    BY DEF OneLife, LInv, IInv, Custody, BehindCursor, Holds
  <2> QED BY <2>1, <2>2
<1> QED BY <1>1, OneLifeHolds, PTL
===============================================================================
