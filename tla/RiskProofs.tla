------------------------------- MODULE RiskProofs -------------------------------
(***************************************************************************)
(* The risk engine keeps cooldowns and its own exposure limit for every    *)
(* limit table, every set of intents and every caller, careless or not,    *)
(* and its exposure is what is open while the caller is careful.           *)
(***************************************************************************)
EXTENDS RiskEngine, FiniteSetTheorems, WellFoundedInduction, TLAPS

LastOf(q) == q[Len(q)]

(* The cooldown entry of a token stands for its newest accepted trade. *)
Cooling(t, q, u) ==
  /\ t \notin DOMAIN limits => q = <<>> /\ u = 0
  /\ t \in DOMAIN limits =>
       /\ limits[t].cooldown = 0 \/ q = <<>> => u = 0
       /\ limits[t].cooldown > 0 /\ q # <<>> => u = LastOf(q) + limits[t].cooldown

UntilFollows == \A t \in Tokens : Cooling(t, accepted[t], until[t])

Past(q) == \A k \in 1 .. Len(q) : q[k] <= now

IInv == /\ TypeOK /\ UntilFollows /\ CooldownSpacing
        /\ \A t \in Tokens : Past(accepted[t])

(* A sequence of times, one more appended that is not before the others.    *)
LEMMA AppendTime ==
  ASSUME NEW q \in Seq(Nat), NEW n \in Nat, NEW r, r = Append(q, n)
  PROVE  /\ Len(q) \in Nat /\ Len(r) = Len(q) + 1 /\ r[Len(q) + 1] = n
         /\ \A k \in 1 .. Len(q) : r[k] = q[k] /\ q[k] \in Nat
BY SMT

LEMMA AppendPast ==
  ASSUME NEW q \in Seq(Nat), NEW n \in Nat, NEW r, r = Append(q, n),
         \A k \in 1 .. Len(q) : q[k] <= n
  PROVE  \A k \in 1 .. Len(r) : r[k] <= n
<1>1. /\ Len(q) \in Nat /\ Len(r) = Len(q) + 1 /\ r[Len(q) + 1] = n
      /\ \A k \in 1 .. Len(q) : r[k] = q[k]
  BY AppendTime
<1> QED BY <1>1, SMT

LEMMA AppendSpaced ==
  ASSUME NEW q \in Seq(Nat), NEW n \in Nat, NEW r, r = Append(q, n), NEW c \in Nat,
         \A k \in 1 .. Len(q) - 1 : q[k + 1] - q[k] >= c,
         Len(q) > 0 => n - q[Len(q)] >= c
  PROVE  \A k \in 1 .. Len(r) - 1 : r[k + 1] - r[k] >= c
<1>1. /\ Len(q) \in Nat /\ Len(r) = Len(q) + 1 /\ r[Len(q) + 1] = n
      /\ \A k \in 1 .. Len(q) : r[k] = q[k]
  BY AppendTime
<1>2. ASSUME NEW k \in 1 .. Len(r) - 1 PROVE r[k + 1] - r[k] >= c
  <2>1. CASE k = Len(q)
    BY <1>1, <2>1, SMT
  <2>2. CASE k \in 1 .. Len(q) - 1
    BY <1>1, <2>2, SMT
  <2> QED BY <1>1, <1>2, <2>1, <2>2, SMT
<1> QED BY <1>2

USE RiskAssumption DEF TypeOK, Limits

(* What a trade can be. *)
LEMMA TradeStates ==
  /\ Fresh \in TradeState /\ Settled \in TradeState
  /\ \A i \in Intents : Open(i) \in TradeState /\ Refused(i) \in TradeState
BY DEF TradeState

LEMMA InitInv == Init => IInv
BY TradeStates, SMT DEF Init, IInv, UntilFollows, Cooling, CooldownSpacing, Past

(* An accepted intent is within the limits of its listed token. *)
LEMMA IntentFacts ==
  ASSUME NEW i \in Intents
  PROVE  /\ i.token \in Tokens /\ i.notional \in Nat /\ i.slippage \in Nat
         /\ i.token \in DOMAIN limits => limits[i.token].cooldown \in Nat
BY SMT

LEMMA Appended ==
  ASSUME NEW q \in Seq(0 .. MaxTime), NEW s \in 0 .. MaxTime
  PROVE  LET r == Append(q, s) IN
         /\ Len(q) \in Nat /\ Len(r) = Len(q) + 1 /\ r[Len(q) + 1] = s
         /\ \A k \in 1 .. Len(q) : r[k] = q[k] /\ q[k] \in 0 .. MaxTime
         /\ r \in Seq(0 .. MaxTime) /\ r # <<>> /\ LastOf(r) = s
         /\ q # <<>> => Len(q) > 0
<1> DEFINE r == Append(q, s)
<1>1. /\ Len(q) \in Nat /\ Len(r) = Len(q) + 1 /\ r[Len(q) + 1] = s
      /\ \A k \in 1 .. Len(q) : r[k] = q[k] /\ q[k] \in 0 .. MaxTime
  OBVIOUS
<1>2. r \in Seq(0 .. MaxTime)
  OBVIOUS
<1>3. q # <<>> => Len(q) > 0
  OBVIOUS
<1>4. r # <<>>
  BY <1>1, <1>2
<1>5. LastOf(r) = s
  BY <1>1 DEF LastOf
<1> QED BY <1>1, <1>2, <1>3, <1>4, <1>5

LEMMA AcceptInv ==
  ASSUME IInv, NEW x \in Trades, NEW i \in Intents, Accept(x, i), UNCHANGED <<now, conduct>>
  PROVE  IInv'
<1> USE DEF IInv
<1> DEFINE t == i.token
           q == accepted[t]
           r == Append(q, now)
           c == limits[t].cooldown
<1>1. /\ t \in Tokens /\ t \in DOMAIN limits /\ c \in Nat /\ now \in Nat
      /\ i.notional \in Nat /\ exposure + i.notional <= MaxPortfolio /\ now >= until[t]
  BY IntentFacts, SMT DEF Accept, Allowed
<1>2. /\ q \in Seq(0 .. MaxTime) /\ now \in 0 .. MaxTime
  BY <1>1, SMT
<1>12. q \in Seq(Nat) /\ r = Append(q, now)
  BY <1>2, SMT
<1>3. /\ Len(q) \in Nat /\ Len(r) = Len(q) + 1 /\ r[Len(q) + 1] = now
      /\ \A k \in 1 .. Len(q) : r[k] = q[k] /\ q[k] \in 0 .. MaxTime
      /\ r \in Seq(0 .. MaxTime) /\ r # <<>> /\ LastOf(r) = now
      /\ q # <<>> => Len(q) > 0
  <2> HIDE DEF q, t, c, IInv, TypeOK
  <2>1. q \in Seq(0 .. MaxTime) /\ now \in 0 .. MaxTime
    BY <1>2
  <2> QED BY <2>1, Appended, Zenon
<1>4. /\ accepted' = [accepted EXCEPT ![t] = r]
      /\ until' = IF c > 0 THEN [until EXCEPT ![t] = now + c] ELSE until
      /\ exposure' = exposure + i.notional
      /\ trades' = [trades EXCEPT ![x] = Open(i)]
  BY DEF Accept
<1>5. /\ accepted'[t] = r
      /\ \A u \in Tokens : u # t => accepted'[u] = accepted[u] /\ until'[u] = until[u]
      /\ until'[t] = IF c > 0 THEN now + c ELSE until[t]
  BY <1>1, <1>4, SMT
<1>6. Cooling(t, q, until[t]) /\ Past(q)
  BY <1>1 DEF UntilFollows
<1>7. TypeOK'
  <2>1. trades' \in [Trades -> TradeState]
    BY <1>4, TradeStates, SMT
  <2>2. until' \in [Tokens -> Nat]
    <3>1. until \in [Tokens -> Nat] /\ now + c \in Nat
      BY <1>1
    <3> HIDE DEF c, t, IInv
    <3> QED BY <1>1, <1>4, <3>1, SMT
  <2>3. accepted' \in [Tokens -> Seq(0 .. MaxTime)]
    BY <1>1, <1>3, <1>4, SMT
  <2>4. exposure' \in 0 .. MaxPortfolio
    BY <1>1, <1>4, SMT
  <2> QED BY <2>1, <2>2, <2>3, <2>4
<1>8. UntilFollows'
  <2>1. Cooling(t, r, until'[t])
    BY <1>1, <1>3, <1>5, <1>6, SMT DEF Cooling
  <2> HIDE DEF t, r
  <2> QED BY <1>5, <2>1 DEF UntilFollows
<1>9. CooldownSpacing'
  (* The trade before was let through a cooldown ago, or there was none. *)
  <2>1. Len(q) > 0 => now - q[Len(q)] >= c
    <3>1. Len(q) > 0 /\ c > 0 => until[t] = q[Len(q)] + c
      <4>1. Len(q) > 0 => q # <<>>
        BY SMT
      <4> QED BY <1>1, <1>6, <4>1 DEF Cooling, LastOf
    <3>3. now >= until[t] /\ c \in Nat /\ now \in Nat /\ Len(q) \in Nat
      BY <1>1, <1>3
    <3>2. \A k \in 1 .. Len(q) : q[k] <= now /\ q[k] \in Nat
      BY <1>6, <1>12, AppendTime DEF Past
    <3> HIDE DEF q, r, t, c
    <3>4. ASSUME Len(q) > 0 PROVE now - q[Len(q)] >= c
      <4>1. q[Len(q)] \in Nat /\ q[Len(q)] <= now
        BY <3>2, <3>3, <3>4, SMT
      <4> QED BY <3>1, <3>3, <3>4, <4>1, SMT
    <3> QED BY <3>4
  <2>2. \A k \in 1 .. Len(q) - 1 : q[k + 1] - q[k] >= c
    BY <1>1 DEF CooldownSpacing
  <2>3. \A k \in 1 .. Len(r) - 1 : r[k + 1] - r[k] >= c
    <3> HIDE DEF q, r, c
    <3> QED BY <1>1, <1>12, <2>1, <2>2, AppendSpaced
  <2>4. \A u \in DOMAIN limits : u # t => accepted'[u] = accepted[u]
    BY <1>5
  <2>5. \A u \in DOMAIN limits : u # t =>
          \A k \in 1 .. Len(accepted'[u]) - 1 :
            accepted'[u][k + 1] - accepted'[u][k] >= limits[u].cooldown
    BY <2>4 DEF CooldownSpacing
  <2> HIDE DEF t, r
  <2>6. \A k \in 1 .. Len(accepted'[t]) - 1 :
          accepted'[t][k + 1] - accepted'[t][k] >= limits[t].cooldown
    BY <1>5, <2>3
  <2> QED BY <2>5, <2>6 DEF CooldownSpacing
<1>10. \A u \in Tokens : Past(accepted[u])'
  <2>1. \A k \in 1 .. Len(r) : r[k] <= now
    <3>1. \A k \in 1 .. Len(q) : q[k] <= now
      BY <1>6 DEF Past
    <3> HIDE DEF q, r
    <3> QED BY <1>1, <1>12, <3>1, AppendPast
  <2> HIDE DEF t, r
  <2>2. ASSUME NEW u \in Tokens, NEW k \in 1 .. Len(accepted'[u])
        PROVE  accepted'[u][k] <= now
    BY <1>5, <2>1, <2>2, Zenon DEF Past
  <2> QED BY <2>2 DEF Past
<1> QED BY <1>7, <1>8, <1>9, <1>10

(* A step that leaves cooldowns and acceptances alone keeps them. *)
LEMMA OtherInv ==
  ASSUME IInv, TypeOK', UNCHANGED <<now, until, accepted>>
  PROVE  IInv'
<1>1. UntilFollows' /\ CooldownSpacing'
  BY DEF IInv, UntilFollows, CooldownSpacing
<1>2. (\A t \in Tokens : Past(accepted[t]))'
  BY DEF IInv, Past
<1> QED BY <1>1, <1>2 DEF IInv

LEMMA NextInv == IInv /\ [Next]_vars => IInv'
<1> SUFFICES ASSUME IInv, [Next]_vars PROVE IInv'
  OBVIOUS
<1>1. CASE Tick
  <2>1. TypeOK' /\ now <= now'
    BY <1>1, SMT DEF Tick, IInv
  <2>2. \A t \in Tokens : Past(accepted[t])'
    <3>1. \A t \in Tokens : accepted[t] \in Seq(0 .. MaxTime)
      BY DEF IInv
    <3> QED BY <1>1, <2>1, <3>1, SMT DEF Tick, IInv, Past
  <2> QED BY <1>1, <2>1, <2>2, SMT DEF Tick, IInv, UntilFollows, Cooling, CooldownSpacing
<1>2. ASSUME NEW x \in Trades, Evaluate(x) PROVE IInv'
  <2>1. PICK i \in Intents : Accept(x, i) \/ Reject(x, i)
    BY <1>2 DEF Evaluate
  <2>2. CASE Accept(x, i)
    BY <1>2, <2>2, AcceptInv DEF Evaluate
  <2>3. CASE Reject(x, i)
    <3>1. TypeOK' /\ UNCHANGED <<now, until, accepted>>
      BY <1>2, <2>3, TradeStates, SMT DEF Evaluate, Reject, IInv
    <3> QED BY <3>1, OtherInv
  <2> QED BY <2>1, <2>2, <2>3
<1>3. ASSUME NEW x \in Trades, Settle(x) PROVE IInv'
  <2>1. PICK i \in Intents : trades[x] = Open(i)
    <3>1. trades[x] \in TradeState /\ trades[x].status = "open"
      BY <1>3 DEF Settle, IInv
    <3> QED BY ONLY <3>1, SMT DEF TradeState, Fresh, Settled, Refused
  <2>2. Release(i)
    BY <1>3, <2>1, SMT DEF Settle, Open
  <2>3. TypeOK' /\ UNCHANGED <<now, until, accepted>>
    BY <1>3, <2>2, IntentFacts, TradeStates, SMT DEF Settle, Release, Reduced, IInv
  <2> QED BY <2>3, OtherInv
<1>4. CASE CarelessRelease
  <2>1. PICK i \in Intents : Release(i)
    BY <1>4 DEF CarelessRelease
  <2>2. TypeOK' /\ UNCHANGED <<now, until, accepted>>
    BY <1>4, <2>1, IntentFacts, SMT DEF CarelessRelease, Release, Reduced, IInv
  <2> QED BY <2>2, OtherInv
<1>5. CASE UNCHANGED vars
  <2>1. TypeOK' /\ UNCHANGED <<now, until, accepted>>
    BY <1>5, SMT DEF vars, IInv
  <2> QED BY <2>1, OtherInv
<1> QED BY <1>1, <1>2, <1>3, <1>4, <1>5 DEF Next

(* engine.go: the exposure the engine tracks stays between zero and the     *)
(* portfolio limit, and every value is one it can hold, whatever the caller *)
(* releases.                                                               *)
THEOREM ExposureIsLimited == Spec => []TypeOK
<1>1. IInv => TypeOK
  BY DEF IInv
<1> QED BY InitInv, NextInv, <1>1, PTL DEF Spec

(* engine.go: two trades of a token are a cooldown apart, whatever was      *)
(* refused or released between them.                                       *)
THEOREM CooldownsHold == Spec => []CooldownSpacing
<1>1. IInv => CooldownSpacing
  BY DEF IInv
<1> QED BY InitInv, NextInv, <1>1, PTL DEF Spec

(* engine.go: a token is held back by its own newest trade only.            *)
LEMMA RefusalHasAReason ==
  ASSUME IInv, NEW x \in Trades, NEW i \in Intents, [Next]_vars,
         trades[x] = Fresh, trades'[x] = Refused(i),
         i.token \in DOMAIN limits, i.notional <= limits[i.token].notional,
         i.slippage <= limits[i.token].slippage, exposure + i.notional <= MaxPortfolio
  PROVE  \E k \in DOMAIN accepted[i.token] :
           now - accepted[i.token][k] < limits[i.token].cooldown
<1>1. PICK j \in Intents : Reject(x, j) /\ trades'[x] = Refused(j)
  <2>1. PICK y \in Trades : Evaluate(y) /\ y = x
    <3>1. trades'[x] # trades[x] /\ trades'[x] # Settled
      BY SMT DEF Fresh, Refused, Settled
    <3>2. CASE \E y \in Trades : Evaluate(y)
      <4>1. PICK y \in Trades : Evaluate(y)
        BY <3>2
      <4>2. y = x
        BY <3>1, <4>1, SMT DEF Evaluate, Accept, Reject, IInv
      <4> QED BY <4>1, <4>2
    <3>3. CASE \E y \in Trades : Settle(y)
      BY <3>1, <3>3, SMT DEF Settle, IInv
    <3> QED BY <3>1, <3>2, <3>3, Zenon DEF Next, vars, Tick, CarelessRelease
  <2>2. PICK j \in Intents : Accept(x, j) \/ Reject(x, j)
    BY <2>1 DEF Evaluate
  <2> QED BY <2>2, SMT DEF Accept, Reject, Refused, Open, IInv
<1>2. i = j
  BY <1>1, SMT DEF Refused
<1>3. now < until[i.token]
  BY <1>1, <1>2, IntentFacts, SMT DEF Reject, Allowed, IInv
<1>4. Cooling(i.token, accepted[i.token], until[i.token])
  BY IntentFacts DEF IInv, UntilFollows
<1>5. accepted[i.token] # <<>> /\ limits[i.token].cooldown > 0
      /\ until[i.token] = LastOf(accepted[i.token]) + limits[i.token].cooldown
  BY <1>3, <1>4, IntentFacts, SMT DEF Cooling, IInv
<1>6. Len(accepted[i.token]) \in DOMAIN accepted[i.token]
  BY <1>5, IntentFacts, SMT DEF IInv
<1>7. accepted[i.token][Len(accepted[i.token])] \in 0 .. MaxTime
  BY <1>6, IntentFacts, SMT DEF IInv
<1>8. now \in Nat /\ limits[i.token].cooldown \in Nat
  BY IntentFacts, SMT DEF IInv
<1>9. now - accepted[i.token][Len(accepted[i.token])] < limits[i.token].cooldown
  <2> DEFINE last == accepted[i.token][Len(accepted[i.token])]
  <2>1. until[i.token] = last + limits[i.token].cooldown
    BY <1>5 DEF LastOf
  <2>2. last \in Nat
    BY <1>7, SMT
  <2> HIDE DEF last
  <2>3. now - last < limits[i.token].cooldown
    BY <1>3, <1>8, <2>1, <2>2, SMT
  <2> QED BY <2>3 DEF last
<1> QED BY <1>6, <1>9, Zenon

(* engine.go: the cooldown of one token never refuses another's trade.      *)
THEOREM RefusalsAreOwn == Spec => RefusedForItsOwnToken
<1>1. IInv /\ [Next]_vars =>
        \A x \in Trades : \A i \in Intents :
          trades[x] = Fresh /\ trades'[x] = Refused(i) =>
            \/ i.token \notin DOMAIN limits
            \/ i.notional > limits[i.token].notional
            \/ i.slippage > limits[i.token].slippage
            \/ exposure + i.notional > MaxPortfolio
            \/ \E k \in DOMAIN accepted[i.token] :
                 now - accepted[i.token][k] < limits[i.token].cooldown
  <2> SUFFICES ASSUME IInv, [Next]_vars, NEW x \in Trades, NEW i \in Intents,
                      trades[x] = Fresh, trades'[x] = Refused(i),
                      i.token \in DOMAIN limits,
                      ~(i.notional > limits[i.token].notional),
                      ~(i.slippage > limits[i.token].slippage),
                      ~(exposure + i.notional > MaxPortfolio)
               PROVE  \E k \in DOMAIN accepted[i.token] :
                        now - accepted[i.token][k] < limits[i.token].cooldown
    OBVIOUS
  <2>1. /\ i.notional <= limits[i.token].notional
        /\ i.slippage <= limits[i.token].slippage
        /\ exposure + i.notional <= MaxPortfolio
    BY IntentFacts, SMT DEF IInv
  <2> QED BY <2>1, RefusalHasAReason
<1> QED BY InitInv, NextInv, <1>1, PTL DEF Spec, RefusedForItsOwnToken
-------------------------------------------------------------------------------
(***************************************************************************)
(* The exposure is the sum of the open trades.  A sum over a set is a      *)
(* recursive function on its subsets: that it exists, and that the order   *)
(* of its terms does not matter, is induction on their size.               *)
(***************************************************************************)

(* Induction, from the least element of what is not in the set. *)
LEMMA Inductive ==
  ASSUME NEW S, 0 \in S, \A n \in Nat : n \in S => n + 1 \in S
  PROVE  Nat \subseteq S
<1> DEFINE R == OpToRel(<, Nat)
           T == {n \in Nat : n \notin S}
<1> SUFFICES ASSUME T # {} PROVE FALSE
  OBVIOUS
<1>1. IsWellFoundedOn(R, Nat)
  BY NatLessThanWellFounded, Zenon
<1>2. \A x, y \in Nat : x < y => <<x, y>> \in R
  BY Zenon DEF OpToRel
<1>3. T \subseteq Nat
  OBVIOUS
<1> HIDE DEF R
<1>4. PICK x \in T : \A y \in T : ~(<<y, x>> \in R)
  BY <1>1, <1>3, WFMin, Zenon
<1>5. x # 0 /\ x \in Nat
  OBVIOUS
<1>6. x - 1 \in Nat /\ x - 1 < x /\ (x - 1) + 1 = x
  BY <1>5
<1>7. x - 1 \in S
  BY <1>2, <1>4, <1>5, <1>6
<1> QED BY <1>6, <1>7

(* The element a sum takes next. *)
Some(s) == CHOOSE x \in s : TRUE

(* g holds the sum of the weights w of every set in D. *)
Sums(g, D, w) ==
  /\ DOMAIN g = D
  /\ \A s \in D : g[s] = IF s = {} THEN 0 ELSE w[Some(s)] + g[s \ {Some(s)}]

(* The subsets of S with at most n elements. *)
UpTo(S, n) == {s \in SUBSET S : Cardinality(s) <= n}

LEMMA SubsetFacts ==
  ASSUME NEW S, IsFiniteSet(S), NEW s \in SUBSET S
  PROVE  /\ IsFiniteSet(s) /\ Cardinality(s) \in Nat
         /\ Cardinality(s) = 0 <=> s = {}
         /\ \A x \in s : /\ s \ {x} \in SUBSET S
                         /\ Cardinality(s \ {x}) = Cardinality(s) - 1
         /\ s # {} => Some(s) \in s
<1>1. IsFiniteSet(s)
  BY FS_Subset
<1>2. Cardinality(s) \in Nat /\ (Cardinality(s) = 0 <=> s = {})
  BY <1>1, FS_CardinalityType, FS_EmptySet
<1>3. \A x \in s : Cardinality(s \ {x}) = Cardinality(s) - 1
  BY <1>1, FS_RemoveElement
<1>4. s # {} => Some(s) \in s
  BY Zenon DEF Some
<1> QED BY <1>1, <1>2, <1>3, <1>4

LEMMA SumsExist ==
  ASSUME NEW S, IsFiniteSet(S), NEW w
  PROVE  \E g : Sums(g, SUBSET S, w)
<1> DEFINE Done == {n \in Nat : \E g : Sums(g, UpTo(S, n), w)}
<1>1. 0 \in Done
  <2> DEFINE g == [s \in UpTo(S, 0) |-> 0]
  <2>1. \A s \in UpTo(S, 0) : s = {}
    BY SubsetFacts DEF UpTo
  <2>2. Sums(g, UpTo(S, 0), w)
    BY <2>1 DEF Sums
  <2> QED BY <2>2
<1>2. ASSUME NEW n \in Nat, n \in Done PROVE n + 1 \in Done
  <2>1. PICK g : Sums(g, UpTo(S, n), w)
    BY <1>2
  <2> DEFINE h == [s \in UpTo(S, n + 1) |->
                     IF s \in UpTo(S, n) THEN g[s] ELSE w[Some(s)] + g[s \ {Some(s)}]]
  <2>2. ASSUME NEW s \in UpTo(S, n + 1)
        PROVE  h[s] = IF s = {} THEN 0 ELSE w[Some(s)] + h[s \ {Some(s)}]
    <3>1. CASE s = {}
      <4>1. {} \in UpTo(S, n) /\ {} \in UpTo(S, n + 1)
        BY FS_EmptySet DEF UpTo
      <4> QED BY <2>1, <3>1, <4>1 DEF Sums
    <3>2. CASE s # {}
      <4>1. /\ s \ {Some(s)} \in UpTo(S, n) /\ s \ {Some(s)} \in UpTo(S, n + 1)
        BY <3>2, SubsetFacts DEF UpTo
      <4>2. h[s \ {Some(s)}] = g[s \ {Some(s)}]
        BY <4>1
      <4>3. CASE s \in UpTo(S, n)
        <5>1. g[s] = w[Some(s)] + g[s \ {Some(s)}]
          BY <2>1, <3>2, <4>3 DEF Sums
        <5> QED BY <3>2, <4>2, <4>3, <5>1
      <4>4. CASE s \notin UpTo(S, n)
        BY <3>2, <4>2, <4>4
      <4> QED BY <4>3, <4>4
    <3> QED BY <3>1, <3>2
  <2> HIDE DEF h
  <2>3. DOMAIN h = UpTo(S, n + 1)
    BY DEF h
  <2>4. Sums(h, UpTo(S, n + 1), w)
    BY <2>2, <2>3 DEF Sums
  <2> QED BY <2>4
<1> HIDE DEF Done
<1>3. Nat \subseteq Done
  BY <1>1, <1>2, Inductive
<1>4. Cardinality(S) \in Done
  BY <1>3, FS_CardinalityType
<1>5. UpTo(S, Cardinality(S)) = SUBSET S
  BY FS_Subset DEF UpTo
<1> QED BY <1>4, <1>5 DEF Done

LEMMA SumsAreNat ==
  ASSUME NEW S, IsFiniteSet(S), NEW w, \A x \in S : w[x] \in Nat,
         NEW g, Sums(g, SUBSET S, w)
  PROVE  \A s \in SUBSET S : g[s] \in Nat
<1> DEFINE Done == {n \in Nat : \A s \in SUBSET S : Cardinality(s) = n => g[s] \in Nat}
<1>1. 0 \in Done
  BY SubsetFacts DEF Sums
<1>2. ASSUME NEW n \in Nat, n \in Done PROVE n + 1 \in Done
  <2> SUFFICES ASSUME NEW s \in SUBSET S, Cardinality(s) = n + 1 PROVE g[s] \in Nat
    OBVIOUS
  <2>1. /\ s # {} /\ Some(s) \in S /\ s \ {Some(s)} \in SUBSET S
        /\ Cardinality(s \ {Some(s)}) = n
    BY SubsetFacts
  <2>2. g[s \ {Some(s)}] \in Nat
    BY <1>2, <2>1
  <2> QED BY <2>1, <2>2 DEF Sums
<1> HIDE DEF Done
<1>3. \A s \in SUBSET S : Cardinality(s) \in Done
  BY <1>1, <1>2, Inductive, SubsetFacts
<1> QED BY <1>3 DEF Done

(* Whichever element comes off, the rest adds up.                           *)
LEMMA AnyOrder ==
  ASSUME NEW S, IsFiniteSet(S), NEW w, \A x \in S : w[x] \in Nat,
         NEW g, Sums(g, SUBSET S, w),
         NEW s \in SUBSET S, NEW x \in s
  PROVE  g[s] = w[x] + g[s \ {x}]
<1> DEFINE Fits(r) == \A y \in r : g[r] = w[y] + g[r \ {y}]
           Done == {n \in Nat : \A r \in SUBSET S : Cardinality(r) = n => Fits(r)}
<1>1. 0 \in Done
  <2> SUFFICES ASSUME NEW r \in SUBSET S, Cardinality(r) = 0 PROVE Fits(r)
    OBVIOUS
  <2>1. r = {}
    BY SubsetFacts
  <2> QED BY <2>1
<1>2. ASSUME NEW n \in Nat, n \in Done PROVE n + 1 \in Done
  <2> SUFFICES ASSUME NEW r \in SUBSET S, Cardinality(r) = n + 1, NEW y \in r
               PROVE  g[r] = w[y] + g[r \ {y}]
    OBVIOUS
  <2> DEFINE c == Some(r)
  <2>1. r # {} /\ c \in r
    BY SubsetFacts
  <2>2. \A z \in r : r \ {z} \in SUBSET S /\ Cardinality(r \ {z}) = n
    BY SubsetFacts
  <2>3. \A z \in r : Fits(r \ {z})
    BY <1>2, <2>2
  <2>4. g[r] = w[c] + g[r \ {c}]
    BY <2>1 DEF Sums
  <2> HIDE DEF c
  <2>5. CASE y = c
    BY <2>4, <2>5
  <2>6. CASE y # c
    <3>1. g[r \ {c}] = w[y] + g[(r \ {c}) \ {y}]
      BY <2>1, <2>3, <2>6
    <3>2. g[r \ {y}] = w[c] + g[(r \ {y}) \ {c}]
      BY <2>1, <2>3, <2>6
    <3>3. (r \ {y}) \ {c} = (r \ {c}) \ {y}
      OBVIOUS
    <3>4. (r \ {c}) \ {y} \in SUBSET S
      OBVIOUS
    <3>5. g[(r \ {c}) \ {y}] \in Nat
      BY <3>4, SumsAreNat
    <3>6. w[y] \in Nat /\ w[c] \in Nat
      BY <2>1
    <3>7. ASSUME NEW rest \in Nat, rest = g[(r \ {c}) \ {y}]
          PROVE  g[r] = w[y] + g[r \ {y}]
      <4>1. g[r] = w[c] + (w[y] + rest) /\ g[r \ {y}] = w[c] + rest
        BY <2>4, <3>1, <3>2, <3>3, <3>7
      <4> QED BY <3>6, <4>1
    <3> QED BY <3>5, <3>7
  <2> QED BY <2>5, <2>6
<1> HIDE DEF Done
<1>3. Cardinality(s) \in Done
  BY <1>1, <1>2, Inductive, SubsetFacts
<1> QED BY <1>3 DEF Done

(* A sum does not depend on what is not summed. *)
LEMMA SameSums ==
  ASSUME NEW S, NEW T \in SUBSET S, NEW v, NEW w, NEW g, NEW h,
         IsFiniteSet(S), \A x \in T : w[x] = v[x],
         Sums(g, SUBSET S, v), Sums(h, SUBSET T, w)
  PROVE  h[T] = g[T]
<1> DEFINE Done == {n \in Nat : \A s \in SUBSET T : Cardinality(s) = n => h[s] = g[s]}
<1>1. IsFiniteSet(T)
  BY FS_Subset
<1>2. 0 \in Done
  <2> SUFFICES ASSUME NEW s \in SUBSET T, Cardinality(s) = 0 PROVE h[s] = g[s]
    OBVIOUS
  <2>1. s = {} /\ s \in SUBSET S
    BY <1>1, SubsetFacts
  <2> QED BY <2>1 DEF Sums
<1>3. ASSUME NEW n \in Nat, n \in Done PROVE n + 1 \in Done
  <2> SUFFICES ASSUME NEW s \in SUBSET T, Cardinality(s) = n + 1 PROVE h[s] = g[s]
    OBVIOUS
  <2>1. s # {} /\ Some(s) \in s /\ s \in SUBSET S /\ s \ {Some(s)} \in SUBSET T
        /\ Cardinality(s \ {Some(s)}) = n
    BY <1>1, SubsetFacts
  <2>2. h[s \ {Some(s)}] = g[s \ {Some(s)}]
    BY <1>3, <2>1
  <2> QED BY <2>1, <2>2 DEF Sums
<1> HIDE DEF Done
<1>4. Cardinality(T) \in Done
  BY <1>1, <1>2, <1>3, Inductive, FS_CardinalityType
<1> QED BY <1>4 DEF Done

(* What some trades are worth together. *)
Worth(states, S) == MapThenSumSet(LAMBDA x : states[x].intent.notional, S)

(* It is what every recursive sum of their notionals comes to. *)
LEMMA WorthIsSum ==
  ASSUME NEW states, NEW S, IsFiniteSet(S)
  PROVE  \E g : /\ Sums(g, SUBSET S, [x \in S |-> states[x].intent.notional])
                /\ Worth(states, S) = g[S]
<1> DEFINE w == [x \in S |-> states[x].intent.notional]
           Recursion(g) ==
             g = [s \in SUBSET S |->
                    IF s = {} THEN 0
                      ELSE states[Some(s)].intent.notional + g[s \ {Some(s)}]]
           f == CHOOSE g : Recursion(g)
<1>1. PICK g : Sums(g, SUBSET S, w)
  BY SumsExist
<1>2. \E h : Recursion(h)
  <2> DEFINE h == [s \in SUBSET S |-> g[s]]
  <2>1. ASSUME NEW s \in SUBSET S
        PROVE  h[s] = IF s = {} THEN 0
                        ELSE states[Some(s)].intent.notional + h[s \ {Some(s)}]
    <3>1. g[s] = IF s = {} THEN 0 ELSE w[Some(s)] + g[s \ {Some(s)}]
      BY <1>1 DEF Sums
    <3>2. s # {} => Some(s) \in S /\ s \ {Some(s)} \in SUBSET S
      BY SubsetFacts
    <3> QED BY <3>1, <3>2
  <2>2. Recursion(h)
    BY <2>1
  <2> QED BY <2>2
<1>3. Recursion(f)
  BY <1>2, Zenon
<1>4. Worth(states, S) = f[S]
  BY Zenon DEF Worth, MapThenSumSet, MapThenFoldSet, Some
<1>5. Sums(f, SUBSET S, w)
  <2> HIDE DEF f
  <2>1. \A s \in SUBSET S : s # {} => Some(s) \in S
    BY SubsetFacts
  <2> QED BY <1>3, <2>1 DEF Sums
<1> QED BY <1>4, <1>5

(* x joins S, which is worth what it was, and together they are T.          *)
Joins(x, S, T, before, after) ==
  /\ IsFiniteSet(S) /\ x \notin S /\ T = S \cup {x}
  /\ after[x].intent.notional \in Nat
  /\ \A y \in S : /\ before[y].intent.notional \in Nat
                  /\ after[y].intent.notional = before[y].intent.notional

(* One trade more, and its notional is added. *)
LEMMA WorthOfOneMore ==
  ASSUME NEW before, NEW after, NEW S, NEW T, NEW x, Joins(x, S, T, before, after)
  PROVE  /\ Worth(before, S) \in Nat
         /\ Worth(after, T) = Worth(before, S) + after[x].intent.notional
<1> DEFINE v == [y \in T |-> after[y].intent.notional]
           w == [y \in S |-> before[y].intent.notional]
<1> USE DEF Joins
<1>1. IsFiniteSet(T)
  BY FS_AddElement
<1>2. /\ \A y \in T : v[y] \in Nat
      /\ \A y \in S : w[y] = v[y] /\ w[y] \in Nat
  OBVIOUS
<1>3. PICK g : Sums(g, SUBSET T, v) /\ Worth(after, T) = g[T]
  BY <1>1, WorthIsSum
<1>4. PICK h : Sums(h, SUBSET S, w) /\ Worth(before, S) = h[S]
  BY WorthIsSum
<1>5. S \in SUBSET T /\ T \in SUBSET T /\ T \ {x} = S /\ x \in T /\ v[x] = after[x].intent.notional
  OBVIOUS
<1> HIDE DEF v, w, Joins
<1>6. g[T] = v[x] + g[S] /\ g[S] \in Nat
  <2>1. g[T] = v[x] + g[T \ {x}]
    BY <1>1, <1>2, <1>3, <1>5, AnyOrder
  <2>2. g[S] \in Nat
    BY <1>1, <1>2, <1>3, <1>5, SumsAreNat
  <2> QED BY <1>5, <2>1, <2>2
<1>7. h[S] = g[S]
  <2>1. \A y \in S : w[y] = v[y]
    BY <1>2
  <2>2. Sums(g, SUBSET T, v)
    BY <1>3
  <2>3. Sums(h, SUBSET S, w)
    BY <1>4
  <2> QED BY <1>1, <1>5, <2>1, <2>2, <2>3, SameSums
<1> QED BY <1>2, <1>3, <1>4, <1>5, <1>6, <1>7

LEMMA WorthIsKept ==
  ASSUME NEW before, NEW after, NEW S, IsFiniteSet(S),
         \A y \in S : after[y].intent.notional = before[y].intent.notional
  PROVE  Worth(after, S) = Worth(before, S)
<1> DEFINE v == [y \in S |-> after[y].intent.notional]
           w == [y \in S |-> before[y].intent.notional]
<1>2. PICK g : Sums(g, SUBSET S, v) /\ Worth(after, S) = g[S]
  BY WorthIsSum
<1>3. PICK h : Sums(h, SUBSET S, w) /\ Worth(before, S) = h[S]
  BY WorthIsSum
<1>4. S \in SUBSET S /\ \A y \in S : w[y] = v[y]
  OBVIOUS
<1> HIDE DEF v, w
<1>5. h[S] = g[S]
  <2>1. Sums(g, SUBSET S, v)
    BY <1>2
  <2>2. Sums(h, SUBSET S, w)
    BY <1>3
  <2> QED BY <1>4, <2>1, <2>2, SameSums
<1> QED BY <1>2, <1>3, <1>5

-------------------------------------------------------------------------------
OpenIn(states) == {x \in Trades : states[x].status = "open"}

WorthOpen(states) == Worth(states, OpenIn(states))

LEMMA NothingIsWorthNothing == ASSUME NEW states PROVE Worth(states, {}) = 0
<1>1. IsFiniteSet({})
  BY FS_EmptySet
<1>2. PICK g : /\ Sums(g, SUBSET {}, [x \in {} |-> states[x].intent.notional])
               /\ Worth(states, {}) = g[{}]
  BY <1>1, WorthIsSum
<1> QED BY <1>2 DEF Sums

LEMMA OpenTrades ==
  ASSUME NEW states \in [Trades -> TradeState]
  PROVE  /\ IsFiniteSet(OpenIn(states))
         /\ \A x \in OpenIn(states) : states[x].intent \in Intents
<1>1. IsFiniteSet(OpenIn(states))
  BY FS_Subset DEF OpenIn
<1>2. ASSUME NEW x \in OpenIn(states) PROVE states[x].intent \in Intents
  <2>1. PICK i \in Intents : states[x] = Open(i)
    BY SMT DEF OpenIn, TradeState, Fresh, Settled, Refused
  <2> QED BY <2>1 DEF Open
<1> QED BY <1>1, <1>2

(* A trade opens, or, read backwards, closes.                               *)
Opens(x, i, before, after) ==
  /\ before \in [Trades -> TradeState] /\ after \in [Trades -> TradeState]
  /\ x \in Trades /\ before[x].status # "open"
  /\ i \in Intents /\ after[x] = Open(i)
  /\ \A y \in Trades \ {x} : after[y] = before[y]

LEMMA OneMoreOpen ==
  ASSUME NEW before, NEW after, NEW x, NEW i, Opens(x, i, before, after)
  PROVE  /\ WorthOpen(before) \in Nat
         /\ WorthOpen(after) = WorthOpen(before) + i.notional
<1> USE DEF Opens
<1>1. /\ x \notin OpenIn(before)
      /\ OpenIn(after) = OpenIn(before) \cup {x}
  BY DEF OpenIn, Open
<1>2. after[x].intent = i /\ i.notional \in Nat
  BY IntentFacts DEF Open
<1>3. \A y \in OpenIn(before) : /\ before[y].intent.notional \in Nat
                                /\ after[y].intent.notional = before[y].intent.notional
  <2>1. \A y \in OpenIn(before) : before[y].intent.notional \in Nat
    BY OpenTrades, IntentFacts
  <2>2. \A y \in OpenIn(before) : after[y] = before[y]
    BY <1>1 DEF OpenIn
  <2> QED BY <2>1, <2>2
<1>4. IsFiniteSet(OpenIn(before))
  BY OpenTrades
<1>5. Joins(x, OpenIn(before), OpenIn(after), before, after)
  BY <1>1, <1>2, <1>3, <1>4 DEF Joins
<1>6. /\ Worth(before, OpenIn(before)) \in Nat
      /\ Worth(after, OpenIn(after)) =
           Worth(before, OpenIn(before)) + after[x].intent.notional
  BY ONLY <1>5, WorthOfOneMore, SMT
<1> QED BY <1>1, <1>2, <1>6 DEF WorthOpen

LEMMA SameOpen ==
  ASSUME NEW before \in [Trades -> TradeState], NEW after \in [Trades -> TradeState],
         NEW x \in Trades, before[x].status # "open", after[x].status # "open",
         \A y \in Trades \ {x} : after[y] = before[y]
  PROVE  WorthOpen(after) = WorthOpen(before)
<1>1. OpenIn(after) = OpenIn(before)
  BY DEF OpenIn
<1>2. \A y \in OpenIn(before) : after[y].intent.notional = before[y].intent.notional
  BY DEF OpenIn
<1>3. IsFiniteSet(OpenIn(before))
  BY OpenTrades
<1> QED BY <1>1, <1>2, <1>3, WorthIsKept DEF WorthOpen

Tracks == TypeOK /\ (conduct = "careful" => exposure = WorthOpen(trades))

LEMMA InitTracks == Init => Tracks
<1> SUFFICES ASSUME Init PROVE Tracks
  OBVIOUS
<1>1. TypeOK
  BY InitInv DEF IInv
<1>2. OpenIn(trades) = {}
  BY DEF Init, OpenIn, Fresh
<1>3. WorthOpen(trades) = 0
  BY <1>2, NothingIsWorthNothing DEF WorthOpen
<1> QED BY <1>1, <1>3 DEF Tracks, Init

LEMMA NextTracks == Tracks /\ TypeOK' /\ [Next]_vars => Tracks'
<1> SUFFICES ASSUME Tracks, TypeOK', [Next]_vars PROVE Tracks'
  OBVIOUS
<1>0. trades \in [Trades -> TradeState] /\ trades' \in [Trades -> TradeState]
  BY DEF Tracks
<1> USE DEF Tracks
<1>1. CASE Tick
  BY <1>1 DEF Tick
<1>2. ASSUME NEW x \in Trades, Evaluate(x) PROVE Tracks'
  <2>1. PICK i \in Intents : Accept(x, i) \/ Reject(x, i)
    BY <1>2 DEF Evaluate
  <2>2. trades[x].status # "open" /\ conduct' = conduct
    BY <1>2 DEF Evaluate, Fresh
  <2>3. CASE Accept(x, i)
    <3>1. /\ trades'[x] = Open(i) /\ \A y \in Trades \ {x} : trades'[y] = trades[y]
          /\ exposure' = exposure + i.notional
      BY <2>3 DEF Accept
    <3>2. WorthOpen(trades') = WorthOpen(trades) + i.notional
      <4>1. Opens(x, i, trades, trades')
        BY <1>0, <2>2, <3>1 DEF Opens
      <4> QED BY <4>1, OneMoreOpen, Zenon
    <3> QED BY <2>2, <3>1, <3>2
  <2>4. CASE Reject(x, i)
    <3>1. /\ trades'[x].status # "open" /\ \A y \in Trades \ {x} : trades'[y] = trades[y]
          /\ exposure' = exposure
      BY <2>4 DEF Reject, Refused
    <3>2. WorthOpen(trades') = WorthOpen(trades)
      BY <1>0, <2>2, <3>1, SameOpen
    <3> QED BY <2>2, <3>1, <3>2
  <2> QED BY <2>1, <2>3, <2>4
<1>3. ASSUME NEW x \in Trades, Settle(x) PROVE Tracks'
  <2>1. PICK i \in Intents : trades[x] = Open(i)
    BY ONLY <1>0, <1>3, SMT DEF Settle, TradeState, Fresh, Settled, Refused
  <2>2. exposure' = Reduced(i.notional) /\ conduct' = conduct
    BY <1>3, <2>1 DEF Settle, Release, Open
  <2>3. /\ trades'[x].status # "open" /\ \A y \in Trades \ {x} : trades[y] = trades'[y]
    BY <1>3 DEF Settle, Settled
  <2>4. /\ WorthOpen(trades') \in Nat
        /\ WorthOpen(trades) = WorthOpen(trades') + i.notional
    <3>1. Opens(x, i, trades', trades)
      BY <1>0, <2>1, <2>3 DEF Opens
    <3> QED BY <3>1, OneMoreOpen, Zenon
  <2>5. i.notional \in Nat
    BY IntentFacts
  <2> QED BY <2>2, <2>4, <2>5, SMT DEF Reduced
<1>4. CASE CarelessRelease
  BY <1>4 DEF CarelessRelease
<1>5. CASE UNCHANGED vars
  BY <1>5 DEF vars
<1> QED BY <1>1, <1>2, <1>3, <1>4, <1>5 DEF Next

(* README.md and engine.go: while the caller settles every trade once, the  *)
(* exposure the engine tracks is the sum of the open trades' notionals, for *)
(* any number of them, so that sum never exceeds the portfolio limit.       *)
THEOREM ExposureIsWhatIsOpen == Spec => []ExposureIsOpenNotional
<1>1. OpenNotional = WorthOpen(trades)
  BY Zenon DEF OpenNotional, WorthOpen, Worth, OpenIn
<1>2. Tracks => ExposureIsOpenNotional
  BY <1>1 DEF Tracks, ExposureIsOpenNotional
<1>3. Spec => []TypeOK
  BY ExposureIsLimited
<1> QED BY InitTracks, NextTracks, <1>2, <1>3, PTL DEF Spec

===============================================================================
