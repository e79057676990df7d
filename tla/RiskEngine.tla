------------------------------- MODULE RiskEngine -------------------------------
(***************************************************************************)
(* The risk engine (risk/internal/engine/engine.go): one mutex around      *)
(* Evaluate and Release, so each is one step.  A trade is its token, its   *)
(* notional (size times price) and its slippage; the engine never looks at *)
(* the side and keeps no record of the trades it let through.              *)
(*                                                                         *)
(* Nothing in the repository calls the engine.  The caller modelled here   *)
(* settles an accepted trade once, with the intent it was evaluated with,  *)
(* or carelessly releases an intent that is no open trade's.               *)
(***************************************************************************)
EXTENDS Naturals, Sequences, FiniteSetsExt

CONSTANTS
  Trades,        \* trades ever evaluated; a bound as well
  Tokens,        \* tokens they are in
  Intents,       \* records [token, notional, slippage]
  limits,        \* e.limits: listed token -> [notional, slippage, cooldown]
  MaxPortfolio,  \* e.maxPortfolio
  MaxTime        \* bound on the clock, in seconds

Limits == [notional : Nat, slippage : Nat, cooldown : Nat]

ASSUME RiskAssumption ==
  /\ IsFiniteSet(Trades)
  /\ Intents \subseteq [token : Tokens, notional : Nat, slippage : Nat]
  /\ \A t \in DOMAIN limits : t \in Tokens /\ limits[t] \in Limits
  /\ MaxPortfolio \in Nat /\ MaxTime \in Nat

VARIABLES
  now,        \* the clock
  exposure,   \* e.exposure
  until,      \* e.cooldownState, 0 for no entry
  trades,     \* per trade: its intent, or where it stands (history)
  accepted,   \* per token: when trades were let through (history)
  conduct     \* whether the caller ever released an intent at will (history)

vars == <<now, exposure, until, trades, accepted, conduct>>

Fresh   == [status |-> "new"]
Settled == [status |-> "settled"]
Open(i)    == [status |-> "open", intent |-> i]
Refused(i) == [status |-> "refused", intent |-> i]
TradeState == {Fresh, Settled} \cup {Open(i) : i \in Intents} \cup {Refused(i) : i \in Intents}

TypeOK ==
  /\ now \in 0 .. MaxTime
  /\ exposure \in 0 .. MaxPortfolio
  /\ until \in [Tokens -> Nat]
  /\ trades \in [Trades -> TradeState]
  /\ accepted \in [Tokens -> Seq(0 .. MaxTime)]
  /\ conduct \in {"careful", "careless"}

Init ==
  /\ now = 0 /\ exposure = 0 /\ conduct = "careful"
  /\ until = [t \in Tokens |-> 0]
  /\ trades = [x \in Trades |-> Fresh]
  /\ accepted = [t \in Tokens |-> <<>>]

Tick ==
  /\ now < MaxTime
  /\ now' = now + 1
  /\ UNCHANGED <<exposure, until, trades, accepted, conduct>>

(* Mutant: the portfolio limit looks at the trade alone. *)
AllowedAlone(i) ==
  /\ i.notional <= MaxPortfolio
  /\ i.token \in DOMAIN limits
  /\ i.notional <= limits[i.token].notional
  /\ i.slippage <= limits[i.token].slippage
  /\ now >= until[i.token]

(* Every check of Evaluate; their order decides nothing. *)
Allowed(i) ==
  /\ exposure + i.notional <= MaxPortfolio
  /\ i.token \in DOMAIN limits
  /\ i.notional <= limits[i.token].notional
  /\ i.slippage <= limits[i.token].slippage
  /\ now >= until[i.token]

(* Mutant: the exposure is set, not added to. *)
AcceptSets(x, i) ==
  /\ Allowed(i)
  /\ until' = IF limits[i.token].cooldown > 0
                THEN [until EXCEPT ![i.token] = now + limits[i.token].cooldown]
                ELSE until
  /\ exposure' = i.notional
  /\ trades' = [trades EXCEPT ![x] = Open(i)]
  /\ accepted' = [accepted EXCEPT ![i.token] = Append(@, now)]

(* Mutant: one cooldown for all tokens. *)
AcceptCoolsAll(x, i) ==
  /\ Allowed(i)
  /\ until' = IF limits[i.token].cooldown > 0
                THEN [t \in Tokens |-> now + limits[i.token].cooldown]
                ELSE until
  /\ exposure' = exposure + i.notional
  /\ trades' = [trades EXCEPT ![x] = Open(i)]
  /\ accepted' = [accepted EXCEPT ![i.token] = Append(@, now)]

Accept(x, i) ==
  /\ Allowed(i)
  /\ until' = IF limits[i.token].cooldown > 0
                THEN [until EXCEPT ![i.token] = now + limits[i.token].cooldown]
                ELSE until
  /\ exposure' = exposure + i.notional
  /\ trades' = [trades EXCEPT ![x] = Open(i)]
  /\ accepted' = [accepted EXCEPT ![i.token] = Append(@, now)]

Reject(x, i) ==
  /\ ~Allowed(i)
  /\ trades' = [trades EXCEPT ![x] = Refused(i)]
  /\ UNCHANGED <<exposure, until, accepted>>

Evaluate(x) ==
  /\ trades[x] = Fresh
  /\ \E i \in Intents : Accept(x, i) \/ Reject(x, i)
  /\ UNCHANGED <<now, conduct>>

(* e.exposure.Sub, floored at zero. *)
Reduced(amount) == IF amount >= exposure THEN 0 ELSE exposure - amount

(* Mutant: a release ends the cooldown. *)
ReleaseCools(i) ==
  /\ exposure' = Reduced(i.notional)
  /\ until' = [until EXCEPT ![i.token] = 0]
  /\ UNCHANGED <<now, accepted>>

Release(i) ==
  /\ exposure' = Reduced(i.notional)
  /\ UNCHANGED <<now, until, accepted>>

Settle(x) ==
  /\ trades[x].status = "open"
  /\ Release(trades[x].intent)
  /\ trades' = [trades EXCEPT ![x] = Settled]
  /\ UNCHANGED conduct

CarelessRelease ==
  /\ \E i \in Intents : Release(i)
  /\ conduct' = "careless"
  /\ UNCHANGED trades

Next == \/ Tick
        \/ \E x \in Trades : Evaluate(x) \/ Settle(x)
        \/ CarelessRelease

Spec == Init /\ [][Next]_vars
-------------------------------------------------------------------------------
(* What is really at risk: the open trades. *)
OpenNotional ==
  MapThenSumSet(LAMBDA x : trades[x].intent.notional,
                {x \in Trades : trades[x].status = "open"})

(* README.md: the engine blocks trades exceeding the global limit.  While  *)
(* the caller settles every trade once, the exposure the engine tracks is  *)
(* the sum of the open trades, so that sum never exceeds the portfolio     *)
(* limit; no release leaks or is lost in the floor at zero.                *)
ExposureIsOpenNotional ==
  conduct = "careful" => exposure = OpenNotional /\ OpenNotional <= MaxPortfolio

(* Two trades of a token let through are a whole cooldown apart, whatever  *)
(* was refused or released between them.                                   *)
CooldownSpacing ==
  \A t \in DOMAIN limits : \A k \in 1 .. Len(accepted[t]) - 1 :
    accepted[t][k + 1] - accepted[t][k] >= limits[t].cooldown

(* A token's cooldown holds only that token, and only while it lasts: an   *)
(* intent is refused because it breaks a limit or because a trade of its   *)
(* own token was let through less than a cooldown ago, never for anything  *)
(* that happened to another token or was refused.                          *)
RefusedForItsOwnToken ==
  [][\A x \in Trades : \A i \in Intents :
       trades[x] = Fresh /\ trades'[x] = Refused(i) =>
         \/ i.token \notin DOMAIN limits
         \/ i.notional > limits[i.token].notional
         \/ i.slippage > limits[i.token].slippage
         \/ exposure + i.notional > MaxPortfolio
         \/ \E k \in DOMAIN accepted[i.token] :
              now - accepted[i.token][k] < limits[i.token].cooldown]_vars
===============================================================================
