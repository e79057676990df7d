# TLA+ models of tg-crypto-bot

This directory holds TLA+ models of the trading bot in this repository, the TLC
configurations that check them on small instances, and proofs that TLAPS checks
for every instance. Paths below are relative to the repository's root.
`PROJECT.json` maps every definition to the lines it models and lists runs,
mutants, hazards, findings and theorems.

## 1. The system

A Telegram bot (Go) turns messages into HTTP requests; an API gateway (Go)
authenticates them, limits them and appends an intent to a Redis stream; exec
orchestrators (Rust) read the stream through a consumer group and execute
trades, optionally gated by auto-trade filters that ask a TA service (Go) for
indicator values. A signer, a risk engine, connectors and a data store are
libraries that stand beside this path.

| Component | State it keeps | Operations | Talks to | What is hard |
|---|---|---|---|---|
| Bot, `bot/cmd`, `bot/internal/handlers` | none on disk: the update offset, a goroutine per update | commands, reply | Telegram (poll), API (HTTP with a 10 s timeout) | unordered goroutines, redelivered updates after a restart, a timeout that races the answer |
| API, `api/internal/httpapi`, `jobs`, `auth`, `middleware` | buckets of the rate limiter | `POST /trades`, `POST /actions`, `Publish`, `allow` | Redis (`XADD`) | retried `XADD`s, a lock taken after the clock was read |
| Exec, `exec/src/main.rs`, `filters`, `ta_client.rs` | filter registry (memory), one Redis connection, the entry in hand | `worker_loop`, `handle_intent`, `evaluate` | Redis (`XREADGROUP`, `XACK`), TA service (HTTP, no timeout) | several processes in a group, crashes between read and acknowledgement, a connection that is never reopened, a hanging request |
| TA service, `ta-service` | candle buffers (memory), `ta_candles` (Postgres), WebSocket clients | stream handlers, `GET /rsi`, `/macd`, `/signals`, hub | Binance streams, Postgres | handlers against readers, failed writes, ended streams, restarts |
| Risk engine, `risk/internal/engine` | exposure, cooldowns | `Evaluate`, `Release` | nobody calls it | sequences of calls, boundaries of time and of limits |
| Signer, `signer/src/lib.rs` | wallets, a nonce counter per address | `sign_transaction` | wallets of ethers | a nonce counted under the lock and used after it |
| CEX connector, `connectors/cex` | a socket, a channel | ticker stream, test order | Binance | a goroutine that looks at its context between two messages only |
| Backtest, `ta-service/cmd/backtest` | cash, position, entry price | load, buy, sell | a CSV file | arithmetic at its edges |
| Configuration of exec, `exec/src/config` | none | `load` | environment | all or nothing |
| EVM and Solana connectors, data store, other configuration, telemetry | none that outlives a call | | RPC nodes, Postgres, files | sequential |

What makes each modelled component correct:

- **Stream and orchestrator**: an intent is decided at most once per group, no
  intent disappears without leaving a trace, a decision is final, a trade is
  gated by the newest filter set before it, one member's fault does not stop
  the group.
- **Bot and API**: what the user is told agrees with what is on the stream; a
  user who waits for confirmations gets the order of the messages; nothing
  confirmed comes back behind something later; every message is answered.
- **The whole path**: a confirmed filter setting gates the trades sent after
  it; a submitted command is decided.
- **Rate limiter**: no more than `limit` requests in a window.
- **Risk engine**: tracked exposure is what is really open; cooldowns hold, and
  hold only their own token.
- **Signer**: no nonce is signed twice; gaps come from failures only.
- **Candle feed**: the table follows the buffer, except for failures that were
  logged; a row never goes back; an answer is as fresh as its request.
- **Indicators and backtest**: an indicator is what it is defined to be, at the
  place it is said to be; a decision neither makes nor loses money.
- **Filter text**: a trade passes only if what the user typed holds; whatever
  else was typed fails the trade.
- **WebSocket hub**: no connection is left behind, none waits for another one,
  and the process ends on its signal.
- **Exchange ticker**: it ends with its deadline unless the socket is quiet.
- **Exec configuration**: what the environment sets is in force (it is not).

## 2. Modules

| Module | Models | Run by |
|---|---|---|
| `StreamReply` | `parse_stream`: a pure function on `redis::Value` trees | `MCInputs`, `MCExec` |
| `FilterExpression` | the text of `/autotrade on`, from the bot's fields to `parse_expression` and its outcome | `MCInputs` |
| `Floats` | what a float may be beside a number: NaN and infinity | through `FilterExpression` and `Backtest` |
| `Inputs` | what comes from outside, grown one element at a time: a reply, a text, or a file of `Backtest`; the properties of the first two | `MCInputs` |
| `ExecConfig` | `Config::load` of the orchestrator | `MCConfig` |
| `ExecWorker` | the stream, the group and all exec processes | `MCExec`, `MCLedger` |
| `IntentLedger` | abstract: a log and at most one justified verdict per intent | through `ExecLedger` |
| `ExecLedger` | the refinement mapping from `ExecWorker` to `IntentLedger` | `MCLedger` |
| `Gateway` | users, Telegram, bot and API up to the stream | `MCGateway` |
| `TradingStack` | `Gateway` and `ExecWorker` composed over one `stream` | `MCStack` |
| `RateLimiter` | `allow` of `ratelimit.go` | `MCLimiter` |
| `RiskEngine` | `Evaluate` and `Release` | `MCRisk` |
| `Signer` | `MemoryKeystore::sign_transaction` | `MCSigner` |
| `Indicators` | SMA, EMA, RSI, MACD, Bollinger, ATR | `MCInputs`, through `Backtest` |
| `Backtest` | the backtest, which evaluates `Indicators` on every prefix of a file | `MCInputs` |
| `CandleFeed` | Binance handlers, buffer, table, indicator requests | `MCMarket` |
| `WsHub` | the WebSocket hub and the end of the TA service's process | `MCMarket` |
| `CexTicker` | the exchange ticker's goroutine and its program | `MCMarket` |
| `MarketData` | `CandleFeed`, `WsHub` and `CexTicker` side by side | `MCMarket` |
| `ExecProofs` | proofs about `ExecWorker` and `ExecLedger` | `tlapm` |
| `GatewayProofs`, `RateLimiterProofs`, `RiskProofs`, `SignerProofs` | proofs about the module each is named after | `tlapm` |
| `InputsProofs` | proofs about `Inputs` and the modules it extends: `Backtest` with `Indicators`, `FilterExpression`, `StreamReply` | `tlapm` |
| `StackProofs` | proofs about `TradingStack`, from those about its two parts | `tlapm` |
| `MarketProofs` | proofs about the three parts of `MarketData` | `tlapm` |

`MCMarket` and `MCInputs` check components that share no state: one of them moves
in a behaviour (in `MCMarket` the variable `part` says which), the others keep
their initial states. That is the sum of the components' state spaces and not their product,
and as good, since nothing one does can matter to another.

Definitions marked "Mutant" are not part of a specification: each is a plausible
bug in the definition that follows it, and the property named in
`PROJECT.json` must be violated when it takes that definition's place.

### ExecWorker

`Start`, `Read`, `Handle*`, `Signals`, `Ack` are the phases of `worker_loop`
(`exec/src/main.rs:80-128`); `pc[w]` says which comes next. `Read` moves the
group's position and puts the entry on the reader's pending list, as Redis
does; what the process then does with the reply is `ReplyParses`. A trade that
is not forced and whose principal has a filter waits in `"signals"` for the TA
service with the filter it cloned (`gate[w]`); every other intent is handled in
one step, since it awaits nothing. `Ack` follows whatever `handle_intent`
returned. `Crash` loses everything in memory; `ConnectionLost` happens before
or after Redis served the read, and no action sets `conn` again, because the
code opens its connection once. `effect` is history: it records what each
process did with each entry, with which gate, in which life.

The pending list is per process. Consumer names default to one per process; a
configuration that gives two processes one name would merge their lists, which
changes nothing here since no process reads its list.

The servers for health and metrics are not modelled. `broadcast` is a stub in
the code: reaching it is the outcome `"executed"`. An evaluation allows, blocks
or fails; which of them follows from the text is `FilterExpression`.

### FilterExpression and ExecConfig

A text is a sequence of tokens. `NewFilters` is what bot and orchestrator make
of it without looking at it: the first field is the expression, the second the
interval. `ParseExpression` cuts at the first `<`, else at the first `>`, and
`Compared` parses the threshold before it looks the indicator up, as the code
does; `nan` and `inf` are numerals for Rust's parser. `GatesOnWhatWasTyped`
compares with a definition that speaks of the user's words only.
`OperatorsAreNoWords` keeps `<` and `>` apart from the names of indicators and
from numerals, as the TA service's names and Rust's `parse::<f64>` do.

`Inputs` lets a reply and a text grow from nothing, so that what is checked on
every input of bounded size is a property of a specification, which a theorem
can state for every size. `ServicesAnswerNumbers` says that the TA service's
answers are numbers under known names: they come as JSON, which has no NaN.
`IntentsParsedByShape` compares `parse_stream` with `IntentsAmong`, one pass over
all fields of the reply, in the shape that `parse_stream` walks; in the shape
Redis sends it asks for nothing, whatever the reply holds. `Malformed` is the
data that serde_json does not decode as an intent: `IntentsOf` passes it over,
as the code does without a word.

`ExecConfig` is one operator, `Load`, and an operator who sets variables one by
one.

### Gateway and TradingStack

An update's identity is its position among the messages sent. `Poll` is one
round of the library's `getUpdates`: it confirms what was fetched before and
starts a goroutine per new update. A request is identified by its update and
the life of the bot that sent it, because a redelivered update makes a second
request while the first may still be running in the API. `Publish` covers the
three fates of an `XADD` that takes effect: answered, answer lost and sent
again, answer lost at the last try. `GiveUp` is the client's timeout or a lost
connection. `/rsi`, `/macd` and `/signals` are one command, `query`, which
`Proxy` answers and `Refuse` refuses when the TA service fails or is late.
`Answer` may fail to reach Telegram, which the code only logs (`"unsent"`);
whether it may is the constant `SendFails`. `Commands` says per message what
users may send. `heard[v]` is history: the updates whose confirmation the users
had seen when they sent `v`. So is `lost`: the updates that a restart took, which
Telegram held for confirmed while their goroutine, in whatever life, was not
through. `EveryUpdateAnswered` excuses these only: what is delivered again to the
next life must be answered there.

`TradingStack` instantiates both modules over the same variable `stream`; a
step of one leaves the other's variables alone.

### RateLimiter, RiskEngine, Signer

`Stamp` is the clock reading before the lock, `Allow` everything after it.
`Windows` is Go's truncating division, negative values included. `granted` and
`together` are history: the stamps that were let through, and the most requests
of a client that waited at a time.

`Evaluate` and `Release` are one step each, for they hold the mutex throughout.
Nothing in the repository calls the engine, so the caller is an assumption:
`Settle` releases an accepted trade once with its own intent;
`CarelessRelease` releases any intent at any time and is remembered in
`conduct`. Amounts are natural numbers; the code uses decimals.

`TakeNonce` is the critical section of `sign_transaction`, `Sign` and `Fail`
come later and in any order. `Restart` begins a session with counters at zero,
as `from_keys` does.

### CandleFeed

`Update` is the stream handler up to the buffer, `Upserted` the return of the
write that follows in the same handler; the next update of that symbol waits
for it. A failed write may have taken effect (a cancelled statement), and `Exit`
cuts writes off likewise. `Ask`, `Series` and `Candles` are the three moments of
`getSignals`; `getRSI` and `getMACD` end with `Indicator`. `sort.Slice` is not stable; it is modelled as any arrangement
sorted by start, or none when the slice is sorted already, which is what its
implementation does. Symbols share no state, so the instance has one.

### Indicators and Backtest

Floats are replaced by whole numbers of a unit so small that no division of the
instance leaves a rest (`Unit`, 3888 = 2^4 * 3^5 to a price of 1), so that the
properties can ask for equality; they are stated without division and would
fail if one did leave a rest. What they cannot show is rounding. `Smoothed` is the seed and
recursion that EMA, RSI and ATR have in common. The reference definitions in
`Backtest` share no recursion with the code: a smoothed value is its seed and
each later value at its weight (`WeightedSum`), the RSI is the weighted sum of
all gains as a share of that of all gains and losses, the MACD's signal is the
EMA of the MACDs of shorter and shorter histories. The root in the Bollinger bands is left
out, so their width is compared as a square. Periods are constants, 14, 21, 50
and so on in the code and 2 or 3 in the run: the code's arithmetic does not
depend on them but through the same index expressions.

`Backtest` loads rows one by one, so its states hold every file up to the bound,
and the indicators' properties are evaluated on each. Quantities and cash are
in thousandths, which makes `math.Floor(cash/price*1000)` a whole division.
`BuyForNothing` is the purchase at a price of 0: the quantity is infinite, or
NaN when there is no cash, and neither is refused by `qty <= 0`, so that cash
becomes NaN and the entry price 0. An infinite position is sold again by an RSI
above 70 (`Held`), for a cash that stays NaN (`Proceeds`), and the next purchase
makes the position NaN, which is neither 0 nor above it and ends all trading.
`FullyInvested` and `TradesKeepEquity` say what holds while cash is a number, and
that nothing but a decided row without a price ends that. Rows are in the order of their timestamps (see the divergences).

### WsHub and CexTicker

`Upgrade`, `Register` and `Spawn` are the steps of `Hub.Handle`; `Tick`,
`Written` and `Leave` those of the writer. `Hub.mu` is held across steps by the
broadcast only, so `LockFree` is its negation. A write ends when its peer reads
or the connection is closed or gone; a stalled peer ends nothing. `Panic` is
gorilla/websocket's check for two writes at a time, which is a best effort: it
may fire or not. `Exit` may follow `Signal` at once, because `ListenAndServe`
returns as soon as `Shutdown` is called.

`CexTicker` keeps of a message only that it is there, and whether it decodes is
open until it is read. The select between two messages (`Check`), `ReadMessage`
(`Read`) and the unbuffered send (`HandOff`) are the goroutine's three steps. The
last is the program's receive as well; what the program then prints (`PrintTick`) is
a step of its own, in which the goroutine may check, read and wait to send. That
is why two ticks can be late: one in hand, one read before the check saw the
deadline. `late` counts what is printed after the deadline. The exchange sends
for as long as it likes: only the messages that wait unread are bounded.

## 3. Runs

All bounds are constants: `MaxEntries`, `MaxCrashes`, `MaxDrops`, `MaxUpdates`,
`MaxLives`, `MaxRetries`, `MaxTime`, `MaxSessions`, `MaxRows`, `MaxInbox`,
`MaxLate`, `MaxText`, `MaxReply`, `MaxFields`, the sets `Trades`, `Requests` and `Conns`.
`CHECK_DEADLOCK FALSE` appears in every configuration since every model ends at
its bounds, or may wait for ever for a next message.

| Run | Question | Bounds, and why they are enough |
|---|---|---|
| `inputs` | what does `parse_stream` find in a reply of either shape? does a filter's text gate as typed? are the indicators what they are defined to be, and does the backtest keep its books? | replies of two entries of up to two fields with a value that equals the key `intent`: a window or level error shows with one entry of two fields. That value does not decode, the other one does, so an entry may hold both in either order. Texts of up to five tokens of eight: a comparison with two more tokens before, after or inside it, or with an interval. Every file of up to six of four rows, with a price of 0 among them, and periods of 2 and 3: three or four values after each seed, a MACD with a signal and a further value, three decisions: a purchase at a price of 0 with cash and without, and the sale of an infinite position |
| `exec_group` | is a consumer group of two a correct implementation of the ledger? | three entries (set, clear or set again, trade), one crash, one lost connection: enough for a dead process and a deaf one at once |
| `exec_drain` | what can stall a group? | `DrainSpec`: five entries, two filter settings and three trades they gate, one crash, one lost connection, and a TA service that may not answer: both members can set the filter and hang with a trade left that nobody reads, or be stuck one in each way |
| `gateway` | does what the user hears agree with the stream? | a buy, a bad buy or a query, then a buy or bad usage; two lives, one retry, answers that may not be sent: the retry and the redelivery of one message can each straddle the other message |
| `stack` | does a confirmed filter gate, and is a submitted command decided? | a setting, a setting or a buy, a buy, with any answers and in any order of goroutines; no retry (with one, `NoStaleReplay` has it in `gateway`) |
| `limiter` | how many requests pass in a window, when they overtake each other? | two clients, two handlers, limit 2, window 2, clock to 4: two whole refills, and a stamp that is held while the window ends; 5 grants in a window are reached, which is the bound for two requests at a time |
| `risk` | exposure and cooldowns | four trades, three tokens (cooldown, no cooldown, not listed), clock to 4, cooldown 2 |
| `signer` | is a nonce signed twice, or lost? | four requests, two aliases of one key and a third key, an unknown alias, two sessions |
| `market` | buffer, table and answers; hub; ticker | four updates through a buffer of two, every split into candles, two lives. Two connections, each slow or gone at any moment. An exchange that never stops sending, two messages waiting unread, late ticks counted to three |
| `exec_resp2` | violation: the reply as Redis sends it | one process, no faults |
| `limiter_race` | violation: two handlers of one client | limit 2, window 3, clock to 7: stamps 2, 0, 3, 3 get through, three of them in the window from 1 to 4 |
| `exec_config` | violation: part of the environment is set | eight variables, three words |

Symmetry is used in `limiter`, `risk` and `signer`, which check no liveness;
the sets permuted are model values that no definition tells apart.

All runs of the orchestrator except `exec_resp2` let `parse_stream` find the
entry. They say what the orchestrator does once its parser reads the replies of
Redis; with the parser as it is, no intent is handled (finding 1 below).

### Fairness

`FairSpec` of `ExecWorker` asks for weak fairness of `Start` (a supervisor
restarts the process) and of the loop's own steps, `Signals` included. That the
TA service answers is not in the code, since `TAClient` sets no timeout;
`HangFairness` drops it, and `exec_drain` uses that. `stack` assumes an
answering TA service, and no crash or lost connection, because a crashed
process's entry is never taken up again. `Gateway!FairSpec` asks that the
library polls, that goroutines run, and that a wait ends by the answer or by
the client's timeout; nothing is assumed of the API, of users or of restarts.
`WsHub` asks that goroutines that can run do and that `main` returns; a peer may
stall for ever, and whether the broadcast goes on is open. `CexTicker` asks that
the deadline comes and that goroutine and program run; nothing is asked of the
exchange. No strong fairness is used.

### Findings

1. `exec_resp2`, `parse_stream` (`exec/src/main.rs:130-171`) walks one level
   too few: XREADGROUP answers stream-name/entries pairs, and every entry is
   skipped, unhandled and unacknowledged.
2. `limiter_race`, `allow` reads the clock before taking the lock: an older
   stamp may set `last` back, and the window it reopens is paid twice, so that
   more than `limit` requests get through whose clock readings lie in one
   window. How much
   that can give away is bounded by the most requests a client ever had here at
   a time (`LimitPerCaller`, run `limiter`): with `n` of them a window sees at
   most `n * limit + n - 1`, which is reached for two.
3. `exec_config`, `Config::load` (`exec/src/config/mod.rs:36`) falls back to all
   defaults when one variable is missing or malformed.
   `ops/docker-compose.yml:48` sets `TG_TRADER_EXEC__REDIS_URL` and two more of
   the eight, to no effect.

Other divergences met while modelling, which have no run of their own:

- `docs/threat-model.md:21` asks for a "unique consumer group per instance to
  avoid duplicate execution". A group has its own position in the stream, so
  two groups execute every intent twice; one group with unique consumers is
  what avoids it (`AtMostOnce` is per group).
- The registry of filters is memory of one process. After a restart, and for
  the other members of a group, a filter the user was told is enabled does not
  gate. `NewestFilterGates` is therefore about one process and one life, and
  `ConfirmedFilterGates` is checked with one process that does not restart.
- `/mode` is confirmed with "Mode set to" (`handlers.go:310`), but
  `handle_action` only logs it: `HandleOther` changes nothing.
- "Trade rejected" (`handlers.go:256`) is also the answer to a timeout, after
  which the intent may still be published (`GiveUp`, then `Publish`).
- `docs/runbook.md:19` relies on API idempotency; `Publish` draws a new id per
  request and a redelivered update becomes a second intent.
- A client that keeps a steady rate below the limit is refused in the end,
  since every call moves `last` and only whole windows refill.
- A stamp older than `last` by a whole window makes `elapsed` negative and takes
  tokens away (`ratelimit.go:60-62`): a client that never exceeded the limit can
  be refused for that.
- The candle buffer holds an entry per update, not per candle, and indicators
  count updates as periods.
- A Binance stream that ended is not opened again, and on shutdown its
  goroutine sends on the library's closed channel.
- `/autotrade on rsi < 30` is confirmed as "enabled: rsi @ <"
  (`handlers.go:391-399`); each trade of the principal then fails.
  `GatesOnWhatWasTyped` holds: such a text never lets a trade through. A
  threshold `nan` blocks every trade.
- Answers are sent in Telegram's Markdown mode (`handlers.go:406`); a text with
  a single underscore, such as a filter on `macd_signal`, can be refused, and
  the user then hears nothing although the command took effect (`"unsent"`).
- The shutdown message of the WebSocket hub (`ta-service/cmd/main.go:66`) may be
  cut off, or panic, or not be sent at all, since `main` does not wait for it:
  `Exit` may come before `BroadcastBegins` or during the broadcast, and so may
  `Panic`. No property asks for the message.
- A client that goes away is noticed at a failing write only, since nobody reads
  the connection; one that stalls keeps its entry and its goroutine for ever.
- A flat series has the RSI 100 (`indicators.go:172-176`), as if it only rose.
- The backtest decides in the order of the file, while `series` sorts by
  timestamp: with an unordered file the RSI is not that of the row decided. An
  empty file panics at `rows[1:]` (`backtest/main.go:90`), and a value that does
  not parse is 0, at which price a purchase turns the account into infinity and
  NaN (`backtest/main.go:45-51`) and the final cash is reported as NaN.
- A field `intent` that does not decode is skipped without a log line
  (`exec/src/main.rs:153-155`), and its entry is neither handled nor
  acknowledged.
- A ticker price that does not parse is delivered as 0
  (`connectors/cex/internal/binance/binance.go:75`), and `PlaceOrder` sends no
  timestamp and no signature.

## 4. Proofs

TLAPS proves, for all values of the constants that meet the named assumptions:

| Module | Theorem | Says | Argument |
|---|---|---|---|
| `ExecProofs` | `TypeCorrect`, `GroupDecidesAtMostOnce`, `LossIsVisible` | `TypeOK`, `AtMostOnce`, `NothingLostSilently` | `IInv == TypeOK /\ Custody`. `AtMostOnce` is not inductive: a second process could hold the entry. `Custody` says that an entry decided or pending anywhere lies behind the group's position, that no two members hold the same entry, and that the entry in hand is pending and newer than all decided ones |
| | `DecisionsAreFinal` | `DecisionIsFinal` | from `IInv`: the entry in hand is undecided |
| | `TradesAreGatedByTheNewestFilter` | `NewestFilterGates` | `FInv` adds that the registry and a cloned gate are what the newest applied filter entry of this life left, and that lives are numbered upwards |
| | `GroupImplementsLedger` | `ImplementsLedger` | `LInv` adds to the two invariants that applied entries are enabled filters; members decide different entries, so a ledger verdict is the effect of one member, and each step of the group writes one verdict, appends one intent or stutters |
| | `AloneLeavesNoGap` | a process alone in its group that has not crashed decides every entry before a later one | `InOrder`: all entries up to the group's position are decided or in hand, and a reply that was lost, or that did not parse, was the last thing the process read |
| `GatewayProofs` | `EntriesAreIntents`, `SubmittedMeansPublished`, `ConfirmedKeepTheirOrder`, `NothingIsReplayed` | `TypeOK`, `SubmittedIsPublished`, `ConfirmedComesFirst`, `NoStaleReplay` | `GatewayInv`: nothing is known of a message that was not sent, a request whose `XADD` was answered has an entry, users heard only what they were told, and in the bot's first life a message has one request, which is through once it is confirmed. The last is what `NoStaleReplay` needs: a request still under way could publish again |
| | `OneEntryPerTry` | the stream has at most `MaxUpdates * MaxLives * (MaxRetries + 1)` entries | the entries can be numbered by message, life and try without repetition, which is an injection into a finite set |
| `StackProofs` | `StackImplementsLedger` | the path from the user on implements the ledger | a step of the stack is a step of `ExecWorker`, or leaves its variables alone but for an entry appended by the gateway, which is its `Publish`; the stream is short enough by `OneEntryPerTry` |
| | `ConfirmedFilterGatesTrades` | `ConfirmedFilterGates`, for one process in each group and both sides in their first life | from `ConfirmedComesFirst` (the setting's entry lies before the trade's), `AloneLeavesNoGap` (it was decided before) and `NewestFilterGates`; any later setting was confirmed before it, and has no entry behind it by `NoStaleReplay` |
| `RateLimiterProofs` | `LimiterTypes` | `TypeOK`, stamps out of order included | `RefillInt`: a refill may take tokens away |
| | `GrantsAreSpread` | `LimitPerWindow`, for any number of handlers at once whose calls on a bucket come in the order of their stamps (`InOrder`) | the newest `Limit - tokens` grants of a bucket may lie in the window that began at the last refill, all other grants are spread, any `Limit + 1` in a row over a whole window; so none holds more than `Limit` |
| | `GrantsPerCaller` | `LimitPerCaller`, for any number of handlers and any order of their stamps | `BudgetInv`, per client and window: while the window lasts, each waiting request with an older stamp is worth one more refill of the bucket, and is spent when it calls; once the window is over, every one that holds a stamp from it may still add one grant |
| `RiskProofs` | `ExposureIsLimited`, `CooldownsHold`, `RefusalsAreOwn` | `TypeOK`, `CooldownSpacing`, `RefusedForItsOwnToken` | the cooldown entry is the newest accepted trade plus the cooldown, or absent |
| | `ExposureIsWhatIsOpen` | `ExposureIsOpenNotional`, for any finite set of trades | `Tracks`: exposure is the sum over the open trades, which the accepted or settled trade joins or leaves (`OneMoreOpen`). That is induction on the size of a set, see below |
| `SignerProofs` | `SignerTypes`, `NoncesAreSpentOnce`, `GapsComeFromFailures` | `TypeOK`, `NonceUsedOnce`, `GapsOnlyFromFailures` | nonces signed and in hand lie below the counter and are distinct |
| `MarketProofs` | `FeedIsTyped`, `TableFollowsBuffer`, `AnswersKeepUp`, `RowsOnlyAdvance` | `TypeOK`, `RowsKeepUp`, `AnswersAreFresh`, `RowsNeverGoBack` | updates of a symbol are numbered in the order of their candles, the one being written is the newest, and the buffer ends with it; a sorted copy ends with what the buffer ended with |
| | `NobodyIsOrphaned` | `NoOrphans` | a connection is registered once, before it gets its only writer, so none can be registered when its writer is through |
| | `UpNeverPanics` | `PanicsOnlyWhileStopping` | while the service is up the broadcast has not begun |
| | `LateTicksAreFew` | `TwoLateTicksAtMost`, for an exchange that never stops | after the deadline what is late, in the program's hand or past the goroutine's check is two ticks at most |
| `InputsProofs` | `AllTheCash`, `EquityIsKept` | `FullyInvested`, `TradesKeepEquity` | `LotsAreAffordable`: a quantity is a rounded-down quotient, so it is paid for and leaves less than one lot, whatever the indicators say; a cash that is no number came from a row without a price (`StaysLost`) |
| | `MacdIsAligned` | `MacdLinesAreAligned`, for all positive periods | `AverageOfPast`: a moving average at a place depends on nothing after it, so the defined part of the MACD line is the sequence of MACDs of shorter histories |
| | `RsiSharesMovement` | `RsiIsShareOfGains`, for all positive periods | `AverageIsShare`: both averages are their weighted sums times one factor, which cancels in the share (`StrengthIsShare`); they are not negative (`ExactIsNat`) |
| | `AveragesAreSums` | `AveragesAreWeighted`, for all positive periods | a running window sum is the difference of two sums from the start, so it never drifts; a smoothed value times its weight is what the step before was, times its own, and the new value (`TermsStep`), because each division has a multiple of its divisor before it |
| | `FiltersGateAsTyped` | `GatesOnWhatWasTyped`, for texts of every length and all signals | `FieldsAreWords`: a field is a run of tokens without a space, and none is empty; `ReadsOneCut`: an expression is read at one cut, the first `<` or else the first `>`, and both sides are single words exactly if the word typed is a comparison |
| | `RepliesAreParsed` | `IntentsParsedByShape`, for replies of every length and any data that does not decode | `EntryIsParsed`: the chunks of two of an entry are its fields (`PairsFlatten`); `IntentsJoin`: the intents of joined fields are the joined intents, so entries can be parsed one by one; `PairHoldsNoEntry`: in a pair of name and entries nothing has the shape of an entry |

Induction over data. The sum in `ExposureIsOpenNotional`, the moving averages,
the fields of a text and flattened sequences are recursive functions, of which the provers know nothing but the defining
equation, and not even that until some function is known to meet it. The lemma
`Inductive` gets induction over the natural numbers from the least element of
a set (`WFMin` of the library, which takes no operator as a parameter); with it
`SumsExist`, `AveragesExist` and `RecursionExists` show that the functions exist, `AnyOrder` that
a sum does not depend on the order in which `CHOOSE` takes its terms, and
`SamePast` that an average depends on its past only.

Assumptions: `ExecAssumption`, `GatewayAssumption`, `StackAssumption`,
`LimiterAssumption`, `RiskAssumption`, `SignerAssumption`, `FeedAssumption`,
`OperatorsAreNoWords`, `FloatsAssumption` and `ServicesAnswerNumbers`, which TLC evaluates in the
runs. `RiskAssumption` has a finite set of trades, since
a sum over an infinite one means nothing, and `LimiterAssumption` a finite set
of handlers, since `LimitPerCaller` counts them. Some theorems have hypotheses of their
own:

- `GrantsAreSpread` supposes `InOrder`: whatever handlers run at once, the calls
  on one bucket come in the order of the clock readings. `limiter_race` shows
  that it is needed.
- `ConfirmedFilterGatesTrades` supposes one orchestrator in each group, which
  has not crashed, and a bot that has not restarted. Filters live in the memory
  of one process: without these hypotheses the property is false, and the
  divergences above say so.
- The theorems about the account suppose natural numbers for the initial
  cash and the warm-up, and `Priced`: no row has a negative price, which
  `loadCSV` does not check. A price of 0 is among them.
- `RsiSharesMovement` supposes closes that are numbers and `NoRounding`: the unit
  can be divided by the period once per smoothed value, as that of the run can.
  Floats are exact numbers here, so this says that the model computes what it
  stands for.
- `AveragesAreSums` supposes the same of its own divisions
  (`NoRoundingInAverages`), files that may be as long as the periods of EMA and
  ATR, prices that are numbers and rows whose low is not above their high. The
  run's instance meets all of it: 3888 can be halved or divided by three as
  often as its averages need.
- `RepliesAreParsed` supposes only that the bound `MaxFields` is a number;
  `FiltersGateAsTyped` supposes nothing of its own.

Every invariant and action property that a passing run checks is the property
of a theorem. Only model-checked: all liveness (`EveryUpdateAnswered`,
`SubmittedIsDecided`, `StallsOnlyTogether`, `SlowClientsHurtThemselves`,
`EndsUnlessQuiet`), which the prover does not reach under fairness. The proofs
end where the models do: rounding of floats, and what is listed in section 5.

## 5. Not modelled

- Data store: one SQL insert that nothing calls. EVM and Solana connectors: one
  RPC call per operation and no state. File keystore: it reads a file, and its
  signing is not implemented.
- Configuration other than the orchestrator's, telemetry, health endpoints: I/O
  at start-up and constant answers. The configuration's values are constants of
  the modules.
- The end of the API's `main` has no action of its own: what it does to a
  request is `GiveUp` in `Gateway`, with an `XADD` that took effect or did not.
- `ta-service/rustlib`: not linked by this build; the Uniswap bridge in its
  place emits nothing, so `runUniswap` only waits for the end.
- Calls that take effect after their failure was reported: an `XADD` that lands
  behind the answer to its own retry, a write to `ta_candles` that lands after
  the handler logged it as failed and went on.
- The interval in the TA client's URL, which is not escaped
  (`exec/src/ta_client.rs:34-37`): an interval with `&` or `#` asks something else.
- Rounding: floats are exact numbers in `Indicators`; slippage in basis points is
  left out.
- The exchange's order endpoint: a request without state on this side.

## 6. Plan

Done, in the order of importance: the orchestrator and its ledger, the gateway,
the whole path, limiter, risk engine, signer, candle feed, filter texts, the
orchestrator's configuration, WebSocket hub, indicators and backtest, exchange
ticker. What is left of the system is listed under "Not modelled".

The safety theorems planned are proved. One that suggests itself,
`ConfirmedFilterGates` with restarts of the bot, should not hold: an update is
delivered again to the next life, while the request of the earlier one may still
publish, so a confirmed setting can come a second time, behind a later one.
`NoStaleReplay` speaks of the first life for that reason. No run shows this.

## 7. Running

```
tlc -workers 2 -config exec_group.cfg MCLedger    # any run of PROJECT.json
tlapm ExecProofs.tla                              # any *Proofs module
```
