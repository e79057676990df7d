------------------------------- MODULE CandleFeed -------------------------------
(***************************************************************************)
(* The TA service's candles (ta-service/internal/candles/collector.go):    *)
(* one Binance stream per symbol, whose handler adds an update to the      *)
(* in-memory buffer and then writes it to Postgres (storage/pg.go), and    *)
(* the HTTP handlers (server/http.go, indicators/service.go), which read   *)
(* the buffer, GET /signals twice.  An update of a symbol is its position  *)
(* among those the service ever received for it; several updates are of    *)
(* one candle.                                                             *)
(*                                                                         *)
(* The Binance client is external: it calls the handler of a stream for    *)
(* one update after another, in the order of the candles' starts, and does *)
(* not open a stream again when its socket fails.                          *)
(***************************************************************************)
EXTENDS Naturals, SequencesExt

CONSTANTS
  Symbols,     \* cfg.BinanceSymbols
  Readers,     \* HTTP handlers that answer with indicators
  Limit,       \* cfg.CandleLimit
  MaxUpdates,  \* bound: updates received per symbol
  MaxLives     \* bound: starts of the service

ASSUME FeedAssumption ==
  /\ Limit \in Nat \ {0} /\ MaxUpdates \in Nat /\ MaxLives \in Nat

VARIABLES
  service,   \* the process: down, up, or stopping (its context is cancelled)
  life,      \* how often it was started
  link,      \* per symbol: its stream
  received,  \* per symbol: the start of every update received (history)
  buffer,    \* per symbol: Buffer.storage
  writing,   \* per symbol: the updates whose UpsertCandle is under way
  table,     \* ta_candles: per symbol and start, the update in the row
  failed,    \* per symbol: updates whose write failed or was cut off (history)
  reader     \* per HTTP handler: what it has read

vars == <<service, life, link, received, buffer, writing, table, failed, reader>>

Updates == 1 .. MaxUpdates
Starts  == 1 .. MaxUpdates
NoRead  == [step |-> "idle"]

TypeOK ==
  /\ service \in {"down", "up", "stopping"} /\ life \in 0 .. MaxLives
  /\ link \in [Symbols -> {"open", "ended"}]
  /\ \A s \in Symbols :
       /\ received[s] \in BoundedSeq(Starts, MaxUpdates)
       /\ buffer[s] \in BoundedSeq(Updates, Limit)
       /\ writing[s] \subseteq DOMAIN received[s]
       /\ failed[s] \subseteq DOMAIN received[s]
       /\ \A x \in Starts : table[s][x] = 0 \/ received[s][table[s][x]] = x
  /\ \A r \in Readers : reader[r].step \in {"idle", "asked", "value", "signals", "done"}

Init ==
  /\ service = "down" /\ life = 0
  /\ link = [s \in Symbols |-> "ended"]
  /\ received = [s \in Symbols |-> <<>>]
  /\ buffer = [s \in Symbols |-> <<>>]
  /\ writing = [s \in Symbols |-> {}]
  /\ table = [s \in Symbols |-> [x \in Starts |-> 0]]
  /\ failed = [s \in Symbols |-> {}]
  /\ reader = [r \in Readers |-> NoRead]

(* main and Service.Start: an empty buffer, a stream per symbol.  Opening a *)
(* stream may fail; the table is not read (LoadCandles has no caller).      *)
Start ==
  /\ service = "down" /\ life < MaxLives
  /\ service' = "up" /\ life' = life + 1
  /\ link' \in [Symbols -> {"open", "ended"}]
  /\ UNCHANGED <<received, buffer, writing, table, failed, reader>>

(* Mutant: no eviction. *)
AddedForever(arr, update) == Append(arr, update)

(* Mutant: the newest value is evicted. *)
AddedUntilFull(arr, update) ==
  IF Len(arr) = Limit THEN arr ELSE Append(arr, update)

(* Buffer.Add *)
Added(arr, update) ==
  LET all == Append(arr, update)
  IN IF Len(all) > Limit THEN SubSeq(all, Len(all) - Limit + 1, Len(all)) ELSE all

(* Mutant: the handler writes in a goroutine of its own. *)
UpdateSpawns(s) ==
  /\ service # "down" /\ link[s] = "open"
  /\ Len(received[s]) < MaxUpdates
  /\ LET i == Len(received[s]) + 1
         newest == IF i = 1 THEN 1 ELSE Last(received[s])
     IN /\ \E x \in {newest, newest + 1} \cap Starts :
             received' = [received EXCEPT ![s] = Append(@, x)]
        /\ buffer' = [buffer EXCEPT ![s] = Added(@, i)]
        /\ writing' = [writing EXCEPT ![s] = @ \cup {i}]
  /\ UNCHANGED <<service, life, link, table, failed, reader>>

(* The handler runs for an update of the newest candle, or of the next one. *)
Update(s) ==
  /\ service # "down" /\ link[s] = "open" /\ writing[s] = {}
  /\ Len(received[s]) < MaxUpdates
  /\ LET i == Len(received[s]) + 1
         newest == IF i = 1 THEN 1 ELSE Last(received[s])
     IN /\ \E x \in {newest, newest + 1} \cap Starts :
             received' = [received EXCEPT ![s] = Append(@, x)]
        /\ buffer' = [buffer EXCEPT ![s] = Added(@, i)]
        /\ writing' = [writing EXCEPT ![s] = @ \cup {i}]
  /\ UNCHANGED <<service, life, link, table, failed, reader>>

(* Mutant: ON CONFLICT DO NOTHING. *)
RowKept(s, i) ==
  table' = [table EXCEPT ![s][received[s][i]] = IF @ = 0 THEN i ELSE @]

(* INSERT ... ON CONFLICT DO UPDATE *)
Row(s, i) == table' = [table EXCEPT ![s][received[s][i]] = i]

(* UpsertCandle returns.  An error is logged; the statement may have taken  *)
(* effect all the same.  With the context cancelled it is always an error.  *)
Upserted(s) ==
  /\ \E i \in writing[s] :
       /\ writing' = [writing EXCEPT ![s] = @ \ {i}]
       /\ \/ service = "up" /\ Row(s, i) /\ UNCHANGED failed
          \/ /\ Row(s, i) \/ UNCHANGED table
             /\ failed' = [failed EXCEPT ![s] = @ \cup {i}]
  /\ UNCHANGED <<service, life, link, received, buffer, reader>>

(* The socket fails: the goroutine of the symbol only waits for ctx.Done.   *)
StreamEnds(s) ==
  /\ service # "down" /\ link[s] = "open" /\ writing[s] = {}
  /\ link' = [link EXCEPT ![s] = "ended"]
  /\ UNCHANGED <<service, life, received, buffer, writing, table, failed, reader>>

(* A GET of an indicator or of the signals of a pair arrives. *)
Ask(r) ==
  /\ service = "up" /\ reader[r].step \in {"idle", "value", "done"}
  /\ \E s \in Symbols : reader' = [reader EXCEPT ![r] =
       [step |-> "asked", symbol |-> s, newest |-> Len(received[s])]]
  /\ UNCHANGED <<service, life, link, received, buffer, writing, table, failed>>

Sorted(s, q) == \A j, k \in DOMAIN q : j < k => received[s][q[j]] <= received[s][q[k]]

(* sort.Slice by the start: not stable, but it leaves a sorted slice alone. *)
Sorts(s, q) ==
  IF Sorted(s, q) THEN {q}
    ELSE {p \in SetToAllKPermutations(ToSet(q)) : Len(p) = Len(q) /\ Sorted(s, p)}

(* A copy of the buffer, by start; none is an error 400.  The series stands *)
(* for the values computed from it; for how many indicators it is long      *)
(* enough is left to Indicators.                                            *)
Computed(r, step) ==
  /\ service # "down" /\ reader[r].step = "asked"
  /\ LET s == reader[r].symbol
     IN IF buffer[s] = <<>>
          THEN reader' = [reader EXCEPT ![r] = NoRead]
          ELSE \E q \in Sorts(s, buffer[s]) : reader' = [reader EXCEPT ![r] =
                 [step |-> step, symbol |-> s, newest |-> @.newest, series |-> q]]
  /\ UNCHANGED <<service, life, link, received, buffer, writing, table, failed>>

(* getRSI, getMACD: the value is the answer. *)
Indicator(r) == Computed(r, "value")

(* getSignals *)
Series(r) == Computed(r, "signals")

(* getSignals reads the buffer again for the candles it sends along.        *)
Candles(r) ==
  /\ service # "down" /\ reader[r].step = "signals"
  /\ reader' = [reader EXCEPT ![r] =
       [step |-> "done", symbol |-> @.symbol, newest |-> @.newest,
        series |-> @.series, candles |-> buffer[reader[r].symbol]]]
  /\ UNCHANGED <<service, life, link, received, buffer, writing, table, failed>>

(* SIGTERM cancels the context. *)
Stop ==
  /\ service = "up"
  /\ service' = "stopping"
  /\ UNCHANGED <<life, link, received, buffer, writing, table, failed, reader>>

(* main returns after Stop, or the process is killed: requests and writes   *)
(* are cut off, a write before or after it took effect.                     *)
Exit ==
  /\ service # "down"
  /\ service' = "down"
  /\ link' = [s \in Symbols |-> "ended"]
  /\ writing' = [s \in Symbols |-> {}]
  /\ failed' = [s \in Symbols |-> failed[s] \cup writing[s]]
  /\ \E done \in SUBSET Symbols :
       table' = [s \in Symbols |-> [x \in Starts |->
         IF s \in done /\ \E i \in writing[s] : received[s][i] = x
           THEN CHOOSE i \in writing[s] : received[s][i] = x
           ELSE table[s][x]]]
  /\ buffer' = [s \in Symbols |-> <<>>]
  /\ reader' = [r \in Readers |-> NoRead]
  /\ UNCHANGED <<life, received>>

Next == \/ Start \/ Stop \/ Exit
        \/ \E s \in Symbols : Update(s) \/ Upserted(s) \/ StreamEnds(s)
        \/ \E r \in Readers : Ask(r) \/ Indicator(r) \/ Series(r) \/ Candles(r)

Spec == Init /\ [][Next]_vars
-------------------------------------------------------------------------------
(* pg.go: an update the service received is in its candle's row, or a newer *)
(* one is, unless its write is still under way or was reported as failed:   *)
(* the buffer and the table part only where the log says so.                *)
RowsKeepUp ==
  \A s \in Symbols : \A i \in DOMAIN received[s] :
    i \in writing[s] \cup failed[s] \/ table[s][received[s][i]] >= i

(* pg.go overwrites rows without looking: no write, late or cut off, ever   *)
(* puts an older state of a candle over a newer one.                        *)
RowsNeverGoBack ==
  [][\A s \in Symbols, x \in Starts : table'[s][x] >= table[s][x]]_vars

(* http.go: the values of an answer are computed up to an update at least   *)
(* as new as the newest one at the request's arrival, sort.Slice            *)
(* notwithstanding, and the candles sent along with signals are not older   *)
(* than those the signals were computed from.                               *)
AnswersAreFresh ==
  \A r \in Readers :
    /\ reader[r].step \in {"value", "done"} => Last(reader[r].series) >= reader[r].newest
    /\ reader[r].step = "done" => Last(reader[r].candles) >= Last(reader[r].series)
===============================================================================
