------------------------------ MODULE MarketProofs ------------------------------
(***************************************************************************)
(* The parts that carry market data, each by itself: the table follows the *)
(* candle buffer and answers are fresh, the hub leaves no connection       *)
(* behind, and the ticker prints two late ticks at most, for every set of  *)
(* symbols, handlers and connections and every moment at which sockets or  *)
(* writes fail or the service stops.                                       *)
(***************************************************************************)
EXTENDS MarketData, TLAPS

USE FeedAssumption DEF Updates, Starts

-------------------------------------------------------------------------------
(* Candles: what holds of one symbol. *)

(* The client hands over candles in the order of their starts. *)
InOrder(rec) ==
  /\ rec \in Seq(Starts) /\ Len(rec) <= MaxUpdates
  /\ \A i, j \in 1 .. Len(rec) : i <= j => rec[i] <= rec[j]

(* Only the newest update is being written: the handler of a stream is not  *)
(* called again before it has returned.                                     *)
OneWrite(rec, wr) == wr \subseteq 1 .. Len(rec) /\ \A i \in wr : i = Len(rec)

(* A row holds an update of its own candle, the newest that did not fail.   *)
RowsFollow(rec, wr, tab, fl) ==
  /\ fl \subseteq 1 .. Len(rec)
  /\ tab \in [Starts -> 0 .. Len(rec)]
  /\ \A x \in Starts : tab[x] = 0 \/ rec[tab[x]] = x
  /\ \A i \in 1 .. Len(rec) : i \in wr \cup fl \/ tab[rec[i]] >= i

(* The buffer holds the newest updates, without a gap. *)
Newest(buf, n) ==
  /\ buf \in Seq(Nat) /\ Len(buf) <= Limit /\ Len(buf) <= n
  /\ \A k \in 1 .. Len(buf) : buf[k] = n - Len(buf) + k

SymbolInv ==
  \A s \in Symbols :
    /\ InOrder(received[s])
    /\ OneWrite(received[s], writing[s])
    /\ RowsFollow(received[s], writing[s], table[s], failed[s])
    /\ Newest(buffer[s], Len(received[s]))

Families ==
  /\ service \in {"down", "up", "stopping"} /\ life \in 0 .. MaxLives
  /\ link \in [Symbols -> {"open", "ended"}]
  /\ received \in [Symbols -> Seq(Starts)] /\ buffer \in [Symbols -> Seq(Nat)]
  /\ writing \in [Symbols -> SUBSET Nat] /\ failed \in [Symbols -> SUBSET Nat]
  /\ table \in [Symbols -> [Starts -> Nat]]
  /\ DOMAIN reader = Readers

(* What a handler has read, o, against the updates and the buffers.         *)
Fresh(o, rec, buf) ==
  \/ o.step = "idle"
  \/ /\ o.step \in {"asked", "value", "signals", "done"}
     /\ o.symbol \in Symbols /\ o.newest \in Nat
     /\ o.step = "asked" => o.newest <= Len(rec[o.symbol])
     /\ o.step # "asked" => Last(o.series) \in Nat /\ Last(o.series) >= o.newest
     /\ o.step = "signals" => /\ Last(o.series) <= Len(rec[o.symbol])
                              /\ buf[o.symbol] # <<>>
     /\ o.step = "done" => Last(o.candles) \in Nat /\ Last(o.candles) >= Last(o.series)

FeedInv == Families /\ SymbolInv /\ \A r \in Readers : Fresh(reader[r], received, buffer)

LEMMA InitFeed == Init => FeedInv
<1> SUFFICES ASSUME Init PROVE FeedInv
  OBVIOUS
<1>1. Families
  BY SMT DEF Init, Families
<1>2. ASSUME NEW s \in Symbols
      PROVE  /\ InOrder(received[s]) /\ OneWrite(received[s], writing[s])
             /\ RowsFollow(received[s], writing[s], table[s], failed[s])
             /\ Newest(buffer[s], Len(received[s]))
  BY <1>2, SMT DEF Init, InOrder, OneWrite, RowsFollow, Newest
<1>3. \A r \in Readers : Fresh(reader[r], received, buffer)
  BY SMT DEF Init, Fresh, NoRead
<1> QED BY <1>1, <1>2, <1>3 DEF FeedInv, SymbolInv

(* The next update is of the newest candle or of the next one. *)
LEMMA AppendInOrder ==
  ASSUME NEW rec, InOrder(rec), Len(rec) < MaxUpdates, NEW x \in Starts,
         rec # <<>> => Last(rec) <= x
  PROVE  /\ InOrder(Append(rec, x))
         /\ Len(Append(rec, x)) = Len(rec) + 1
         /\ Append(rec, x)[Len(rec) + 1] = x
         /\ \A i \in 1 .. Len(rec) : Append(rec, x)[i] = rec[i]
<1> DEFINE n == Len(rec)
<1>1. rec \in Seq(Starts) /\ n \in Nat
  BY DEF InOrder
<1>2. /\ Append(rec, x) \in Seq(Starts) /\ Len(Append(rec, x)) = n + 1
      /\ Append(rec, x)[n + 1] = x
      /\ \A i \in 1 .. n : Append(rec, x)[i] = rec[i]
  BY <1>1, SMT
<1>3. \A i \in 1 .. n : rec[i] <= x
  <2> SUFFICES ASSUME NEW i \in 1 .. n PROVE rec[i] <= x
    OBVIOUS
  <2>1. rec # <<>> /\ n \in 1 .. n /\ i <= n
    BY <1>1
  <2>2. rec[i] <= rec[n] /\ rec[n] <= x /\ rec[n] \in Starts /\ rec[i] \in Starts
    BY <1>1, <2>1 DEF InOrder, Last
  <2> QED BY <2>2, SMT
<1>4. \A i, j \in 1 .. n + 1 : i <= j => Append(rec, x)[i] <= Append(rec, x)[j]
  <2> SUFFICES ASSUME NEW i \in 1 .. n + 1, NEW j \in 1 .. n + 1, i <= j
               PROVE  Append(rec, x)[i] <= Append(rec, x)[j]
    OBVIOUS
  <2>1. CASE j \in 1 .. n
    <3>1. i \in 1 .. n
      BY <1>1, <2>1
    <3> QED BY <1>2, <2>1, <3>1 DEF InOrder
  <2>2. CASE j = n + 1 /\ i \in 1 .. n
    BY <1>2, <1>3, <2>2
  <2>3. CASE i = n + 1 /\ j = n + 1
    BY <1>2, <2>3, SMT
  <2> QED BY <1>1, <2>1, <2>2, <2>3
<1> QED BY <1>1, <1>2, <1>4 DEF InOrder

(* Buffer.Add keeps the newest Limit updates. *)
LEMMA AddNewest ==
  ASSUME NEW n \in Nat, NEW buf, Newest(buf, n)
  PROVE  /\ Newest(Added(buf, n + 1), n + 1)
         /\ Added(buf, n + 1) # <<>>
<1> DEFINE all == Append(buf, n + 1)
           m == Len(buf)
<1>1. buf \in Seq(Nat) /\ m \in Nat /\ m <= Limit /\ m <= n
  BY DEF Newest
<1>2. all \in Seq(Nat) /\ Len(all) = m + 1
  BY <1>1
<1>3. \A k \in 1 .. m + 1 : all[k] = n - m + k
  <2> SUFFICES ASSUME NEW k \in 1 .. m + 1 PROVE all[k] = n - m + k
    OBVIOUS
  <2>1. CASE k \in 1 .. m
    BY <1>1, <2>1 DEF Newest
  <2>2. CASE k = m + 1
    BY <1>1, <2>2
  <2> QED BY <1>1, <2>1, <2>2
<1>4. CASE m + 1 <= Limit
  <2>1. Added(buf, n + 1) = all
    BY <1>1, <1>2, <1>4 DEF Added
  <2>2. all # <<>>
    BY <1>1, <1>2
  <2>3. \A k \in 1 .. m + 1 : all[k] = n + 1 - (m + 1) + k
    BY <1>1, <1>3
  <2> HIDE DEF all
  <2>4. Newest(all, n + 1)
    BY <1>1, <1>2, <1>4, <2>3, SMT DEF Newest
  <2> QED BY <2>1, <2>2, <2>4
<1>5. CASE m + 1 > Limit
  <2>1. m = Limit
    BY <1>1, <1>5
  <2>2. Added(buf, n + 1) = SubSeq(all, 2, Limit + 1)
    BY <1>1, <1>2, <2>1 DEF Added
  <2>3. \A i \in 2 .. Limit + 1 : all[i] \in Nat
    BY <1>1, <1>3, <2>1
  <2> DEFINE new == SubSeq(all, 2, Limit + 1)
  <2>4. /\ new \in Seq(Nat) /\ Len(new) = Limit
        /\ \A k \in 1 .. Limit : new[k] = all[2 + k - 1]
    <3>1. all \in Seq(Nat) /\ 2 <= Limit + 1 /\ Limit + 1 \in Int
      BY <1>2
    <3> HIDE DEF all
    <3> QED BY <2>3, <3>1
  <2>5. \A k \in 1 .. Limit : new[k] = n + 1 - Limit + k
    BY <1>1, <1>3, <2>1, <2>4
  <2>6. new # <<>>
    BY <2>4
  <2> HIDE DEF new
  <2>7. Newest(new, n + 1)
    BY <1>1, <2>1, <2>4, <2>5, SMT DEF Newest
  <2> QED BY <2>2, <2>6, <2>7 DEF new
<1> QED BY <1>1, <1>4, <1>5

(* What was read stays as fresh as it was while updates are only added. *)
LEMMA FreshKept ==
  ASSUME NEW o, NEW rec, NEW buf, NEW newRec, NEW newBuf, Fresh(o, rec, buf),
         \A s \in Symbols : /\ Len(rec[s]) \in Nat /\ Len(newRec[s]) \in Nat
                            /\ Len(rec[s]) <= Len(newRec[s])
                            /\ buf[s] # <<>> => newBuf[s] # <<>>
  PROVE  Fresh(o, newRec, newBuf)
<1>1. CASE o.step = "idle"
  BY <1>1 DEF Fresh
<1>2. CASE o.step # "idle"
  <2>1. /\ o.step \in {"asked", "value", "signals", "done"}
        /\ o.symbol \in Symbols /\ o.newest \in Nat
        /\ o.step # "asked" => Last(o.series) \in Nat /\ Last(o.series) >= o.newest
        /\ o.step = "done" => Last(o.candles) \in Nat /\ Last(o.candles) >= Last(o.series)
    BY <1>2 DEF Fresh
  <2> PICK t \in Symbols : t = o.symbol
    BY <2>1
  <2>2. /\ Len(rec[t]) \in Nat /\ Len(newRec[t]) \in Nat /\ Len(rec[t]) <= Len(newRec[t])
        /\ buf[t] # <<>> => newBuf[t] # <<>>
    OBVIOUS
  <2>3. o.step = "asked" => o.newest <= Len(rec[t])
    BY <1>2, Zenon DEF Fresh
  <2>4. o.step = "signals" => Last(o.series) <= Len(rec[t]) /\ buf[t] # <<>>
    BY <1>2, Zenon DEF Fresh
  <2>5. o.step = "asked" => o.newest <= Len(newRec[t])
    BY <2>1, <2>2, <2>3
  <2>6. o.step = "signals" => Last(o.series) <= Len(newRec[t])
    BY <2>1, <2>2, <2>4
  <2> QED BY <2>1, <2>2, <2>4, <2>5, <2>6, Zenon DEF Fresh
<1> QED BY <1>1, <1>2

LEMMA UpdateStep == ASSUME FeedInv, NEW s \in Symbols, Update(s) PROVE FeedInv'
<1> PICK rec : rec = received[s]
  OBVIOUS
<1> PICK n : n = Len(rec)
  OBVIOUS
<1>1. /\ InOrder(rec) /\ OneWrite(rec, writing[s]) /\ Newest(buffer[s], n)
      /\ RowsFollow(rec, writing[s], table[s], failed[s])
      /\ rec \in Seq(Starts) /\ n \in Nat
  BY DEF FeedInv, SymbolInv, InOrder
<1>2. PICK x \in Starts :
        /\ received' = [received EXCEPT ![s] = Append(received[s], x)]
        /\ x \in {IF n + 1 = 1 THEN 1 ELSE Last(rec),
                 (IF n + 1 = 1 THEN 1 ELSE Last(rec)) + 1}
  BY Zenon DEF Update
<1>3. /\ n < MaxUpdates /\ writing[s] = {}
      /\ buffer' = [buffer EXCEPT ![s] = Added(buffer[s], n + 1)]
      /\ writing' = [writing EXCEPT ![s] = {n + 1}]
      /\ UNCHANGED <<service, life, link, table, failed, reader>>
  BY DEF Update
<1> PICK new : new = Append(rec, x)
  OBVIOUS
<1>4. rec # <<>> => Last(rec) <= x
  <2> SUFFICES ASSUME rec # <<>> PROVE Last(rec) <= x
    OBVIOUS
  <2>1. n + 1 # 1 /\ Last(rec) \in Starts
    BY <1>1 DEF Last
  <2> QED BY <1>2, <2>1
<1>5. /\ InOrder(new) /\ Len(new) = n + 1 /\ new[n + 1] = x
      /\ \A i \in 1 .. n : new[i] = rec[i]
  BY <1>1, <1>3, <1>4, AppendInOrder
<1>6. Newest(buffer'[s], n + 1) /\ buffer'[s] # <<>> /\ buffer'[s] \in Seq(Nat)
  <2>1. buffer'[s] = Added(buffer[s], n + 1)
    BY <1>3 DEF FeedInv, Families
  <2>2. /\ Newest(Added(buffer[s], n + 1), n + 1)
        /\ Added(buffer[s], n + 1) # <<>>
    BY <1>1, AddNewest
  <2> QED BY <2>1, <2>2 DEF Newest
<1>7. /\ received'[s] = new /\ writing'[s] = {n + 1}
      /\ \A t \in Symbols : t # s => /\ received'[t] = received[t]
                                     /\ buffer'[t] = buffer[t] /\ writing'[t] = writing[t]
  BY <1>2, <1>3 DEF FeedInv, Families
<1>8. RowsFollow(new, {n + 1}, table[s], failed[s])
  <2>1. /\ failed[s] \subseteq 1 .. n /\ table[s] \in [Starts -> 0 .. n]
        /\ \A y \in Starts : table[s][y] = 0 \/ rec[table[s][y]] = y
        /\ \A i \in 1 .. n : i \in failed[s] \/ table[s][rec[i]] >= i
    BY <1>1, <1>3 DEF RowsFollow
  <2>2. failed[s] \subseteq 1 .. n + 1 /\ table[s] \in [Starts -> 0 .. n + 1]
    BY <1>1, <2>1
  <2>3. \A y \in Starts : table[s][y] = 0 \/ new[table[s][y]] = y
    BY <1>1, <1>5, <2>1
  <2>4. ASSUME NEW i \in 1 .. n + 1
        PROVE  i \in {n + 1} \cup failed[s] \/ table[s][new[i]] >= i
    <3>1. i = n + 1 \/ i \in 1 .. n
      BY <1>1
    <3> QED BY <1>5, <2>1, <3>1
  <2> QED BY <1>5, <2>2, <2>3, <2>4 DEF RowsFollow
<1>9. OneWrite(new, {n + 1})
  BY <1>1, <1>5 DEF OneWrite
<1>10. SymbolInv'
  <2> SUFFICES ASSUME NEW t \in Symbols
               PROVE  /\ InOrder(received'[t]) /\ OneWrite(received'[t], writing'[t])
                      /\ RowsFollow(received'[t], writing'[t], table'[t], failed'[t])
                      /\ Newest(buffer'[t], Len(received'[t]))
    BY DEF SymbolInv
  <2>1. CASE t = s
    BY <1>3, <1>5, <1>6, <1>7, <1>8, <1>9, <2>1
  <2>2. CASE t # s
    BY <1>3, <1>7, <2>2 DEF FeedInv, SymbolInv
  <2> QED BY <2>1, <2>2
<1>11. Families'
  <2>1. received' \in [Symbols -> Seq(Starts)] /\ writing' \in [Symbols -> SUBSET Nat]
    BY <1>1, <1>2, <1>3, <1>5, SMT DEF FeedInv, Families, InOrder
  <2>2. buffer' \in [Symbols -> Seq(Nat)]
    BY <1>3, <1>6, <1>7 DEF FeedInv, Families
  <2> QED BY <1>3, <2>1, <2>2 DEF FeedInv, Families
<1>12. ASSUME NEW r \in Readers PROVE Fresh(reader'[r], received', buffer')
  <2>1. \A t \in Symbols :
          /\ Len(received[t]) \in Nat /\ Len(received'[t]) \in Nat
          /\ Len(received[t]) <= Len(received'[t])
          /\ buffer[t] # <<>> => buffer'[t] # <<>>
    <3> SUFFICES ASSUME NEW t \in Symbols
                 PROVE  /\ Len(received[t]) \in Nat /\ Len(received'[t]) \in Nat
                        /\ Len(received[t]) <= Len(received'[t])
                        /\ buffer[t] # <<>> => buffer'[t] # <<>>
      OBVIOUS
    <3>1. Len(received[t]) \in Nat
      BY DEF FeedInv, Families
    <3> QED BY <1>1, <1>5, <1>6, <1>7, <3>1
  <2>2. Fresh(reader[r], received, buffer)
    BY DEF FeedInv
  <2>3. Fresh(reader[r], received', buffer')
    BY <2>1, <2>2, FreshKept
  <2> QED BY <1>3, <2>3
<1> QED BY <1>10, <1>11, <1>12 DEF FeedInv

(* A write ends: its row holds it, or it counts as failed, or both. *)
LEMMA RowWritten ==
  ASSUME NEW rec, NEW wr, NEW tab, NEW fl, InOrder(rec), OneWrite(rec, wr),
         RowsFollow(rec, wr, tab, fl), NEW i \in wr
  PROVE  /\ i \in 1 .. Len(rec) /\ rec[i] \in Starts /\ OneWrite(rec, wr \ {i})
         /\ RowsFollow(rec, wr \ {i}, [tab EXCEPT ![rec[i]] = i], fl)
         /\ RowsFollow(rec, wr \ {i}, [tab EXCEPT ![rec[i]] = i], fl \cup {i})
         /\ RowsFollow(rec, wr \ {i}, tab, fl \cup {i})
         /\ \A x \in Starts : [tab EXCEPT ![rec[i]] = i][x] >= tab[x]
<1> PICK n : n = Len(rec)
  OBVIOUS
<1> PICK y : y = rec[i]
  OBVIOUS
<1>1. rec \in Seq(Starts) /\ n \in Nat
  BY DEF InOrder
<1>2. i = n /\ i \in 1 .. n /\ y \in Starts
  BY <1>1 DEF OneWrite
<1>3. OneWrite(rec, wr \ {i})
  BY DEF OneWrite
<1>4. /\ fl \subseteq 1 .. n /\ tab \in [Starts -> 0 .. n]
      /\ \A x \in Starts : tab[x] = 0 \/ rec[tab[x]] = x
      /\ \A j \in 1 .. n : j \in wr \cup fl \/ tab[rec[j]] >= j
  BY DEF RowsFollow
<1> PICK new : new = [tab EXCEPT ![y] = i]
  OBVIOUS
<1>5. /\ new \in [Starts -> 0 .. n] /\ new[y] = i
      /\ \A x \in Starts : x # y => new[x] = tab[x]
  BY <1>2, <1>4
<1>6. \A x \in Starts : new[x] >= tab[x]
  BY <1>2, <1>4, <1>5
<1>7. \A x \in Starts : new[x] = 0 \/ rec[new[x]] = x
  BY <1>4, <1>5
<1>8. fl \cup {i} \subseteq 1 .. n
  BY <1>2, <1>4
<1>9. ASSUME NEW j \in 1 .. n
      PROVE  /\ j \in (wr \ {i}) \cup fl \/ new[rec[j]] >= j
             /\ j \in (wr \ {i}) \cup (fl \cup {i}) \/ new[rec[j]] >= j
             /\ j \in (wr \ {i}) \cup (fl \cup {i}) \/ tab[rec[j]] >= j
  <2>1. rec[j] \in Starts
    BY <1>1
  <2>2. CASE j = i
    BY <1>2, <1>5, <2>2
  <2>3. CASE j # i
    <3>1. j \in (wr \ {i}) \cup fl \/ tab[rec[j]] >= j
      BY <1>4, <2>3
    <3>2. new[rec[j]] >= tab[rec[j]] /\ new[rec[j]] \in Nat /\ tab[rec[j]] \in Nat
      BY <1>4, <1>5, <1>6, <2>1
    <3> QED BY <3>1, <3>2
  <2> QED BY <2>2, <2>3
<1>10. /\ RowsFollow(rec, wr \ {i}, new, fl) /\ RowsFollow(rec, wr \ {i}, new, fl \cup {i})
       /\ RowsFollow(rec, wr \ {i}, tab, fl \cup {i})
  BY <1>4, <1>5, <1>7, <1>8, <1>9, Zenon DEF RowsFollow
<1> QED BY <1>2, <1>3, <1>6, <1>10

LEMMA UpsertStep == ASSUME FeedInv, NEW s \in Symbols, Upserted(s) PROVE FeedInv'
<1>1. PICK i \in writing[s] :
        /\ writing' = [writing EXCEPT ![s] = writing[s] \ {i}]
        /\ \/ Row(s, i) /\ failed' = failed
           \/ /\ Row(s, i) \/ table' = table
              /\ failed' = [failed EXCEPT ![s] = failed[s] \cup {i}]
  BY Zenon DEF Upserted
<1>2. UNCHANGED <<service, life, link, received, buffer, reader>>
  BY DEF Upserted
<1> PICK rec : rec = received[s]
  OBVIOUS
<1>3. /\ InOrder(rec) /\ OneWrite(rec, writing[s])
      /\ RowsFollow(rec, writing[s], table[s], failed[s])
  BY DEF FeedInv, SymbolInv
<1>4. /\ i \in 1 .. Len(rec) /\ rec[i] \in Starts /\ OneWrite(rec, writing[s] \ {i})
      /\ RowsFollow(rec, writing[s] \ {i}, [table[s] EXCEPT ![rec[i]] = i], failed[s])
      /\ RowsFollow(rec, writing[s] \ {i}, [table[s] EXCEPT ![rec[i]] = i], failed[s] \cup {i})
      /\ RowsFollow(rec, writing[s] \ {i}, table[s], failed[s] \cup {i})
  BY <1>3, RowWritten
<1>5. /\ writing \in [Symbols -> SUBSET Nat] /\ failed \in [Symbols -> SUBSET Nat]
      /\ table \in [Symbols -> [Starts -> Nat]]
  BY DEF FeedInv, Families
<1>6. i \in Nat
  BY <1>5
<1> PICK row \in [Starts -> Nat] : row = [table[s] EXCEPT ![rec[i]] = i]
  BY <1>4, <1>5, <1>6
<1>7. PICK tab \in [Starts -> Nat], fl \in SUBSET Nat :
        /\ table' = [table EXCEPT ![s] = tab] /\ failed' = [failed EXCEPT ![s] = fl]
        /\ RowsFollow(rec, writing[s] \ {i}, tab, fl)
  <2>1. Row(s, i) => table' = [table EXCEPT ![s] = row]
    BY DEF Row
  <2>2. table' = table => table' = [table EXCEPT ![s] = table[s]]
    BY <1>5
  <2>3. failed' = failed => failed' = [failed EXCEPT ![s] = failed[s]]
    BY <1>5
  <2>4. table[s] \in [Starts -> Nat] /\ failed[s] \in SUBSET Nat /\ failed[s] \cup {i} \in SUBSET Nat
    BY <1>5, <1>6
  <2>5. CASE Row(s, i) /\ failed' = failed
    BY <1>4, <2>1, <2>3, <2>4, <2>5, Zenon
  <2>6. CASE Row(s, i) /\ failed' = [failed EXCEPT ![s] = failed[s] \cup {i}]
    BY <1>4, <2>1, <2>4, <2>6, Zenon
  <2>7. CASE table' = table /\ failed' = [failed EXCEPT ![s] = failed[s] \cup {i}]
    BY <1>4, <2>2, <2>4, <2>7, Zenon
  <2> QED BY <1>1, <2>5, <2>6, <2>7
<1>8. Families'
  <2>1. writing' \in [Symbols -> SUBSET Nat]
    BY <1>1, <1>5
  <2>2. failed' \in [Symbols -> SUBSET Nat]
    BY <1>5, <1>7
  <2>3. table' \in [Symbols -> [Starts -> Nat]]
    BY <1>5, <1>7
  <2> QED BY <1>2, <2>1, <2>2, <2>3, Zenon DEF FeedInv, Families
<1>9. SymbolInv'
  <2> SUFFICES ASSUME NEW t \in Symbols
               PROVE  /\ InOrder(received'[t]) /\ OneWrite(received'[t], writing'[t])
                      /\ RowsFollow(received'[t], writing'[t], table'[t], failed'[t])
                      /\ Newest(buffer'[t], Len(received'[t]))
    BY DEF SymbolInv
  <2>1. /\ InOrder(received[t]) /\ OneWrite(received[t], writing[t])
        /\ RowsFollow(received[t], writing[t], table[t], failed[t])
        /\ Newest(buffer[t], Len(received[t]))
    BY DEF FeedInv, SymbolInv
  <2>2. CASE t = s
    <3>1. writing'[t] = writing[s] \ {i} /\ table'[t] = tab /\ failed'[t] = fl
      BY <1>1, <1>5, <1>7, <2>2
    <3> QED BY <1>2, <1>4, <1>7, <2>1, <2>2, <3>1
  <2>3. CASE t # s
    <3>1. writing'[t] = writing[t] /\ table'[t] = table[t] /\ failed'[t] = failed[t]
      BY <1>1, <1>5, <1>7, <2>3
    <3> QED BY <1>2, <2>1, <3>1
  <2> QED BY <2>2, <2>3
<1>10. \A r \in Readers : Fresh(reader[r], received, buffer)'
  BY <1>2 DEF FeedInv
<1> QED BY <1>8, <1>9, <1>10 DEF FeedInv

(* The process ends: writes are cut off, before or after they took effect. *)
LEMMA ExitStep == ASSUME FeedInv, Exit PROVE FeedInv'
<1>1. /\ service' = "down" /\ link' = [s \in Symbols |-> "ended"]
      /\ writing' = [s \in Symbols |-> {}] /\ buffer' = [s \in Symbols |-> <<>>]
      /\ failed' = [s \in Symbols |-> failed[s] \cup writing[s]]
      /\ reader' = [r \in Readers |-> NoRead]
      /\ UNCHANGED <<life, received>>
  BY Zenon DEF Exit
<1>2. PICK done \in SUBSET Symbols :
        table' = [s \in Symbols |-> [x \in Starts |->
          IF s \in done /\ \E i \in writing[s] : received[s][i] = x
            THEN CHOOSE i \in writing[s] : received[s][i] = x
            ELSE table[s][x]]]
  BY Zenon DEF Exit
<1>3. /\ writing \in [Symbols -> SUBSET Nat] /\ failed \in [Symbols -> SUBSET Nat]
      /\ table \in [Symbols -> [Starts -> Nat]]
  BY DEF FeedInv, Families
<1>4. ASSUME NEW s \in Symbols
      PROVE  /\ table'[s] \in [Starts -> Nat]
             /\ RowsFollow(received[s], {}, table'[s], failed[s] \cup writing[s])
  <2>1. /\ InOrder(received[s]) /\ OneWrite(received[s], writing[s])
        /\ RowsFollow(received[s], writing[s], table[s], failed[s])
    BY <1>4 DEF FeedInv, SymbolInv
  <2>2. table'[s] = [x \in Starts |->
          IF s \in done /\ \E i \in writing[s] : received[s][i] = x
            THEN CHOOSE i \in writing[s] : received[s][i] = x
            ELSE table[s][x]]
    BY <1>2, <1>4
  <2>3. table[s] \in [Starts -> Nat] /\ table[s] = [x \in Starts |-> table[s][x]]
    BY <1>3, <1>4
  <2>4. CASE s \notin done \/ writing[s] = {}
    <3>1. table'[s] = table[s]
      BY <2>2, <2>3, <2>4
    <3>2. RowsFollow(received[s], {}, table[s], failed[s] \cup writing[s])
      BY <2>1, SMT DEF RowsFollow, OneWrite
    <3> QED BY <2>3, <3>1, <3>2
  <2>5. CASE s \in done /\ writing[s] # {}
    <3>1. PICK i \in writing[s] : \A j \in writing[s] : j = i
      BY <2>1, <2>5 DEF OneWrite
    <3>2. \A x \in Starts : table'[s][x] = IF received[s][i] = x THEN i ELSE table[s][x]
      <4> SUFFICES ASSUME NEW x \in Starts
                   PROVE table'[s][x] = IF received[s][i] = x THEN i ELSE table[s][x]
        OBVIOUS
      <4>1. table'[s][x] = IF \E j \in writing[s] : received[s][j] = x
                             THEN CHOOSE j \in writing[s] : received[s][j] = x
                             ELSE table[s][x]
        BY <2>2, <2>5
      <4> QED BY <3>1, <4>1
    <3>3. /\ writing[s] \ {i} = {} /\ i \in Nat /\ received[s][i] \in Starts
          /\ RowsFollow(received[s], writing[s] \ {i}, [table[s] EXCEPT ![received[s][i]] = i],
                        failed[s] \cup {i})
      BY <1>3, <2>1, <3>1, RowWritten
    <3>4. failed[s] \cup writing[s] = failed[s] \cup {i}
      BY <3>1
    <3>5. table'[s] = [table[s] EXCEPT ![received[s][i]] = i]
      BY <2>2, <2>3, <3>2, <3>3
    <3>6. table'[s] \in [Starts -> Nat]
      BY <2>3, <3>3, <3>5
    <3> QED BY <3>3, <3>4, <3>5, <3>6
  <2> QED BY <2>4, <2>5
<1>5. Families'
  BY <1>1, <1>2, <1>3, <1>4, SMT DEF FeedInv, Families
<1>6. SymbolInv'
  <2> SUFFICES ASSUME NEW t \in Symbols
               PROVE  /\ InOrder(received[t]) /\ OneWrite(received[t], {})
                      /\ RowsFollow(received[t], {}, table'[t], failed[t] \cup writing[t])
                      /\ Newest(<<>>, Len(received[t]))
    BY <1>1 DEF SymbolInv
  <2>1. InOrder(received[t])
    BY DEF FeedInv, SymbolInv
  <2>2. OneWrite(received[t], {})
    BY DEF OneWrite
  <2>3. Newest(<<>>, Len(received[t]))
    BY <2>1, SMT DEF InOrder, Newest
  <2> QED BY <1>4, <2>1, <2>2, <2>3
<1>7. \A r \in Readers : Fresh(reader'[r], received', buffer')
  BY <1>1, SMT DEF Fresh, NoRead
<1> QED BY <1>5, <1>6, <1>7 DEF FeedInv

(* Every other step leaves the updates, the buffers and the rows alone. *)
LEMMA SymbolsKept ==
  ASSUME FeedInv, UNCHANGED <<received, buffer, writing, table, failed>>,
         service' \in {"down", "up", "stopping"}, life' \in 0 .. MaxLives,
         link' \in [Symbols -> {"open", "ended"}], DOMAIN reader' = Readers,
         \A r \in Readers : reader'[r] = reader[r] \/ Fresh(reader'[r], received, buffer)
  PROVE  FeedInv'
<1>1. Families' /\ SymbolInv'
  BY DEF FeedInv, Families, SymbolInv
<1>2. \A r \in Readers : Fresh(reader[r], received, buffer)'
  BY DEF FeedInv
<1> QED BY <1>1, <1>2 DEF FeedInv

(* What a handler computes is as new as the buffer it copied, which is      *)
(* sorted as it is.                                                         *)
LEMMA NewestIsLast ==
  ASSUME NEW n \in Nat, NEW buf, Newest(buf, n)
  PROVE  /\ buf # <<>> => Last(buf) = n
         /\ DOMAIN buf = 1 .. Len(buf)
         /\ \A j, k \in 1 .. Len(buf) :
              j < k => buf[j] \in 1 .. n /\ buf[k] \in 1 .. n /\ buf[j] <= buf[k]
<1>1. buf \in Seq(Nat) /\ Len(buf) \in Nat /\ Len(buf) <= n
  BY DEF Newest
<1>2. buf # <<>> => Last(buf) = n
  BY <1>1 DEF Newest, Last
<1>3. ASSUME NEW j \in 1 .. Len(buf), NEW k \in 1 .. Len(buf), j < k
      PROVE  buf[j] \in 1 .. n /\ buf[k] \in 1 .. n /\ buf[j] <= buf[k]
  <2>1. buf[j] = n - Len(buf) + j /\ buf[k] = n - Len(buf) + k
    BY DEF Newest
  <2> QED BY <1>1, <1>3, <2>1
<1> QED BY <1>1, <1>2, <1>3

LEMMA BufferFacts ==
  ASSUME FeedInv, NEW s \in Symbols
  PROVE  /\ Len(received[s]) \in Nat
         /\ buffer[s] # <<>> =>
              Last(buffer[s]) = Len(received[s]) /\ Sorts(s, buffer[s]) = {buffer[s]}
<1>1. InOrder(received[s]) /\ Newest(buffer[s], Len(received[s]))
  BY DEF FeedInv, SymbolInv
<1>2. Len(received[s]) \in Nat
  BY <1>1 DEF InOrder
<1>3. /\ buffer[s] # <<>> => Last(buffer[s]) = Len(received[s])
      /\ DOMAIN buffer[s] = 1 .. Len(buffer[s])
      /\ \A j, k \in 1 .. Len(buffer[s]) :
           j < k => /\ buffer[s][j] \in 1 .. Len(received[s])
                    /\ buffer[s][k] \in 1 .. Len(received[s])
                    /\ buffer[s][j] <= buffer[s][k]
  BY <1>1, <1>2, NewestIsLast
<1>4. Sorted(s, buffer[s])
  BY <1>1, <1>3, Zenon DEF Sorted, InOrder
<1> QED BY <1>2, <1>3, <1>4 DEF Sorts

LEMMA ReaderStep ==
  ASSUME FeedInv, NEW r \in Readers, Ask(r) \/ Indicator(r) \/ Series(r) \/ Candles(r)
  PROVE  FeedInv'
<1>1. PICK o : reader' = [reader EXCEPT ![r] = o] /\ Fresh(o, received, buffer)
  <2>1. CASE Ask(r)
    <3>1. PICK s \in Symbols : reader' = [reader EXCEPT ![r] =
            [step |-> "asked", symbol |-> s, newest |-> Len(received[s])]]
      BY <2>1 DEF Ask
    <3>2. Len(received[s]) \in Nat
      BY BufferFacts
    <3>3. Fresh([step |-> "asked", symbol |-> s, newest |-> Len(received[s])], received, buffer)
      BY <3>2 DEF Fresh
    <3> QED BY <3>1, <3>3
  <2>2. ASSUME NEW step \in {"value", "signals"}, Computed(r, step)
        PROVE  \E o : reader' = [reader EXCEPT ![r] = o] /\ Fresh(o, received, buffer)
    <3> PICK s : s = reader[r].symbol
      OBVIOUS
    <3>1. CASE buffer[s] = <<>>
      <4>1. reader' = [reader EXCEPT ![r] = NoRead]
        BY <2>2, <3>1 DEF Computed
      <4>2. Fresh(NoRead, received, buffer)
        BY DEF Fresh, NoRead
      <4> QED BY <4>1, <4>2
    <3>2. CASE buffer[s] # <<>>
      <4>1. PICK q \in Sorts(s, buffer[s]) : reader' = [reader EXCEPT ![r] =
              [step |-> step, symbol |-> s, newest |-> reader[r].newest, series |-> q]]
        BY <2>2, <3>2, Zenon DEF Computed
      <4>2. Fresh(reader[r], received, buffer) /\ reader[r].step = "asked"
        BY <2>2 DEF Computed, FeedInv
      <4>3. s \in Symbols /\ reader[r].newest \in Nat /\ reader[r].newest <= Len(received[s])
        BY <4>2 DEF Fresh
      <4>4. Len(received[s]) \in Nat /\ Last(q) = Len(received[s])
        BY <3>2, <4>1, <4>3, BufferFacts
      <4> PICK m : m = reader[r].newest
        OBVIOUS
      <4>5. Fresh([step |-> step, symbol |-> s, newest |-> m, series |-> q], received, buffer)
        BY <2>2, <3>2, <4>3, <4>4 DEF Fresh
      <4> QED BY <4>1, <4>5
    <3> QED BY <3>1, <3>2
  <2>3. CASE Candles(r)
    <3> DEFINE old == reader[r]
               new == [step |-> "done", symbol |-> old.symbol, newest |-> old.newest,
                       series |-> old.series, candles |-> buffer[old.symbol]]
    <3>1. old.step = "signals" /\ reader' = [reader EXCEPT ![r] = new]
      BY <2>3 DEF Candles
    <3>2. /\ old.symbol \in Symbols /\ old.newest \in Nat
          /\ Last(old.series) \in Nat /\ Last(old.series) >= old.newest
          /\ Last(old.series) <= Len(received[old.symbol]) /\ buffer[old.symbol] # <<>>
      BY <3>1 DEF FeedInv, Fresh
    <3>3. /\ Len(received[old.symbol]) \in Nat
          /\ Last(buffer[old.symbol]) = Len(received[old.symbol])
      BY <3>2, BufferFacts
    <3>4. Fresh(new, received, buffer)
      BY <3>2, <3>3 DEF Fresh
    <3> QED BY <3>1, <3>4
  <2> QED BY <2>1, <2>2, <2>3 DEF Indicator, Series
<1>2. UNCHANGED <<service, life, link, received, buffer, writing, table, failed>>
  BY DEF Ask, Indicator, Series, Computed, Candles
<1>3. DOMAIN reader = Readers
  BY DEF FeedInv, Families
<1>4. /\ DOMAIN reader' = Readers /\ reader'[r] = o
      /\ \A x \in Readers : x # r => reader'[x] = reader[x]
  BY <1>1, <1>3
<1>5. \A x \in Readers : reader'[x] = reader[x] \/ Fresh(reader'[x], received, buffer)
  BY <1>1, <1>4
<1> QED BY <1>2, <1>4, <1>5, SymbolsKept DEF FeedInv, Families

LEMMA NextFeed == FeedInv /\ [Next]_vars => FeedInv'
<1> SUFFICES ASSUME FeedInv, [Next]_vars PROVE FeedInv'
  OBVIOUS
<1>1. CASE UNCHANGED vars \/ Start \/ Stop \/ \E s \in Symbols : StreamEnds(s)
  <2>1. /\ UNCHANGED <<received, buffer, writing, table, failed, reader>>
        /\ service' \in {"down", "up", "stopping"} /\ life' \in 0 .. MaxLives
        /\ link' \in [Symbols -> {"open", "ended"}]
    <3>1. /\ service \in {"down", "up", "stopping"} /\ life \in 0 .. MaxLives
          /\ link \in [Symbols -> {"open", "ended"}]
      BY DEF FeedInv, Families
    <3>2. CASE UNCHANGED vars
      BY <3>1, <3>2 DEF vars
    <3>3. CASE Start
      BY <3>1, <3>3 DEF Start
    <3>4. CASE Stop
      BY <3>1, <3>4 DEF Stop
    <3>5. ASSUME NEW s \in Symbols, StreamEnds(s)
          PROVE  /\ UNCHANGED <<received, buffer, writing, table, failed, reader>>
                 /\ service' = service /\ life' = life
                 /\ link' \in [Symbols -> {"open", "ended"}]
      BY <3>1, <3>5 DEF StreamEnds
    <3> QED BY <1>1, <3>1, <3>2, <3>3, <3>4, <3>5
  <2>2. DOMAIN reader' = Readers /\ \A r \in Readers : reader'[r] = reader[r]
    BY <2>1 DEF FeedInv, Families
  <2> QED BY <2>1, <2>2, SymbolsKept
<1> QED BY <1>1, UpdateStep, UpsertStep, ExitStep, ReaderStep DEF Next

LEMMA Bounded ==
  ASSUME NEW S, NEW n \in Nat, NEW q \in Seq(S), Len(q) <= n
  PROVE  q \in BoundedSeq(S, n)
<1>1. PICK m \in 0 .. n : m = Len(q)
  OBVIOUS
<1>2. q \in [1 .. m -> S]
  BY <1>1
<1>3. q \in SeqOf(S, n)
  BY <1>1, <1>2 DEF SeqOf
<1> QED BY <1>3 DEF BoundedSeq

LEMMA NewestIsRun ==
  ASSUME NEW n \in Nat, NEW buf, Newest(buf, n)
  PROVE  buf \in Seq(1 .. n) /\ Len(buf) <= Limit
<1>1. buf \in Seq(Nat) /\ Len(buf) \in Nat /\ Len(buf) <= n /\ Len(buf) <= Limit
  BY DEF Newest
<1>2. ASSUME NEW k \in 1 .. Len(buf) PROVE buf[k] \in 1 .. n
  <2>1. buf[k] = n - Len(buf) + k
    BY DEF Newest
  <2> QED BY <1>1, <2>1
<1> QED BY <1>1, <1>2

LEMMA FeedTypes == FeedInv => TypeOK
<1> SUFFICES ASSUME FeedInv PROVE TypeOK
  OBVIOUS
<1>1. ASSUME NEW s \in Symbols
      PROVE  /\ received[s] \in BoundedSeq(Starts, MaxUpdates)
             /\ buffer[s] \in BoundedSeq(Updates, Limit)
             /\ writing[s] \subseteq DOMAIN received[s]
             /\ failed[s] \subseteq DOMAIN received[s]
             /\ \A x \in Starts : table[s][x] = 0 \/ received[s][table[s][x]] = x
  <2> PICK n : n = Len(received[s])
    OBVIOUS
  <2>1. /\ received[s] \in Seq(Starts) /\ n \in Nat /\ n <= MaxUpdates
        /\ DOMAIN received[s] = 1 .. n
    BY DEF FeedInv, SymbolInv, InOrder
  <2>2. received[s] \in BoundedSeq(Starts, MaxUpdates)
    BY <2>1, Bounded
  <2>3. Newest(buffer[s], n)
    BY DEF FeedInv, SymbolInv
  <2>4. buffer[s] \in Seq(1 .. n) /\ Len(buffer[s]) <= Limit
    BY <2>1, <2>3, NewestIsRun
  <2>5. 1 .. n \subseteq Updates
    BY <2>1
  <2>6. buffer[s] \in Seq(Updates)
    BY <2>4, <2>5
  <2>7. buffer[s] \in BoundedSeq(Updates, Limit)
    BY <2>4, <2>6, Bounded
  <2>8. /\ writing[s] \subseteq 1 .. n /\ failed[s] \subseteq 1 .. n
        /\ \A x \in Starts : table[s][x] = 0 \/ received[s][table[s][x]] = x
    BY DEF FeedInv, SymbolInv, OneWrite, RowsFollow
  <2> QED BY <2>1, <2>2, <2>7, <2>8
<1>2. \A r \in Readers : reader[r].step \in {"idle", "asked", "value", "signals", "done"}
  BY DEF FeedInv, Fresh
<1> QED BY <1>1, <1>2 DEF FeedInv, Families, TypeOK

(* collector.go, pg.go, service.go: buffer, rows and answers have their     *)
(* types: the buffer never outgrows its limit and a row holds an update of  *)
(* its own candle, for every limit and any number of symbols and restarts.  *)
THEOREM FeedIsTyped == Spec => []TypeOK
BY InitFeed, NextFeed, FeedTypes, PTL DEF Spec

(* pg.go: whatever fails or is cut off, an update that was received is in   *)
(* its candle's row, or a newer one is, or its write is under way or was    *)
(* reported as failed.                                                      *)
THEOREM TableFollowsBuffer == Spec => []RowsKeepUp
<1>1. FeedInv => RowsKeepUp
  <2> SUFFICES ASSUME FeedInv, NEW s \in Symbols, NEW i \in DOMAIN received[s]
               PROVE  i \in writing[s] \cup failed[s] \/ table[s][received[s][i]] >= i
    BY DEF RowsKeepUp
  <2>1. i \in 1 .. Len(received[s])
    BY DEF FeedInv, SymbolInv, InOrder
  <2> QED BY <2>1 DEF FeedInv, SymbolInv, RowsFollow
<1> QED BY InitFeed, NextFeed, <1>1, PTL DEF Spec

(* service.go, http.go: an answer is computed up to an update as new as any *)
(* at its request's arrival, and the candles sent with signals are not      *)
(* older than those the signals came from.                                  *)
THEOREM AnswersKeepUp == Spec => []AnswersAreFresh
<1>1. FeedInv => AnswersAreFresh
  BY DEF FeedInv, Fresh, AnswersAreFresh
<1> QED BY InitFeed, NextFeed, <1>1, PTL DEF Spec

LEMMA RowsStep ==
  ASSUME FeedInv, [Next]_vars, NEW s \in Symbols, NEW x \in Starts
  PROVE  table'[s][x] >= table[s][x]
<1>1. /\ InOrder(received[s]) /\ OneWrite(received[s], writing[s])
      /\ RowsFollow(received[s], writing[s], table[s], failed[s])
      /\ table \in [Symbols -> [Starts -> Nat]]
  BY DEF FeedInv, Families, SymbolInv
<1>2. ASSUME NEW i \in writing[s]
      PROVE  /\ received[s][i] \in Starts /\ i \in Nat
             /\ [table[s] EXCEPT ![received[s][i]] = i][x] >= table[s][x]
  <2>1. i \in 1 .. Len(received[s])
    BY <1>1 DEF OneWrite
  <2>2. /\ received[s][i] \in Starts
        /\ \A y \in Starts : [table[s] EXCEPT ![received[s][i]] = i][y] >= table[s][y]
    BY <1>1, RowWritten, Zenon
  <2>3. i \in Nat
    BY <2>1
  <2> QED BY <2>2, <2>3, Zenon
<1>3. CASE table'[s] = table[s]
  BY <1>1, <1>3
<1>4. ASSUME NEW i \in writing[s], table'[s] = [table[s] EXCEPT ![received[s][i]] = i]
      PROVE  table'[s][x] >= table[s][x]
  BY <1>2, <1>4
<1>5. CASE Exit
  <2>1. PICK done \in SUBSET Symbols :
          table' = [t \in Symbols |-> [y \in Starts |->
            IF t \in done /\ \E i \in writing[t] : received[t][i] = y
              THEN CHOOSE i \in writing[t] : received[t][i] = y
              ELSE table[t][y]]]
    BY <1>5, Zenon DEF Exit
  <2>2. table'[s][x] = IF s \in done /\ \E i \in writing[s] : received[s][i] = x
                         THEN CHOOSE i \in writing[s] : received[s][i] = x
                         ELSE table[s][x]
    BY <2>1
  <2>3. ASSUME NEW i \in writing[s], received[s][i] = x
        PROVE  (CHOOSE j \in writing[s] : received[s][j] = x) >= table[s][x]
    <3>1. \A j \in writing[s] : j = i
      BY <1>1 DEF OneWrite
    <3>2. (CHOOSE j \in writing[s] : received[s][j] = x) = i
      BY <2>3, <3>1
    <3>3. [table[s] EXCEPT ![received[s][i]] = i][x] >= table[s][x]
      BY <1>2
    <3>4. [table[s] EXCEPT ![received[s][i]] = i][x] = i
      BY <1>1, <2>3
    <3> QED BY <3>2, <3>3, <3>4
  <2>4. table[s][x] \in Nat
    BY <1>1
  <2>5. CASE s \in done /\ \E i \in writing[s] : received[s][i] = x
    BY <2>2, <2>3, <2>5, Zenon
  <2>6. CASE ~(s \in done /\ \E i \in writing[s] : received[s][i] = x)
    BY <2>2, <2>4, <2>6
  <2> QED BY <2>5, <2>6
<1>6. ASSUME NEW t \in Symbols, Upserted(t) PROVE table'[s][x] >= table[s][x]
  <2>1. PICK i \in writing[t] : Row(t, i) \/ table' = table
    BY <1>6 DEF Upserted
  <2>2. CASE t = s /\ Row(t, i)
    <3>1. table'[s] = [table[s] EXCEPT ![received[s][i]] = i]
      BY <1>1, <2>2 DEF Row
    <3> QED BY <1>4, <2>1, <2>2, <3>1
  <2>3. CASE t # s \/ table' = table
    BY <1>1, <1>3, <2>1, <2>3 DEF Row
  <2> QED BY <2>1, <2>2, <2>3
<1> QED BY <1>3, <1>5, <1>6
        DEF Next, vars, Start, Stop, Update, StreamEnds, Ask, Indicator, Series, Computed, Candles

(* pg.go: no write, late or cut off, puts an older state of a candle over a *)
(* newer one, although the statement overwrites without looking.            *)
THEOREM RowsOnlyAdvance == Spec => RowsNeverGoBack
<1>1. FeedInv /\ [Next]_vars
        => [\A s \in Symbols, x \in Starts : table'[s][x] >= table[s][x]]_vars
  BY RowsStep
<1> QED BY InitFeed, NextFeed, <1>1, PTL DEF Spec, RowsNeverGoBack

-------------------------------------------------------------------------------
(* The hub.  *)

HubTypes ==
  /\ handler \in [Conns -> {"none", "upgraded", "registered"}]
  /\ writer \in [Conns -> {"none", "waiting", "writing", "leaving", "done"}]
  /\ socket \in [Conns -> {"open", "closed"}]

(* A connection is registered once, before it has a writer, and its writer  *)
(* is the only one it ever gets: so none can be registered, or opened, when *)
(* its writer is through.                                                   *)
RegisteredFirst ==
  \A c \in Conns : c \in clients \/ writer[c] # "none" => handler[c] = "registered"

HubInv == HubTypes /\ RegisteredFirst /\ NoOrphans

LEMMA InitHub == Hub!Init => HubInv
BY SMT DEF Hub!Init, HubInv, HubTypes, RegisteredFirst, NoOrphans, Hub!NoOrphans

LEMMA NextHub == HubInv /\ [Hub!Next]_(Hub!vars) => HubInv'
<1> SUFFICES ASSUME HubInv, [Hub!Next]_(Hub!vars) PROVE HubInv'
  OBVIOUS
<1> USE DEF HubInv, HubTypes, RegisteredFirst, NoOrphans, Hub!NoOrphans
<1>1. CASE Hub!Signal \/ Hub!Panic \/ Hub!Exit \/ Hub!BroadcastBegins
             \/ Hub!BroadcastWrites \/ Hub!BroadcastEnds
  BY <1>1, SMT DEF Hub!Signal, Hub!Panic, Hub!Exit, Hub!BroadcastBegins,
                   Hub!BroadcastWrites, Hub!BroadcastEnds
<1>2. CASE Hub!BroadcastWritten
  <2>1. PICK c \in sending :
           \/ UNCHANGED <<socket, clients>>
           \/ socket' = [socket EXCEPT ![c] = "closed"] /\ clients' = clients \ {c}
    BY <1>2 DEF Hub!BroadcastWritten
  <2> QED BY <1>2, <2>1, SMT DEF Hub!BroadcastWritten
<1>3. ASSUME NEW c \in Conns, Hub!PeerChanges(c) PROVE HubInv'
  BY <1>3, SMT DEF Hub!PeerChanges
<1>4. ASSUME NEW c \in Conns, Hub!Upgrade(c) PROVE HubInv'
  BY <1>4, SMT DEF Hub!Upgrade
<1>5. ASSUME NEW c \in Conns, Hub!Register(c) PROVE HubInv'
  BY <1>5, SMT DEF Hub!Register
<1>6. ASSUME NEW c \in Conns, Hub!Spawn(c) PROVE HubInv'
  BY <1>6, SMT DEF Hub!Spawn
<1>7. ASSUME NEW c \in Conns, Hub!Tick(c) PROVE HubInv'
  BY <1>7, SMT DEF Hub!Tick
<1>8. ASSUME NEW c \in Conns, Hub!Written(c) PROVE HubInv'
  <2>1. CASE Hub!Succeeds(c) /\ UNCHANGED socket
    BY <1>8, <2>1, SMT DEF Hub!Written, Hub!Succeeds, Hub!Fails
  <2>2. CASE socket' = [socket EXCEPT ![c] = "closed"]
    BY <1>8, <2>2, SMT DEF Hub!Written
  <2> QED BY <1>8, <2>1, <2>2 DEF Hub!Written
<1>9. ASSUME NEW c \in Conns, Hub!Leave(c) PROVE HubInv'
  BY <1>9, SMT DEF Hub!Leave
<1>10. CASE UNCHANGED Hub!vars
  BY <1>10, SMT DEF Hub!vars
<1> QED
  BY <1>1, <1>2, <1>3, <1>4, <1>5, <1>6, <1>7, <1>8, <1>9, <1>10 DEF Hub!Next

(* server.go, Handle, writer and Broadcast: a registered connection has a   *)
(* writer that is not through, or a handler about to start one, and a       *)
(* connection whose writer has left is closed.                              *)
THEOREM NobodyIsOrphaned == Hub!Spec => []NoOrphans
<1>1. HubInv => NoOrphans
  BY DEF HubInv
<1> QED BY InitHub, NextHub, <1>1, PTL DEF Hub!Spec

(* Broadcast: two writes meet only after the signal.  While the service is  *)
(* up the broadcast has not begun, so it sends nothing.                     *)
QuietWhileUp == process = "up" => sending = {} /\ broadcast = "waiting"

LEMMA NextQuiet == QuietWhileUp /\ [Hub!Next]_(Hub!vars) => QuietWhileUp'
<1> SUFFICES ASSUME QuietWhileUp, [Hub!Next]_(Hub!vars) PROVE QuietWhileUp'
  OBVIOUS
<1> USE DEF QuietWhileUp
<1>1. CASE Hub!Signal \/ Hub!Panic \/ Hub!Exit
  BY <1>1, SMT DEF Hub!Signal, Hub!Panic, Hub!Exit
<1>2. CASE Hub!BroadcastBegins \/ Hub!BroadcastWrites \/ Hub!BroadcastWritten
             \/ Hub!BroadcastEnds
  BY <1>2, SMT DEF Hub!BroadcastBegins, Hub!BroadcastWrites, Hub!BroadcastWritten,
                   Hub!BroadcastEnds
<1>3. CASE \E c \in Conns : \/ Hub!PeerChanges(c) \/ Hub!Upgrade(c) \/ Hub!Register(c)
                            \/ Hub!Spawn(c) \/ Hub!Tick(c) \/ Hub!Written(c) \/ Hub!Leave(c)
  BY <1>3, SMT DEF Hub!PeerChanges, Hub!Upgrade, Hub!Register, Hub!Spawn, Hub!Tick,
                   Hub!Written, Hub!Leave
<1>4. CASE UNCHANGED Hub!vars
  BY <1>4, SMT DEF Hub!vars
<1> QED BY <1>1, <1>2, <1>3, <1>4 DEF Hub!Next

LEMMA PanicStep ==
  QuietWhileUp /\ [Hub!Next]_(Hub!vars)
    => [process = "up" => process' # "panicked"]_(Hub!vars)
<1> SUFFICES ASSUME QuietWhileUp, Hub!Next, process = "up" PROVE process' # "panicked"
  OBVIOUS
<1>1. ~Hub!Panic
  BY SMT DEF QuietWhileUp, Hub!Panic
<1>2. CASE Hub!Signal \/ Hub!Exit
  BY <1>2, SMT DEF Hub!Signal, Hub!Exit
<1>3. CASE Hub!BroadcastBegins \/ Hub!BroadcastWrites \/ Hub!BroadcastWritten
             \/ Hub!BroadcastEnds
  BY <1>3, SMT DEF Hub!BroadcastBegins, Hub!BroadcastWrites, Hub!BroadcastWritten,
                   Hub!BroadcastEnds
<1>4. CASE \E c \in Conns : \/ Hub!PeerChanges(c) \/ Hub!Upgrade(c) \/ Hub!Register(c)
                            \/ Hub!Spawn(c) \/ Hub!Tick(c) \/ Hub!Written(c) \/ Hub!Leave(c)
  BY <1>4, SMT DEF Hub!PeerChanges, Hub!Upgrade, Hub!Register, Hub!Spawn, Hub!Tick,
                   Hub!Written, Hub!Leave
<1> QED BY <1>1, <1>2, <1>3, <1>4 DEF Hub!Next

(* Broadcast and main: while the service is up no two writes to one         *)
(* connection meet, so the process does not panic.                          *)
THEOREM UpNeverPanics == Hub!Spec => PanicsOnlyWhileStopping
<1>1. Hub!Init => QuietWhileUp
  BY DEF Hub!Init, QuietWhileUp
<1> QED BY <1>1, NextQuiet, PanicStep, PTL
        DEF Hub!Spec, PanicsOnlyWhileStopping, Hub!PanicsOnlyWhileStopping

-------------------------------------------------------------------------------
(* The ticker of the exchange connector. *)

(* The tick that main holds unprinted, and the one the goroutine has in hand. *)
Held == IF program = "printing" THEN 1 ELSE 0

InHand == IF loop \in {"reading", "sending"} THEN 1 ELSE 0

(* Before the deadline no tick is late; after it the ticks that were late   *)
(* and those that may still be are two at most, since every further round   *)
(* of the goroutine begins with a look at ctx.                              *)
TickerInv ==
  /\ ctx \in {"live", "done"}
  /\ late \in Nat
  /\ ctx = "live" => late = 0
  /\ ctx = "done" => late + Held + InHand <= 2

LEMMA NextTicker == TickerInv /\ [Ticker!Next]_(Ticker!vars) => TickerInv'
<1> SUFFICES ASSUME TickerInv, [Ticker!Next]_(Ticker!vars) PROVE TickerInv'
  OBVIOUS
<1> USE DEF TickerInv, Held, InHand
<1>1. CASE Ticker!Deadline \/ Ticker!Dial \/ Ticker!Arrive \/ Ticker!SocketFails
  BY <1>1, SMT DEF Ticker!Deadline, Ticker!Dial, Ticker!Arrive, Ticker!SocketFails
<1>2. CASE Ticker!Check \/ Ticker!Read
  BY <1>2, SMT DEF Ticker!Check, Ticker!Read
<1>3. CASE Ticker!HandOff \/ Ticker!Return
  BY <1>3, SMT DEF Ticker!HandOff, Ticker!Return
<1>4. CASE Ticker!PrintTick
  BY <1>4, SMT DEF Ticker!PrintTick
<1>5. CASE UNCHANGED Ticker!vars
  BY <1>5, SMT DEF Ticker!vars
<1> QED BY <1>1, <1>2, <1>3, <1>4, <1>5 DEF Ticker!Next

(* binance.go, SubscribeTickers, and main: looking at ctx between two       *)
(* messages lets at most two ticks through once it is done, whenever        *)
(* messages arrive and however long main takes to print.                    *)
THEOREM LateTicksAreFew == Ticker!Spec => []TwoLateTicksAtMost
<1>1. Ticker!Init => TickerInv
  BY SMT DEF Ticker!Init, TickerInv, Held, InHand
<1>2. TickerInv => TwoLateTicksAtMost
  BY SMT DEF TickerInv, Held, InHand, TwoLateTicksAtMost, Ticker!TwoLateTicksAtMost
<1> QED BY <1>1, <1>2, NextTicker, PTL DEF Ticker!Spec
===============================================================================
