--------------------------- MODULE RateLimiterProofs ---------------------------
(***************************************************************************)
(* The limiter keeps its promise, LimitPerWindow, for every limit, window  *)
(* and number of clients and handlers, as long as the calls reach each     *)
(* bucket in the order of their stamps.  The run limiter_race shows that   *)
(* the assumption is needed.  When requests do overtake each other, a      *)
(* window sees at most the limit for each of those a client ever had at a  *)
(* time, and one late one for each but the last: LimitPerCaller.           *)
(***************************************************************************)
EXTENDS RateLimiter, FiniteSetTheorems, WellFoundedInduction, TLAPS

(* No call on a bucket has an older stamp than the call before it. *)
InOrder ==
  \A h \in Handlers :
    Allow(h) /\ visitors[request[h].client] # NoBucket
      => visitors[request[h].client].last <= request[h].stamp

(* No grant is newer than the bucket, and those that the spent tokens do    *)
(* not account for are a whole window older.                                *)
Account(q, tokens, last) ==
  /\ \A k \in 1 .. Len(q) : q[k] <= last
  /\ \A k \in 1 .. Len(q) : k <= Len(q) - (Limit - tokens) => last - q[k] >= Window

(* Grants are in the order of their stamps, Limit + 1 of them in a row span *)
(* a whole window.                                                          *)
Spread(q) ==
  /\ \A j, k \in 1 .. Len(q) : j <= k => q[j] <= q[k]
  /\ \A k \in 1 .. Len(q) : k + Limit <= Len(q) => q[k + Limit] - q[k] >= Window

Accounted ==
  \A c \in Clients :
    /\ visitors[c] = NoBucket => granted[c] = <<>>
    /\ visitors[c] # NoBucket =>
         /\ 0 <= visitors[c].tokens /\ visitors[c].tokens <= Limit
         /\ Account(granted[c], visitors[c].tokens, visitors[c].last)
    /\ Spread(granted[c])

IInv == TypeOK /\ Accounted

USE LimiterAssumption DEF Time, Idle

(* What refilling does when the stamp is not older than the bucket.         *)
LEMMA RefillInOrder ==
  ASSUME NEW bucket \in Bucket, NEW stamp \in Time, bucket.last <= stamp,
         0 <= bucket.tokens, bucket.tokens <= Limit
  PROVE  \/ stamp - bucket.last < Window /\ Refilled(bucket, stamp) = bucket.tokens
         \/ stamp - bucket.last >= Window /\ Refilled(bucket, stamp) = Limit
<1> DEFINE n == Windows(stamp - bucket.last)
           elapsed == stamp - bucket.last
<1>1. elapsed \in Nat /\ bucket.tokens \in Nat
  BY SMT DEF Bucket
<1>2. n = elapsed \div Window
  BY <1>1, SMT DEF Windows
<1>3. CASE elapsed < Window
  <2>1. n = 0
    BY <1>1, <1>2, <1>3, SMT
  <2> QED BY <1>1, <1>3, <2>1, SMT DEF Refilled
<1>4. CASE elapsed >= Window
  <2>1. n \in Nat /\ n >= 1
    BY <1>1, <1>2, <1>4, SMT
  <2> HIDE DEF n
  <2>2. n * Limit >= Limit /\ n * Limit \in Nat
    BY <2>1, SMT
  <2>3. Refilled(bucket, stamp) = IF bucket.tokens + n * Limit > Limit THEN Limit
                                  ELSE bucket.tokens + n * Limit
    BY DEF Refilled, n
  <2>4. Refilled(bucket, stamp) = Limit
    BY <1>1, <2>2, <2>3, SMT
  <2> QED BY <1>4, <2>4
<1> QED BY <1>1, <1>3, <1>4, SMT

(* A set of numbers that is not empty has a least one. *)
LEMMA LeastNumber ==
  ASSUME NEW S \in SUBSET Nat, S # {}
  PROVE  \E m \in S : \A k \in S : m <= k
<1> DEFINE R == OpToRel(<, Nat)
<1>1. IsWellFoundedOn(R, Nat)
  BY NatLessThanWellFounded, Zenon
<1>2. \A x, y \in Nat : x < y => <<x, y>> \in R
  BY Zenon DEF OpToRel
<1> HIDE DEF R
<1>3. PICK m \in S : \A k \in S : ~(<<k, m>> \in R)
  BY <1>1, WFMin, Zenon
<1>4. \A k \in S : ~(k < m)
  BY <1>2, <1>3
<1> QED BY <1>4

(* The most requests at a time is a number.                                 *)
LEMMA ServingIsFinite ==
  \A c : IsFiniteSet(Serving(c)) /\ Cardinality(Serving(c)) \in Nat
<1> TAKE c
<1>1. Serving(c) \subseteq Handlers
  BY DEF Serving
<1> QED BY <1>1, FS_Subset, FS_CardinalityType

LEMMA TogetherCounts ==
  ASSUME together \in [Clients -> Nat], NEW h \in Handlers, NEW c \in Clients,
         together' = [together EXCEPT ![c] =
                        IF Cardinality(Serving(c)) < @ THEN @ ELSE Cardinality(Serving(c)) + 1]
  PROVE  together' \in [Clients -> Nat]
<1> PICK n \in Nat : n = Cardinality(Serving(c))
  BY ServingIsFinite
<1> QED OBVIOUS

LEMMA StampType == ASSUME TypeOK, NEW h \in Handlers, Stamp(h) PROVE TypeOK'
<1> PICK c \in Clients :
      /\ request' = [request EXCEPT ![h] = [client |-> c, stamp |-> now]]
      /\ together' = [together EXCEPT ![c] =
                        IF Cardinality(Serving(c)) < @ THEN @ ELSE Cardinality(Serving(c)) + 1]
  BY DEF Stamp
<1>1. together' \in [Clients -> Nat]
  BY TogetherCounts DEF TypeOK
<1>2. UNCHANGED <<now, visitors, granted>>
  BY DEF Stamp
<1>3. request' \in [Handlers -> [client : Clients, stamp : Time] \cup {NoRequest}]
  BY DEF TypeOK
<1> QED BY <1>1, <1>2, <1>3 DEF TypeOK

LEMMA InitInv == Init => IInv
BY SMT DEF Init, IInv, TypeOK, Accounted, Account, Spread

LEMMA AppendFacts ==
  ASSUME NEW T, NEW q \in Seq(T), NEW s \in T, NEW r, r = Append(q, s)
  PROVE  /\ Len(q) \in Nat /\ Len(r) = Len(q) + 1 /\ r[Len(q) + 1] = s
         /\ \A k \in 1 .. Len(q) : r[k] = q[k] /\ q[k] \in T
BY SMT

(* One more grant at stamp s costs one token and keeps both.                *)
LEMMA AccountAppend ==
  ASSUME NEW q \in Seq(Nat), NEW s \in Nat, NEW tokens \in 1 .. Limit,
         Account(q, tokens, s), Spread(q), NEW r, r = Append(q, s)
  PROVE  Account(r, tokens - 1, s) /\ Spread(r)
<1> PICK n \in Nat : n = Len(q)
  OBVIOUS
<1>1. /\ Len(r) = n + 1 /\ r[n + 1] = s
      /\ \A k \in 1 .. n : r[k] = q[k] /\ q[k] \in Nat
  BY AppendFacts
<1>2. \A k \in 1 .. n + 1 : k \in 1 .. n \/ k = n + 1
  OBVIOUS
<1>3. \A k \in 1 .. n + 1 : r[k] <= s
  BY <1>1, <1>2 DEF Account
<1>4. \A k \in 1 .. n + 1 : k <= n + 1 - (Limit - (tokens - 1)) => s - r[k] >= Window
  <2> SUFFICES ASSUME NEW k \in 1 .. n + 1, k <= n + 1 - (Limit - (tokens - 1))
               PROVE  s - r[k] >= Window
    OBVIOUS
  <2>1. k \in 1 .. n /\ k <= n - (Limit - tokens)
    OBVIOUS
  <2> QED BY <1>1, <2>1 DEF Account
<1>5. \A j, k \in 1 .. n + 1 : j <= k => r[j] <= r[k]
  <2> SUFFICES ASSUME NEW j \in 1 .. n + 1, NEW k \in 1 .. n + 1, j <= k
               PROVE  r[j] <= r[k]
    OBVIOUS
  <2>1. CASE k = n + 1
    BY <1>1, <1>3, <2>1
  <2>2. CASE k \in 1 .. n
    <3>1. j \in 1 .. n
      BY <2>2
    <3>2. q[j] <= q[k]
      BY <1>1, <2>2, <3>1 DEF Spread
    <3> QED BY <1>1, <2>2, <3>1, <3>2, Zenon
  <2> QED BY <1>2, <2>1, <2>2
<1>6. Spread(r)
  <2> SUFFICES ASSUME NEW k \in 1 .. n + 1, k + Limit <= n + 1
               PROVE  r[k + Limit] - r[k] >= Window
    BY <1>1, <1>5 DEF Spread
  <2>1. CASE k + Limit = n + 1
    <3>1. k \in 1 .. n /\ k <= n - (Limit - tokens)
      BY <2>1
    <3> QED BY <1>1, <2>1, <3>1 DEF Account
  <2>2. CASE k + Limit <= n
    <3>1. k \in 1 .. n /\ k + Limit \in 1 .. n
      BY <2>2
    <3>2. q[k + Limit] - q[k] >= Window
      BY <2>2, <3>1 DEF Spread
    <3>3. r[k] = q[k] /\ r[k + Limit] = q[k + Limit]
      BY <1>1, <3>1, Zenon
    <3> QED BY <3>2, <3>3, Zenon
  <2> QED BY <2>1, <2>2
<1> QED BY <1>1, <1>3, <1>4, <1>6 DEF Account

(* One grant to client c, out of its bucket after refilling.                *)
LEMMA GrantStep ==
  ASSUME IInv, NEW h \in Handlers, NEW c \in Clients, NEW s \in Time,
         s = request[h].stamp, NEW tokens \in 1 .. Limit, Grant(h, c, tokens),
         Account(granted[c], tokens, s)
  PROVE  /\ visitors' \in [Clients -> Bucket \cup {NoBucket}]
         /\ granted' \in [Clients -> Seq(Time)]
         /\ visitors'[c].last = s
         /\ \A d \in Clients : d # c => visitors'[d] = visitors[d]
         /\ Accounted'
<1>1. /\ visitors \in [Clients -> Bucket \cup {NoBucket}]
      /\ granted \in [Clients -> Seq(Time)]
  BY DEF IInv, TypeOK
<1>2. [tokens |-> tokens - 1, last |-> s] \in Bucket
  BY DEF Bucket
<1>3. /\ visitors' = [visitors EXCEPT ![c] = [tokens |-> tokens - 1, last |-> s]]
      /\ granted' = [granted EXCEPT ![c] = Append(granted[c], s)]
  BY DEF Grant
<1>4. /\ visitors' \in [Clients -> Bucket \cup {NoBucket}]
      /\ granted' \in [Clients -> Seq(Time)]
  BY <1>1, <1>2, <1>3
<1>5. /\ visitors'[c].tokens = tokens - 1 /\ visitors'[c].last = s
      /\ granted'[c] = Append(granted[c], s)
      /\ \A d \in Clients : d # c => visitors'[d] = visitors[d] /\ granted'[d] = granted[d]
  BY <1>1, <1>3
<1>6. visitors'[c] # NoBucket
  BY <1>5 DEF NoBucket
<1>7. granted[c] \in Seq(Nat) /\ s \in Nat
  BY <1>1, SMT
<1>8. Spread(granted[c])
  BY DEF IInv, Accounted
<1>9. Account(granted'[c], tokens - 1, s) /\ Spread(granted'[c])
  BY <1>5, <1>7, <1>8, AccountAppend
<1>10. 0 <= tokens - 1 /\ tokens - 1 <= Limit
  OBVIOUS
<1>11. ASSUME NEW d \in Clients, d # c
       PROVE  /\ visitors'[d] = NoBucket => granted'[d] = <<>>
              /\ visitors'[d] # NoBucket =>
                   /\ 0 <= visitors'[d].tokens /\ visitors'[d].tokens <= Limit
                   /\ Account(granted'[d], visitors'[d].tokens, visitors'[d].last)
              /\ Spread(granted'[d])
  BY <1>5, <1>11 DEF IInv, Accounted
<1>12. Accounted'
  BY <1>5, <1>6, <1>9, <1>10, <1>11 DEF Accounted
<1> QED BY <1>4, <1>5, <1>12

(* Looking at the bucket later keeps the account; a window later, no grant *)
(* counts any more.                                                        *)
LEMMA AccountLater ==
  ASSUME NEW q \in Seq(Nat), NEW tokens \in 0 .. Limit, NEW last \in Nat,
         NEW s \in Nat, last <= s, Account(q, tokens, last)
  PROVE  /\ Account(q, tokens, s)
         /\ s - last >= Window => Account(q, Limit, s)
<1>1. Len(q) \in Nat /\ \A k \in 1 .. Len(q) : q[k] \in Nat /\ q[k] <= last
  BY DEF Account
<1>2. ASSUME NEW k \in 1 .. Len(q) PROVE q[k] <= s /\ s - q[k] >= last - q[k]
  BY <1>1
<1>3. ASSUME NEW k \in 1 .. Len(q), k <= Len(q) - (Limit - tokens)
      PROVE  s - q[k] >= Window
  <2>1. last - q[k] >= Window
    BY <1>3 DEF Account
  <2> QED BY <1>1, <1>2, <2>1
<1>4. ASSUME s - last >= Window, NEW k \in 1 .. Len(q) PROVE s - q[k] >= Window
  BY <1>1, <1>4
<1> QED BY <1>2, <1>3, <1>4 DEF Account

(* A bucket looked at in order accounts for its grants after refilling too. *)
LEMMA RefillAccount ==
  ASSUME IInv, NEW c \in Clients, NEW s \in Time, visitors[c] # NoBucket,
         visitors[c].last <= s
  PROVE  /\ Refilled(visitors[c], s) \in 0 .. Limit
         /\ Account(granted[c], Refilled(visitors[c], s), s)
<1> PICK bucket : bucket = visitors[c]
  OBVIOUS
<1> PICK q \in Seq(Time) : q = granted[c]
  BY DEF IInv, TypeOK
<1>1. bucket \in Bucket
  BY DEF IInv, TypeOK
<1>2. bucket.tokens \in 0 .. Limit /\ bucket.last \in Time /\ bucket.last <= s
  BY <1>1 DEF IInv, Accounted, Bucket
<1>3. Account(q, bucket.tokens, bucket.last)
  BY DEF IInv, Accounted
<1>4. q \in Seq(Nat) /\ s \in Nat /\ bucket.last \in Nat
  BY <1>2, SMT
<1>5. /\ Account(q, bucket.tokens, s)
      /\ s - bucket.last >= Window => Account(q, Limit, s)
  BY <1>2, <1>3, <1>4, AccountLater
<1>6. Limit \in 0 .. Limit
  OBVIOUS
<1>7. \/ Refilled(bucket, s) = bucket.tokens
      \/ s - bucket.last >= Window /\ Refilled(bucket, s) = Limit
  BY <1>1, <1>2, RefillInOrder
<1> QED BY <1>2, <1>5, <1>6, <1>7

LEMMA AllowStep ==
  ASSUME IInv, InOrder, NEW h \in Handlers, Allow(h)
  PROVE  IInv'
<1> PICK c : c = request[h].client
  OBVIOUS
<1> PICK s : s = request[h].stamp
  OBVIOUS
<1>1. ~Idle(h) /\ c \in Clients /\ s \in Time
  BY DEF Allow, IInv, TypeOK
<1>2. /\ request' = [request EXCEPT ![h] = NoRequest] /\ UNCHANGED <<now, together>>
  BY DEF Allow
<1>3. CASE visitors' \in [Clients -> Bucket \cup {NoBucket}]
           /\ granted' \in [Clients -> Seq(Time)]
           /\ visitors'[c].last = s
           /\ (\A d \in Clients : d # c => visitors'[d] = visitors[d])
           /\ Accounted'
  <2>1. TypeOK'
    BY <1>2, <1>3 DEF IInv, TypeOK
  <2> QED BY <1>3, <2>1 DEF IInv
<1>4. CASE visitors[c] = NoBucket /\ Grant(h, c, Limit)
  <2>1. Account(granted[c], Limit, s)
    BY <1>1, <1>4, SMT DEF IInv, Accounted, Account
  <2> QED BY <1>1, <1>3, <1>4, <2>1, GrantStep DEF IInv, TypeOK
<1>5. ASSUME visitors[c] # NoBucket PROVE visitors[c].last <= s
  BY <1>1, <1>5 DEF InOrder
<1> PICK tokens : tokens = Refilled(visitors[c], s)
  OBVIOUS
<1>6. CASE visitors[c] # NoBucket /\ tokens > 0 /\ Grant(h, c, tokens)
  <2>1. tokens \in 1 .. Limit /\ Account(granted[c], tokens, s)
    BY <1>1, <1>5, <1>6, RefillAccount
  <2> QED BY <1>1, <1>3, <1>6, <2>1, GrantStep DEF IInv, TypeOK
<1>7. CASE /\ visitors[c] # NoBucket /\ tokens <= 0
           /\ visitors' = [visitors EXCEPT ![c] = [tokens |-> tokens, last |-> s]]
           /\ UNCHANGED granted
  <2>1. tokens = 0 /\ Account(granted[c], 0, s)
    BY <1>1, <1>5, <1>7, RefillAccount
  <2>2. [tokens |-> 0, last |-> s] \in Bucket
    BY <1>1 DEF Bucket
  <2>3. /\ visitors' \in [Clients -> Bucket \cup {NoBucket}]
        /\ visitors'[c] = [tokens |-> 0, last |-> s]
        /\ \A d \in Clients : d # c => visitors'[d] = visitors[d]
    BY <1>1, <1>7, <2>1, <2>2 DEF IInv, TypeOK
  <2>4. visitors'[c].tokens = 0 /\ visitors'[c].last = s /\ visitors'[c] # NoBucket
    BY <1>1, <2>3 DEF NoBucket
  <2>5. Accounted'
    BY <1>7, <2>1, <2>3, <2>4 DEF IInv, Accounted
  <2> QED BY <1>3, <1>7, <2>3, <2>4, <2>5 DEF IInv, TypeOK
<1> QED BY <1>1, <1>4, <1>6, <1>7 DEF Allow

LEMMA StepInv == IInv /\ [Next]_vars /\ [InOrder]_vars => IInv'
<1> SUFFICES ASSUME IInv, [Next]_vars, [InOrder]_vars PROVE IInv'
  OBVIOUS
<1>1. CASE UNCHANGED vars
  BY <1>1 DEF vars, IInv, TypeOK, Accounted
<1>2. CASE Tick
  BY <1>2, SMT DEF Tick, IInv, TypeOK, Accounted, Bucket
<1>3. ASSUME NEW h \in Handlers, Stamp(h) PROVE IInv'
  <2>1. TypeOK'
    BY <1>3, StampType DEF IInv
  <2>2. Accounted'
    BY <1>3 DEF Stamp, IInv, Accounted
  <2> QED BY <2>1, <2>2 DEF IInv
<1>4. ASSUME NEW h \in Handlers, Allow(h), ~UNCHANGED vars PROVE IInv'
  BY <1>4, AllowStep
<1> QED BY <1>1, <1>2, <1>3, <1>4 DEF Next

(* Grants that are spread out put no more than Limit into a window: the     *)
(* first of them in it and the Limit - 1 that follow.                       *)
LEMMA SpreadLimits ==
  ASSUME IInv, NEW c \in Clients, NEW start \in Time
  PROVE  Cardinality(GrantsIn(c, start)) <= Limit
<1> PICK q \in Seq(Time) : q = granted[c]
  BY DEF IInv, TypeOK
<1> PICK n \in Nat : n = Len(q)
  OBVIOUS
<1> PICK G : G = GrantsIn(c, start)
  OBVIOUS
<1>1. G = {k \in 1 .. n : start <= q[k] /\ q[k] < start + Window}
  BY DEF GrantsIn
<1>2. /\ \A j, k \in 1 .. n : j <= k => q[j] <= q[k]
      /\ \A k \in 1 .. n : k + Limit <= n => q[k + Limit] - q[k] >= Window
      /\ \A k \in 1 .. n : q[k] \in Nat
  BY DEF IInv, Accounted, Spread
<1>3. CASE G = {}
  BY <1>3, FS_EmptySet
<1>4. CASE G # {}
  <2>1. PICK m \in G : \A k \in G : m <= k
    <3>1. G \in SUBSET Nat
      BY <1>1
    <3> QED BY <1>4, <3>1, LeastNumber
  <2>2. m \in 1 .. n /\ start <= q[m] /\ q[m] \in Nat
    BY <1>1, <1>2, <2>1
  <2>3. ASSUME NEW k \in G PROVE k \in m .. m + Limit - 1
    <3>1. k \in 1 .. n /\ q[k] < start + Window /\ m <= k /\ q[k] \in Nat
      BY <1>1, <1>2, <2>1
    <3>2. CASE k >= m + Limit
      <4>1. m + Limit \in 1 .. n /\ m + Limit <= k
        BY <2>2, <3>1, <3>2
      <4>2. q[m + Limit] <= q[k] /\ q[m + Limit] - q[m] >= Window /\ q[m + Limit] \in Nat
        BY <1>2, <2>2, <3>1, <4>1
      <4> PICK x \in Nat : x = q[m]
        BY <2>2
      <4> PICK y \in Nat : y = q[m + Limit]
        BY <4>2
      <4> PICK z \in Nat : z = q[k]
        BY <3>1
      <4>3. y <= z /\ y - x >= Window /\ start <= x /\ z < start + Window
        BY <2>2, <3>1, <4>2
      <4>4. start \in Nat /\ Window \in Nat
        BY SMT
      <4>5. FALSE
        BY ONLY <4>3, <4>4, x \in Nat, y \in Nat, z \in Nat, SMT
      <4> QED BY <4>5
    <3>3. CASE k < m + Limit
      BY <2>2, <3>1, <3>3
    <3> QED BY <2>2, <3>1, <3>2, <3>3
  <2>4. G \subseteq m .. m + Limit - 1
    BY <2>3
  <2>5. IsFiniteSet(m .. m + Limit - 1) /\ Cardinality(m .. m + Limit - 1) = Limit
    <3>1. m \in Int /\ m + Limit - 1 \in Int /\ m <= m + Limit - 1
      BY <2>2
    <3>2. Cardinality(m .. m + Limit - 1) = (m + Limit - 1) - m + 1
      BY <3>1, FS_Interval, SMT
    <3> QED BY <2>2, <3>1, <3>2, FS_Interval, SMT
  <2>6. Cardinality(G) <= Cardinality(m .. m + Limit - 1)
    BY <2>4, <2>5, FS_Subset
  <2> QED BY <2>5, <2>6
<1> QED BY <1>3, <1>4

(* allow, as long as the calls on each bucket come in the order of their    *)
(* stamps, whatever handlers run at once: no window holds more than Limit   *)
(* of a client's requests, for every limit, window and set of clients.      *)
(* When stamps overtake each other it fails (run limiter_race).             *)
THEOREM GrantsAreSpread == Spec /\ [][InOrder]_vars => []LimitPerWindow
<1>1. IInv => LimitPerWindow
  BY SpreadLimits DEF LimitPerWindow
<1> QED BY <1>1, InitInv, StepInv, PTL DEF Spec
-------------------------------------------------------------------------------
(* Whatever the order of the stamps: what a window more or less adds.       *)
LEMMA WindowsInt == \A elapsed \in Int : Windows(elapsed) \in Int
BY SMT DEF Windows

LEMMA NoWholeWindow == \A elapsed \in Int : elapsed < Window => Windows(elapsed) <= 0
BY SMT DEF Windows

LEMMA RefillInt ==
  ASSUME NEW bucket \in Bucket, NEW stamp \in Time
  PROVE  /\ Refilled(bucket, stamp) \in Int
         /\ bucket.tokens = 0 /\ Refilled(bucket, stamp) > 0 => stamp - bucket.last >= Window
<1> DEFINE n == Windows(stamp - bucket.last)
<1>1. stamp - bucket.last \in Int /\ bucket.tokens \in Int
  BY DEF Bucket
<1>2. n \in Int /\ (stamp - bucket.last < Window => n <= 0)
  BY <1>1, WindowsInt, NoWholeWindow
<1>3. Refilled(bucket, stamp) = IF bucket.tokens + n * Limit > Limit THEN Limit
                                ELSE bucket.tokens + n * Limit
  BY DEF Refilled
<1> HIDE DEF n
<1>4. n * Limit \in Int /\ (n <= 0 => n * Limit <= 0)
  BY <1>2, SMT
<1> QED BY <1>1, <1>2, <1>3, <1>4

LEMMA AllowType == ASSUME TypeOK, NEW h \in Handlers, Allow(h) PROVE TypeOK'
<1> PICK c : c = request[h].client
  OBVIOUS
<1> PICK s : s = request[h].stamp
  OBVIOUS
<1> PICK tokens : tokens = Refilled(visitors[c], s)
  OBVIOUS
<1>1. c \in Clients /\ s \in Time
  BY DEF Allow, TypeOK
<1>2. visitors[c] # NoBucket => tokens \in Int
  BY <1>1, RefillInt DEF TypeOK
<1>3. ASSUME NEW t \in Int PROVE [tokens |-> t, last |-> s] \in Bucket
  BY <1>1 DEF Bucket
<1>4. Limit - 1 \in Int /\ (visitors[c] # NoBucket => tokens - 1 \in Int)
  BY <1>2
<1>5. /\ request' \in [Handlers -> [client : Clients, stamp : Time] \cup {NoRequest}]
      /\ now' \in Time /\ together' \in [Clients -> Nat]
  BY DEF Allow, TypeOK
<1>6. CASE visitors[c] = NoBucket /\ Grant(h, c, Limit)
  BY <1>1, <1>3, <1>4, <1>5, <1>6 DEF Grant, TypeOK
<1>7. CASE visitors[c] # NoBucket /\ Grant(h, c, tokens)
  BY <1>1, <1>3, <1>4, <1>5, <1>7 DEF Grant, TypeOK
<1>8. CASE /\ visitors[c] # NoBucket
           /\ visitors' = [visitors EXCEPT ![c] = [tokens |-> tokens, last |-> s]]
           /\ UNCHANGED granted
  BY <1>1, <1>2, <1>3, <1>5, <1>8 DEF TypeOK
<1> QED BY <1>6, <1>7, <1>8 DEF Allow

LEMMA StepType == TypeOK /\ [Next]_vars => TypeOK'
<1> SUFFICES ASSUME TypeOK, [Next]_vars PROVE TypeOK'
  OBVIOUS
<1>1. CASE UNCHANGED vars \/ Tick
  BY <1>1, SMT DEF vars, Tick, TypeOK
<1>2. ASSUME NEW h \in Handlers, Stamp(h) PROVE TypeOK'
  BY <1>2, StampType
<1> QED BY <1>1, <1>2, AllowType DEF Next

LEMMA InitType == Init => TypeOK
BY InitInv DEF IInv

(* allow: a bucket's tokens and times are what Go's integers hold of them,  *)
(* also when stamps reach it in the wrong order and refilling takes away.   *)
THEOREM LimiterTypes == Spec => []TypeOK
BY InitType, StepType, PTL DEF Spec

-------------------------------------------------------------------------------
(***************************************************************************)
(* With requests that overtake each other.  Take one client and one        *)
(* window.  While the clock is in the window, its bucket is only filled    *)
(* again after a call with a stamp older than the window, and every        *)
(* request that waits holds at most one of those.  When the clock has left *)
(* the window, the requests that hold a stamp in it bring one late call    *)
(* each.                                                                   *)
(***************************************************************************)

(* n grants so far, hands requests at a time at most, of which stale hold a *)
(* stamp from before the window: each may still have the bucket filled.     *)
Within(n, bucket, stale, hands, start) ==
  IF bucket.last < start
    THEN IF stale = hands THEN n = 0 ELSE n + Limit * (stale + 1) <= Limit * hands
    ELSE /\ n + Limit * stale <= Limit * hands
         /\ n + bucket.tokens + Limit * stale <= Limit * hands

(* held of them hold a stamp from the window: hands of them only while      *)
(* nobody else can have filled the bucket.                                  *)
Late(n, bucket, held, hands, start) ==
  \/ n = 0 /\ held = 0
  \/ n + held <= Limit * hands + hands - 1
  \/ /\ held = hands /\ start <= bucket.last /\ bucket.last < start + Window
     /\ n <= Limit * hands /\ n + bucket.tokens <= Limit * hands

Budget(n, bucket, time, stale, held, hands, start) ==
  /\ time < start => n = 0 /\ bucket.last < start
  /\ start <= time /\ time < start + Window => Within(n, bucket, stale, hands, start)
  /\ start + Window <= time => Late(n, bucket, held, hands, start)

LEMMA Products ==
  /\ Limit * 0 = 0
  /\ \A k \in Nat : Limit * k \in Nat /\ Limit * (k + 1) = Limit * k + Limit
  /\ \A j, k \in Nat : j <= k => Limit * j <= Limit * k
BY SMT

(* A call with this stamp: if it is from the window it may be granted out   *)
(* of what is there after refilling, and its handler has let go of it.      *)
Called(n, m, bucket, after, stamp, start) ==
  /\ after.last = stamp
  /\ \E tokens \in Int :
       /\ tokens <= Limit
       /\ stamp - bucket.last < Window => tokens <= bucket.tokens
       /\ \/ tokens <= 0 /\ after.tokens = tokens /\ m = n
          \/ /\ tokens > 0 /\ after.tokens = tokens - 1
             /\ m = IF start <= stamp /\ stamp < start + Window THEN n + 1 ELSE n

Released(stale, stale2, held, held2, hands, stamp, start) ==
  /\ IF stamp < start THEN stale = stale2 + 1 ELSE stale2 = stale /\ stale < hands
  /\ IF start <= stamp /\ stamp < start + Window
       THEN held = held2 + 1 ELSE held2 = held /\ held < hands

LEMMA BudgetCall ==
  ASSUME NEW n \in Nat, NEW m, NEW bucket, NEW after, NEW time \in Nat, NEW stamp \in Nat,
         NEW stale \in Nat, NEW stale2 \in Nat, NEW held \in Nat, NEW held2 \in Nat,
         NEW hands \in Nat, NEW start \in Nat,
         bucket.tokens \in Int, bucket.last \in Int, bucket.last <= time, stamp <= time,
         stale <= hands, held <= hands,
         Called(n, m, bucket, after, stamp, start),
         Released(stale, stale2, held, held2, hands, stamp, start),
         Budget(n, bucket, time, stale, held, hands, start)
  PROVE  Budget(m, after, time, stale2, held2, hands, start)
<1> PICK last \in Int, old \in Int : last = bucket.last /\ old = bucket.tokens
  OBVIOUS
<1> PICK tokens \in Int :
      /\ tokens <= Limit
      /\ stamp - last < Window => tokens <= old
      /\ \/ tokens <= 0 /\ after.tokens = tokens /\ m = n
         \/ /\ tokens > 0 /\ after.tokens = tokens - 1
            /\ m = IF start <= stamp /\ stamp < start + Window THEN n + 1 ELSE n
  BY DEF Called
<1>1. after.last = stamp
  BY DEF Called
<1> PICK all \in Nat, some \in Nat : all = Limit * hands /\ some = Limit * stale2
  BY Products
<1>2. /\ Limit * (stale2 + 1) = some + Limit
      /\ Limit * (stale + 1) = Limit * stale + Limit
      /\ Limit * stale = IF stamp < start THEN some + Limit ELSE some
  BY Products DEF Released
<1>3. CASE time < start
  BY <1>1, <1>3 DEF Budget
<1>4. CASE start <= time /\ time < start + Window
  <2>1. Within(n, bucket, stale, hands, start)
    BY <1>4 DEF Budget
  <2>2. CASE stamp < start
    <3>1. m = n /\ stale = stale2 + 1 /\ stale2 # hands
      BY <2>2 DEF Released
    <3>2. stale = hands => some + Limit = all
      BY <1>2, <3>1
    <3>3. n + Limit * (stale2 + 1) <= Limit * hands
      <4>1. CASE last < start /\ stale = hands
        BY <1>2, <2>1, <3>2, <4>1 DEF Within
      <4>2. CASE last < start /\ stale # hands
        BY <1>2, <2>1, <2>2, <4>2 DEF Within
      <4>3. CASE last >= start
        BY <1>2, <2>1, <2>2, <4>3 DEF Within
      <4> QED BY <4>1, <4>2, <4>3
    <3>4. Within(m, after, stale2, hands, start)
      BY <1>1, <2>2, <3>1, <3>3 DEF Within
    <3> QED BY <1>4, <3>4 DEF Budget
  <2>3. CASE stamp >= start
    <3>1. stale2 = stale /\ stale < hands /\ m = IF tokens > 0 THEN n + 1 ELSE n
      BY <1>4, <2>3 DEF Released
    <3>2. after.tokens = IF tokens > 0 THEN tokens - 1 ELSE tokens
      OBVIOUS
    <3>3. n + some <= all /\ n + tokens + some <= all
      <4>1. CASE last < start
        <5>1. n + some + Limit <= all
          BY <1>2, <2>1, <2>3, <3>1, <4>1 DEF Within
        <5> QED BY <5>1
      <4>2. CASE last >= start
        <5>1. n + some <= all /\ n + old + some <= all
          BY <1>2, <2>1, <2>3, <4>2 DEF Within
        <5>2. tokens <= old
          BY <1>4, <4>2
        <5> QED BY <5>1, <5>2
      <4> QED BY <4>1, <4>2
    <3>4. m + some <= all /\ m + after.tokens + some <= all
      BY <3>1, <3>2, <3>3
    <3>5. Within(m, after, stale2, hands, start)
      BY <1>1, <2>3, <3>4 DEF Within
    <3> QED BY <1>4, <3>5 DEF Budget
  <2> QED BY <2>2, <2>3
<1>5. CASE start + Window <= time
  <2>1. \/ n = 0 /\ held = 0
        \/ n + held <= all + hands - 1
        \/ /\ held = hands /\ start <= last /\ last < start + Window
           /\ n <= all /\ n + old <= all
    BY <1>5 DEF Budget, Late
  <2>2. ASSUME (m = 0 /\ held2 = 0) \/ m + held2 <= all + hands - 1
        PROVE  Late(m, after, held2, hands, start)
    BY <2>2 DEF Late
  <2>3. (m = 0 /\ held2 = 0) \/ m + held2 <= all + hands - 1
    <3>1. CASE start <= stamp /\ stamp < start + Window
      <4>1. held = held2 + 1 /\ (tokens > 0 => m = n + 1) /\ (tokens <= 0 => m = n)
        BY <3>1 DEF Released
      <4>2. CASE n + held <= all + hands - 1 \/ (n = 0 /\ held = 0)
        BY <4>1, <4>2
      <4>3. CASE /\ held = hands /\ start <= last /\ last < start + Window
                 /\ n <= all /\ n + old <= all
        <5>1. tokens <= old
          BY <3>1, <4>3
        <5>2. m <= all
          BY <4>1, <4>3, <5>1
        <5> QED BY <4>1, <4>3, <5>2
      <4> QED BY <2>1, <4>2, <4>3
    <3>2. CASE ~(start <= stamp /\ stamp < start + Window)
      <4>1. m = n /\ held2 = held /\ held < hands
        BY <3>2 DEF Released
      <4> QED BY <2>1, <4>1
    <3> QED BY <3>1, <3>2
  <2>4. Late(m, after, held2, hands, start)
    BY <2>2, <2>3
  <2> QED BY <1>5, <2>4 DEF Budget
<1> QED BY <1>3, <1>4, <1>5

(* One more request comes, with a stamp that is not older than the clock.   *)
LEMMA BudgetGrows ==
  ASSUME NEW n \in Nat, NEW bucket, NEW time \in Nat,
         NEW stale \in Nat, NEW stale2 \in Nat, NEW held \in Nat, NEW held2 \in Nat,
         NEW hands \in Nat, NEW hands2 \in Nat, NEW start \in Nat,
         bucket.tokens \in Int, bucket.last \in Int,
         stale <= hands, held <= hands, hands <= hands2,
         start <= time => stale2 = stale, start + Window <= time => held2 = held,
         Budget(n, bucket, time, stale, held, hands, start)
  PROVE  Budget(n, bucket, time, stale2, held2, hands2, start)
<1> PICK all \in Nat, all2 \in Nat, some \in Nat :
      all = Limit * hands /\ all2 = Limit * hands2 /\ some = Limit * stale
  BY Products
<1>1. /\ Limit * (stale + 1) = some + Limit
      /\ all <= all2
      /\ stale # hands2 => some + Limit <= all2
  <2>1. stale # hands2 => stale + 1 <= hands2
    OBVIOUS
  <2> QED BY <2>1, Products
<1>2. Within(n, bucket, stale, hands, start) => Within(n, bucket, stale, hands2, start)
  BY <1>1 DEF Within
<1>3. Late(n, bucket, held, hands, start) => Late(n, bucket, held, hands2, start)
  BY <1>1 DEF Late
<1>4. start + Window <= time => start <= time
  OBVIOUS
<1> QED BY <1>2, <1>3, <1>4 DEF Budget

(* The clock enters the window, or leaves it.                               *)
LEMMA BudgetTick ==
  ASSUME NEW n \in Nat, NEW bucket, NEW time \in Nat,
         NEW stale \in Nat, NEW held \in Nat, NEW hands \in Nat, NEW start \in Nat,
         bucket.tokens \in Int, bucket.last \in Int, bucket.last <= time,
         stale + held <= hands,
         Budget(n, bucket, time, stale, held, hands, start)
  PROVE  Budget(n, bucket, time + 1, stale, held, hands, start)
<1> PICK all \in Nat, some \in Nat : all = Limit * hands /\ some = Limit * stale
  BY Products
<1>1. /\ Limit * (stale + 1) = some + Limit
      /\ stale # hands => some + Limit <= all
      /\ hands = 0 => all = 0
  <2>1. stale # hands => stale + 1 <= hands
    OBVIOUS
  <2> QED BY <2>1, Products
<1>2. CASE time + 1 = start
  BY <1>1, <1>2 DEF Budget, Within
<1>3. CASE time + 1 = start + Window
  <2>1. Within(n, bucket, stale, hands, start)
    BY <1>3 DEF Budget
  <2>2. Late(n, bucket, held, hands, start)
    BY <1>1, <1>3, <2>1 DEF Within, Late
  <2> QED BY <1>3, <2>2 DEF Budget
<1>4. CASE time + 1 # start /\ time + 1 # start + Window
  BY <1>4 DEF Budget
<1> QED BY <1>2, <1>3, <1>4

(* The requests of c that wait with a stamp from before the window, or in it. *)
StaleHands(c, start) == {h \in Serving(c) : request[h].stamp < start}
HeldHands(c, start)  == {h \in Serving(c) : /\ start <= request[h].stamp
                                            /\ request[h].stamp < start + Window}

NotAhead ==
  /\ \A h \in Handlers : ~Idle(h) => request[h].stamp <= now
  /\ \A c \in Clients : visitors[c].last <= now

Together == \A c \in Clients : Cardinality(Serving(c)) <= together[c]

BudgetOf(c, start) ==
  Budget(Cardinality(GrantsIn(c, start)), visitors[c], now,
         Cardinality(StaleHands(c, start)), Cardinality(HeldHands(c, start)),
         together[c], start)

OnBudget == \A c \in Clients : \A start \in Time : BudgetOf(c, start)

BudgetInv == TypeOK /\ NotAhead /\ Together /\ OnBudget

LEMMA HandCounts ==
  ASSUME NEW c, NEW start
  PROVE  /\ IsFiniteSet(StaleHands(c, start)) /\ IsFiniteSet(HeldHands(c, start))
         /\ Cardinality(StaleHands(c, start)) \in Nat /\ Cardinality(HeldHands(c, start)) \in Nat
         /\ Cardinality(StaleHands(c, start)) <= Cardinality(Serving(c))
         /\ Cardinality(HeldHands(c, start)) <= Cardinality(Serving(c))
<1>1. StaleHands(c, start) \subseteq Serving(c) /\ HeldHands(c, start) \subseteq Serving(c)
  BY DEF StaleHands, HeldHands
<1> QED BY <1>1, ServingIsFinite, FS_Subset, FS_CardinalityType

LEMMA GrantCounts ==
  ASSUME TypeOK, NEW c \in Clients, NEW start
  PROVE  IsFiniteSet(GrantsIn(c, start)) /\ Cardinality(GrantsIn(c, start)) \in Nat
<1>1. GrantsIn(c, start) \subseteq 1 .. Len(granted[c]) /\ Len(granted[c]) \in Int
  BY DEF GrantsIn, TypeOK
<1>2. IsFiniteSet(1 .. Len(granted[c]))
  BY <1>1, FS_Interval
<1> QED BY <1>1, <1>2, FS_Subset, FS_CardinalityType

LEMMA BucketNumbers ==
  ASSUME TypeOK, NEW c \in Clients
  PROVE  visitors[c].tokens \in Int /\ visitors[c].last \in Int
BY DEF TypeOK, Bucket, NoBucket

LEMMA InitBudget == Init => BudgetInv
<1> SUFFICES ASSUME Init PROVE BudgetInv
  OBVIOUS
<1>1. TypeOK /\ NotAhead
  BY InitType DEF Init, NotAhead, NoBucket
<1>2. ASSUME NEW c \in Clients, NEW start \in Time
      PROVE  BudgetOf(c, start) /\ Cardinality(Serving(c)) <= together[c]
  <2>1. GrantsIn(c, start) = {} /\ Serving(c) = {} /\ StaleHands(c, start) = {}
    BY DEF Init, GrantsIn, StaleHands, Serving
  <2>2. Cardinality({}) = 0
    BY FS_EmptySet
  <2>3. now = 0 /\ visitors[c].last = -1 /\ together[c] = 0
    BY DEF Init, NoBucket
  <2>4. Budget(0, visitors[c], now, 0, Cardinality(HeldHands(c, start)), 0, start)
    BY <2>3 DEF Budget, Within
  <2> QED BY <2>1, <2>2, <2>3, <2>4 DEF BudgetOf
<1>3. 0 \in Time
  OBVIOUS
<1> QED BY <1>1, <1>2, <1>3 DEF BudgetInv, OnBudget, Together

(* What a handler lets go of.                                               *)
LEMMA HandsReleased ==
  ASSUME TypeOK, NEW h \in Handlers, ~Idle(h), NEW c, c = request[h].client,
         request' = [request EXCEPT ![h] = NoRequest], NEW start \in Time
  PROVE  /\ Released(Cardinality(StaleHands(c, start)), Cardinality(StaleHands(c, start)'),
                     Cardinality(HeldHands(c, start)), Cardinality(HeldHands(c, start)'),
                     Cardinality(Serving(c)), request[h].stamp, start)
         /\ Serving(c)' \subseteq Serving(c)
<1>1. Serving(c)' = Serving(c) \ {h} /\ h \in Serving(c)
  BY DEF Serving, TypeOK
<1>2. /\ StaleHands(c, start)' = StaleHands(c, start) \ {h}
      /\ HeldHands(c, start)' = HeldHands(c, start) \ {h}
  BY <1>1 DEF StaleHands, HeldHands, TypeOK
<1>3. /\ IsFiniteSet(StaleHands(c, start)) /\ IsFiniteSet(HeldHands(c, start))
      /\ Cardinality(Serving(c)) \in Nat /\ IsFiniteSet(Serving(c))
      /\ Cardinality(StaleHands(c, start)) \in Nat /\ Cardinality(HeldHands(c, start)) \in Nat
  BY HandCounts, ServingIsFinite
<1>4. /\ Cardinality(StaleHands(c, start)') =
           IF h \in StaleHands(c, start) THEN Cardinality(StaleHands(c, start)) - 1
                                         ELSE Cardinality(StaleHands(c, start))
      /\ Cardinality(HeldHands(c, start)') =
           IF h \in HeldHands(c, start) THEN Cardinality(HeldHands(c, start)) - 1
                                        ELSE Cardinality(HeldHands(c, start))
  <2>1. ASSUME NEW S, IsFiniteSet(S), Cardinality(S) \in Nat
        PROVE  Cardinality(S \ {h}) = IF h \in S THEN Cardinality(S) - 1 ELSE Cardinality(S)
    <3>1. CASE h \in S
      BY <2>1, <3>1, FS_RemoveElement
    <3>2. CASE h \notin S
      <4>1. S \ {h} = S
        BY <3>2
      <4> QED BY <3>2, <4>1
    <3> QED BY <3>1, <3>2
  <2>2. Cardinality(StaleHands(c, start) \ {h}) =
          IF h \in StaleHands(c, start) THEN Cardinality(StaleHands(c, start)) - 1
                                        ELSE Cardinality(StaleHands(c, start))
    BY <1>3, <2>1
  <2>3. Cardinality(HeldHands(c, start) \ {h}) =
          IF h \in HeldHands(c, start) THEN Cardinality(HeldHands(c, start)) - 1
                                       ELSE Cardinality(HeldHands(c, start))
    BY <1>3, <2>1
  <2> QED BY <1>2, <2>2, <2>3
<1>5. ASSUME NEW S \in SUBSET Serving(c), h \notin S
      PROVE  Cardinality(S) < Cardinality(Serving(c))
  <2>1. /\ IsFiniteSet(Serving(c) \ {h})
        /\ Cardinality(Serving(c) \ {h}) = Cardinality(Serving(c)) - 1
    BY <1>1, <1>3, FS_RemoveElement
  <2>2. S \subseteq Serving(c) \ {h}
    BY <1>5
  <2>3. Cardinality(S) <= Cardinality(Serving(c) \ {h}) /\ Cardinality(S) \in Nat
    BY <2>1, <2>2, FS_Subset, FS_CardinalityType
  <2> QED BY <1>3, <2>1, <2>3
<1>6. StaleHands(c, start) \in SUBSET Serving(c) /\ HeldHands(c, start) \in SUBSET Serving(c)
  BY DEF StaleHands, HeldHands
<1>7. /\ h \in StaleHands(c, start) <=> request[h].stamp < start
      /\ h \in HeldHands(c, start) <=> /\ start <= request[h].stamp
                                       /\ request[h].stamp < start + Window
  BY <1>1 DEF StaleHands, HeldHands
<1>8. /\ h \notin StaleHands(c, start) =>
           Cardinality(StaleHands(c, start)) < Cardinality(Serving(c))
      /\ h \notin HeldHands(c, start) =>
           Cardinality(HeldHands(c, start)) < Cardinality(Serving(c))
  BY <1>5, <1>6
<1> QED BY <1>1, <1>3, <1>4, <1>7, <1>8 DEF Released

(* One more grant counts in the windows it is in.                           *)
LEMMA GrantCounted ==
  ASSUME TypeOK, NEW c \in Clients, NEW s \in Time, NEW start \in Time,
         granted'[c] = Append(granted[c], s)
  PROVE  Cardinality(GrantsIn(c, start)') =
           IF start <= s /\ s < start + Window THEN Cardinality(GrantsIn(c, start)) + 1
                                              ELSE Cardinality(GrantsIn(c, start))
<1> PICK q \in Seq(Time) : q = granted[c]
  BY DEF TypeOK
<1> PICK n \in Nat : n = Len(q)
  OBVIOUS
<1> PICK r : r = granted'[c]
  OBVIOUS
<1>1. /\ DOMAIN q = 1 .. n /\ DOMAIN r = 1 .. n + 1 /\ r[n + 1] = s
      /\ \A k \in 1 .. n : r[k] = q[k]
  BY AppendFacts
<1>2. /\ GrantsIn(c, start) = {k \in 1 .. n : start <= q[k] /\ q[k] < start + Window}
      /\ GrantsIn(c, start)' = {k \in 1 .. n + 1 : start <= r[k] /\ r[k] < start + Window}
  BY <1>1 DEF GrantsIn
<1>3. n + 1 \notin GrantsIn(c, start)
  BY <1>2
<1>4. \A k \in 1 .. n + 1 : k \in 1 .. n \/ k = n + 1
  OBVIOUS
<1>5. GrantsIn(c, start)' = IF start <= s /\ s < start + Window
                             THEN GrantsIn(c, start) \cup {n + 1} ELSE GrantsIn(c, start)
  BY <1>1, <1>2, <1>4
<1>6. IsFiniteSet(GrantsIn(c, start))
  BY GrantCounts
<1> QED BY <1>3, <1>5, <1>6, FS_AddElement

(* What refilling can add within a window, whatever the order of stamps.    *)
LEMMA RefillBounds ==
  ASSUME NEW bucket \in Bucket, NEW stamp \in Time
  PROVE  /\ Refilled(bucket, stamp) <= Limit
         /\ stamp - bucket.last < Window => Refilled(bucket, stamp) <= bucket.tokens
<1> DEFINE n == Windows(stamp - bucket.last)
<1>1. stamp - bucket.last \in Int /\ bucket.tokens \in Int
  BY DEF Bucket
<1>2. n \in Int /\ (stamp - bucket.last < Window => n <= 0)
  BY <1>1, WindowsInt, NoWholeWindow
<1>3. Refilled(bucket, stamp) = IF bucket.tokens + n * Limit > Limit THEN Limit
                                ELSE bucket.tokens + n * Limit
  BY DEF Refilled
<1> HIDE DEF n
<1>4. n * Limit \in Int /\ (n <= 0 => n * Limit <= 0)
  BY <1>2, SMT
<1> QED BY <1>1, <1>2, <1>3, <1>4

(* What allow does to the client's bucket and grants, a first call's bucket *)
(* taken for a full one.                                                    *)
LEMMA AllowCalls ==
  ASSUME TypeOK, NEW h \in Handlers, Allow(h), NEW start \in Time,
         NEW c, c = request[h].client, NEW s, s = request[h].stamp
  PROVE  /\ c \in Clients /\ s \in Time /\ visitors'[c].last = s
         /\ Called(Cardinality(GrantsIn(c, start)), Cardinality(GrantsIn(c, start)'),
                   visitors[c], visitors'[c], s, start)
         /\ \A d \in Clients : d # c => visitors'[d] = visitors[d] /\ granted'[d] = granted[d]
<1>1. c \in Clients /\ s \in Time
  BY DEF Allow, TypeOK
<1> DEFINE Effect(tokens) ==
             \/ /\ tokens > 0
                /\ visitors' = [visitors EXCEPT ![c] = [tokens |-> tokens - 1, last |-> s]]
                /\ granted' = [granted EXCEPT ![c] = Append(granted[c], s)]
             \/ /\ tokens <= 0
                /\ visitors' = [visitors EXCEPT ![c] = [tokens |-> tokens, last |-> s]]
                /\ granted' = granted
<1>2. PICK tokens \in Int :
        /\ tokens <= Limit
        /\ s - visitors[c].last < Window => tokens <= visitors[c].tokens
        /\ Effect(tokens)
  <2>1. CASE visitors[c] = NoBucket
    <3>1. Effect(Limit)
      <4>1. Grant(h, c, Limit)
        BY <1>1, <2>1 DEF Allow, Refilled, Windows, NoBucket
      <4> QED BY <4>1 DEF Grant
    <3>2. visitors[c].tokens = Limit
      BY <2>1 DEF NoBucket
    <3> QED BY <3>1, <3>2
  <2>2. CASE visitors[c] # NoBucket
    <3> PICK t : t = Refilled(visitors[c], s)
      OBVIOUS
    <3>1. visitors[c] \in Bucket
      BY <1>1, <2>2 DEF TypeOK
    <3>2. t \in Int /\ t <= Limit /\ (s - visitors[c].last < Window => t <= visitors[c].tokens)
      BY <1>1, <3>1, RefillInt, RefillBounds
    <3>3. Effect(t)
      BY <2>2 DEF Allow, Grant
    <3> QED BY <3>2, <3>3
  <2> QED BY <2>1, <2>2
<1>3. /\ visitors'[c].last = s
      /\ visitors'[c].tokens = IF tokens > 0 THEN tokens - 1 ELSE tokens
      /\ granted'[c] = IF tokens > 0 THEN Append(granted[c], s) ELSE granted[c]
      /\ \A d \in Clients : d # c => visitors'[d] = visitors[d] /\ granted'[d] = granted[d]
  <2>1. c \in DOMAIN visitors /\ c \in DOMAIN granted
          /\ DOMAIN visitors = Clients /\ DOMAIN granted = Clients
    BY <1>1 DEF TypeOK
  <2>2. CASE tokens > 0
    BY <1>2, <2>1, <2>2
  <2>3. CASE tokens <= 0
    BY <1>2, <2>1, <2>3
  <2> QED BY <2>2, <2>3
<1>4. tokens > 0 => Cardinality(GrantsIn(c, start)') =
                     IF start <= s /\ s < start + Window THEN Cardinality(GrantsIn(c, start)) + 1
                                                        ELSE Cardinality(GrantsIn(c, start))
  BY <1>1, <1>3, GrantCounted
<1>5. tokens <= 0 => GrantsIn(c, start)' = GrantsIn(c, start)
  BY <1>3 DEF GrantsIn
<1>6. Called(Cardinality(GrantsIn(c, start)), Cardinality(GrantsIn(c, start)'),
             visitors[c], visitors'[c], s, start)
  BY <1>2, <1>3, <1>4, <1>5 DEF Called
<1> QED BY <1>1, <1>3, <1>6

(* Requests of other clients are left as they are.                          *)
LEMMA OthersStay ==
  ASSUME TypeOK, NEW h \in Handlers, NEW d, NEW value,
         request' = [request EXCEPT ![h] = value],
         h \notin Serving(d), value # NoRequest => value.client # d
  PROVE  /\ Serving(d)' = Serving(d)
         /\ \A start : /\ StaleHands(d, start)' = StaleHands(d, start)
                       /\ HeldHands(d, start)' = HeldHands(d, start)
<1>1. request'[h] = value /\ \A g \in Handlers : g # h => request'[g] = request[g]
  BY DEF TypeOK
<1>2. Serving(d)' = Serving(d)
  BY <1>1 DEF Serving
<1>3. \A g \in Serving(d) : request'[g] = request[g]
  BY <1>1 DEF Serving
<1> QED BY <1>2, <1>3 DEF StaleHands, HeldHands

LEMMA BudgetAllow ==
  ASSUME BudgetInv, NEW h \in Handlers, Allow(h)
  PROVE  NotAhead' /\ Together' /\ OnBudget'
<1> USE DEF BudgetInv
<1> PICK c : c = request[h].client
  OBVIOUS
<1> PICK s : s = request[h].stamp
  OBVIOUS
<1>0. 0 \in Time
  OBVIOUS
<1>1. /\ c \in Clients /\ s \in Time /\ s <= now
      /\ \A d \in Clients : d # c => visitors'[d] = visitors[d] /\ granted'[d] = granted[d]
  <2>1. s <= now
    BY DEF NotAhead, Allow
  <2> QED BY <1>0, <2>1, AllowCalls
<1>2. /\ now' = now /\ together' = together
      /\ ~Idle(h) /\ request' = [request EXCEPT ![h] = NoRequest]
  BY DEF Allow
<1>3. visitors'[c].last = s
  BY <1>0, AllowCalls
<1>4. NotAhead'
  <2>1. \A g \in Handlers : ~Idle(g)' => request'[g].stamp <= now'
    BY <1>2 DEF NotAhead, TypeOK
  <2>2. \A d \in Clients : visitors'[d].last <= now'
    BY <1>1, <1>2, <1>3 DEF NotAhead
  <2> QED BY <2>1, <2>2 DEF NotAhead
<1>5. ASSUME NEW d \in Clients, d # c, NEW start \in Time
      PROVE  /\ Serving(d)' = Serving(d) /\ GrantsIn(d, start)' = GrantsIn(d, start)
             /\ StaleHands(d, start)' = StaleHands(d, start)
             /\ HeldHands(d, start)' = HeldHands(d, start)
  <2>1. h \notin Serving(d)
    BY <1>5 DEF Serving
  <2> QED BY <1>1, <1>2, <1>5, <2>1, OthersStay DEF GrantsIn
<1>6. ASSUME NEW d \in Clients PROVE Cardinality(Serving(d)') <= together'[d]
  <2>1. Serving(d)' \subseteq Serving(d)
    BY <1>0, <1>2, <1>5, HandsReleased
  <2>2. Cardinality(Serving(d)') <= Cardinality(Serving(d)) /\ Cardinality(Serving(d)') \in Nat
    BY <2>1, ServingIsFinite, FS_Subset, FS_CardinalityType
  <2> QED BY <1>2, <2>2, ServingIsFinite DEF Together, TypeOK
<1>7. ASSUME NEW start \in Time PROVE BudgetOf(c, start)'
  <2> PICK n \in Nat : n = Cardinality(GrantsIn(c, start))
    BY <1>1, GrantCounts
  <2> PICK hands \in Nat, count \in Nat, stale \in Nat, held \in Nat :
        /\ hands = together[c] /\ count = Cardinality(Serving(c))
        /\ stale = Cardinality(StaleHands(c, start)) /\ held = Cardinality(HeldHands(c, start))
    BY <1>1, HandCounts, ServingIsFinite DEF TypeOK
  <2> PICK stale2, held2 :
        /\ stale2 = Cardinality(StaleHands(c, start)')
        /\ held2 = Cardinality(HeldHands(c, start)')
    OBVIOUS
  <2>1. stale2 \in Nat /\ held2 \in Nat
    <3>1. StaleHands(c, start)' \subseteq Handlers /\ HeldHands(c, start)' \subseteq Handlers
      BY DEF StaleHands, HeldHands, Serving
    <3> QED BY <3>1, FS_Subset, FS_CardinalityType
  <2>2. Released(stale, stale2, held, held2, count, s, start)
    BY <1>2, HandsReleased
  <2>3. stale <= count /\ held <= count /\ count <= hands
    BY <1>1, HandCounts DEF Together
  <2>4. Released(stale, stale2, held, held2, hands, s, start)
    BY <2>2, <2>3 DEF Released
  <2>5. Budget(n, visitors[c], now, stale, held, hands, start)
    BY <1>1 DEF OnBudget, BudgetOf
  <2>6. visitors[c].tokens \in Int /\ visitors[c].last \in Int /\ visitors[c].last <= now
    BY <1>1, BucketNumbers DEF NotAhead
  <2>7. now \in Nat /\ start \in Nat /\ s \in Nat
    BY <1>1 DEF TypeOK
  <2>8. Called(n, Cardinality(GrantsIn(c, start)'), visitors[c], visitors'[c], s, start)
    BY AllowCalls
  <2>9. Budget(Cardinality(GrantsIn(c, start)'), visitors'[c], now, stale2, held2, hands, start)
    BY <1>1, <2>1, <2>3, <2>4, <2>5, <2>6, <2>7, <2>8, BudgetCall
  <2> QED BY <1>2, <2>9 DEF BudgetOf
<1>8. ASSUME NEW d \in Clients, d # c, NEW start \in Time PROVE BudgetOf(d, start)'
  BY <1>1, <1>2, <1>5, <1>8 DEF OnBudget, BudgetOf
<1>9. OnBudget'
  BY <1>7, <1>8 DEF OnBudget
<1> QED BY <1>4, <1>6, <1>9 DEF Together

(* A stamp that is taken now is neither older than a window that has begun  *)
(* nor in one that is over.                                                 *)
LEMMA BudgetStamp ==
  ASSUME BudgetInv, NEW h \in Handlers, Stamp(h)
  PROVE  NotAhead' /\ Together' /\ OnBudget'
<1> USE DEF BudgetInv
<1> PICK c \in Clients :
      /\ request' = [request EXCEPT ![h] = [client |-> c, stamp |-> now]]
      /\ together' = [together EXCEPT ![c] =
                        IF Cardinality(Serving(c)) < @ THEN @ ELSE Cardinality(Serving(c)) + 1]
  BY DEF Stamp
<1>1. /\ request'[h] = [client |-> c, stamp |-> now]
      /\ \A g \in Handlers : g # h => request'[g] = request[g]
  BY DEF TypeOK
<1>2. UNCHANGED <<now, visitors, granted>> /\ Idle(h) /\ now \in Nat
  BY DEF Stamp, TypeOK
<1>3. NotAhead'
  BY <1>1, <1>2 DEF NotAhead, TypeOK
<1> PICK count \in Nat, hands \in Nat : count = Cardinality(Serving(c)) /\ hands = together[c]
  BY ServingIsFinite DEF TypeOK
<1> PICK hands2 \in Nat : hands2 = IF count < hands THEN hands ELSE count + 1
  OBVIOUS
<1>4. together'[c] = hands2 /\ hands <= hands2 /\ count + 1 <= hands2 /\ count <= hands
  BY DEF TypeOK, Together
<1>5. \A d \in Clients : d # c => together'[d] = together[d]
  BY DEF TypeOK
<1>6. Serving(c)' = Serving(c) \cup {h} /\ h \notin Serving(c)
  <2>1. [client |-> c, stamp |-> now] # NoRequest
    BY DEF NoRequest
  <2> QED BY <1>1, <1>2, <2>1 DEF Serving
<1>7. Cardinality(Serving(c)') <= together'[c]
  <2>1. Cardinality(Serving(c) \cup {h}) = count + 1
    BY ONLY <1>6, ServingIsFinite, FS_AddElement, count = Cardinality(Serving(c))
  <2> QED BY <1>4, <1>6, <2>1
<1>8. ASSUME NEW d \in Clients, d # c
      PROVE  /\ Serving(d)' = Serving(d)
             /\ \A start : /\ StaleHands(d, start)' = StaleHands(d, start)
                           /\ HeldHands(d, start)' = HeldHands(d, start)
  <2>1. h \notin Serving(d)
    BY <1>2 DEF Serving
  <2> PICK value : value = [client |-> c, stamp |-> now]
    OBVIOUS
  <2>2. request' = [request EXCEPT ![h] = value] /\ value.client # d
    BY <1>8
  <2> QED BY ONLY TypeOK, h \in Handlers, <2>1, <2>2, OthersStay
<1>9. ASSUME NEW start \in Time PROVE BudgetOf(c, start)'
  <2> PICK n \in Nat : n = Cardinality(GrantsIn(c, start))
    BY GrantCounts
  <2> PICK stale \in Nat, held \in Nat :
        /\ stale = Cardinality(StaleHands(c, start)) /\ held = Cardinality(HeldHands(c, start))
    BY HandCounts
  <2> PICK stale2, held2 :
        /\ stale2 = Cardinality(StaleHands(c, start)')
        /\ held2 = Cardinality(HeldHands(c, start)')
    OBVIOUS
  <2>1. stale2 \in Nat /\ held2 \in Nat
    <3>1. StaleHands(c, start)' \subseteq Handlers /\ HeldHands(c, start)' \subseteq Handlers
      BY DEF StaleHands, HeldHands, Serving
    <3> QED BY <3>1, FS_Subset, FS_CardinalityType
  <2>2. \A g \in Serving(c) : request'[g] = request[g]
    BY <1>1, <1>6 DEF Serving
  <2>3. start <= now => stale2 = stale
    <3>1. start <= now => StaleHands(c, start)' = StaleHands(c, start)
      BY <1>1, <1>2, <1>6, <2>2 DEF StaleHands
    <3> QED BY <3>1
  <2>4. start + Window <= now => held2 = held
    <3>1. start + Window <= now => HeldHands(c, start)' = HeldHands(c, start)
      BY <1>1, <1>2, <1>6, <2>2 DEF HeldHands
    <3> QED BY <3>1
  <2>5. stale <= hands /\ held <= hands
    BY <1>4, HandCounts
  <2>6. Budget(n, visitors[c], now, stale, held, hands, start)
    BY DEF OnBudget, BudgetOf
  <2>7. visitors[c].tokens \in Int /\ visitors[c].last \in Int /\ start \in Nat
    BY BucketNumbers
  <2>8. Budget(n, visitors[c], now, stale2, held2, hands2, start)
    BY ONLY n \in Nat, stale \in Nat, held \in Nat, hands \in Nat,
            hands2 \in Nat, <1>2, <1>4, <2>1, <2>3, <2>4, <2>5, <2>6, <2>7, BudgetGrows
  <2>9. GrantsIn(c, start)' = GrantsIn(c, start) /\ visitors'[c] = visitors[c]
    BY <1>2 DEF GrantsIn
  <2> QED BY <1>2, <1>4, <2>8, <2>9 DEF BudgetOf
<1>10. ASSUME NEW d \in Clients, d # c, NEW start \in Time PROVE BudgetOf(d, start)'
  <2>1. GrantsIn(d, start)' = GrantsIn(d, start) /\ visitors'[d] = visitors[d]
    BY <1>2 DEF GrantsIn
  <2> QED BY <1>2, <1>5, <1>8, <1>10, <2>1 DEF OnBudget, BudgetOf
<1>11. OnBudget'
  BY <1>9, <1>10 DEF OnBudget
<1>12. Together'
  BY <1>5, <1>7, <1>8 DEF Together
<1> QED BY <1>3, <1>11, <1>12

LEMMA BudgetTime == ASSUME BudgetInv, Tick PROVE NotAhead' /\ Together' /\ OnBudget'
<1> USE DEF BudgetInv
<1>1. now' = now + 1 /\ UNCHANGED <<request, visitors, granted, together>> /\ now \in Nat
  BY DEF Tick, TypeOK
<1>2. NotAhead'
  <2>1. \A h \in Handlers : request[h].stamp \in Int
    BY DEF TypeOK, NoRequest
  <2>2. \A c \in Clients : visitors[c].last \in Int
    BY BucketNumbers
  <2> QED BY <1>1, <2>1, <2>2 DEF NotAhead
<1>3. ASSUME NEW d \in Clients, NEW start \in Time
      PROVE  Budget(Cardinality(GrantsIn(d, start)), visitors[d], now + 1,
                    Cardinality(StaleHands(d, start)), Cardinality(HeldHands(d, start)),
                    together[d], start)
  <2> PICK n \in Nat : n = Cardinality(GrantsIn(d, start))
    BY GrantCounts
  <2> PICK hands \in Nat, stale \in Nat, held \in Nat :
        /\ hands = together[d] /\ stale = Cardinality(StaleHands(d, start))
        /\ held = Cardinality(HeldHands(d, start))
    BY HandCounts DEF TypeOK
  <2>1. stale + held <= hands
    <3>1. StaleHands(d, start) \cap HeldHands(d, start) = {}
      <4>1. \A h \in Serving(d) : request[h].stamp \in Int
        BY DEF Serving, TypeOK, NoRequest
      <4>2. \A h \in Serving(d) : ~(request[h].stamp < start /\ start <= request[h].stamp)
        BY <4>1
      <4> QED BY ONLY <4>2 DEF StaleHands, HeldHands
    <3>2. /\ IsFiniteSet(StaleHands(d, start)) /\ IsFiniteSet(HeldHands(d, start))
      BY HandCounts
    <3>3. Cardinality(StaleHands(d, start) \cup HeldHands(d, start))
            = stale + held - Cardinality({})
      BY <3>1, <3>2, FS_Union
    <3>4. StaleHands(d, start) \cup HeldHands(d, start) \subseteq Serving(d)
      BY DEF StaleHands, HeldHands
    <3>5. Cardinality(StaleHands(d, start) \cup HeldHands(d, start)) <= Cardinality(Serving(d))
      BY <3>4, ServingIsFinite, FS_Subset
    <3>6. Cardinality(Serving(d)) <= hands /\ Cardinality(Serving(d)) \in Nat
      BY ServingIsFinite DEF Together
    <3> QED BY <3>3, <3>5, <3>6, FS_EmptySet
  <2>2. Budget(n, visitors[d], now, stale, held, hands, start)
    BY DEF OnBudget, BudgetOf
  <2>3. visitors[d].tokens \in Int /\ visitors[d].last \in Int /\ visitors[d].last <= now
    BY BucketNumbers DEF NotAhead
  <2>4. start \in Nat
    OBVIOUS
  <2> QED BY <1>1, <2>1, <2>2, <2>3, <2>4, BudgetTick
<1>4. ASSUME NEW d \in Clients
      PROVE  /\ Serving(d)' = Serving(d)
             /\ \A start \in Time :
                  /\ GrantsIn(d, start)' = GrantsIn(d, start)
                  /\ StaleHands(d, start)' = StaleHands(d, start)
                  /\ HeldHands(d, start)' = HeldHands(d, start)
  BY <1>1 DEF GrantsIn, StaleHands, HeldHands, Serving
<1>5. Together'
  BY <1>1, <1>4 DEF Together
<1>6. OnBudget'
  BY <1>1, <1>3, <1>4 DEF OnBudget, BudgetOf
<1> QED BY <1>2, <1>5, <1>6

LEMMA NextBudget == BudgetInv /\ [Next]_vars => BudgetInv'
<1> SUFFICES ASSUME BudgetInv, [Next]_vars PROVE BudgetInv'
  OBVIOUS
<1>1. TypeOK'
  BY StepType DEF BudgetInv
<1>2. CASE UNCHANGED vars
  <2>1. NotAhead'
    BY <1>2 DEF vars, BudgetInv, NotAhead
  <2>2. ASSUME NEW c \in Clients
        PROVE  /\ visitors'[c] = visitors[c] /\ Serving(c)' = Serving(c)
               /\ together'[c] = together[c] /\ now' = now
               /\ \A start \in Time :
                    /\ GrantsIn(c, start)' = GrantsIn(c, start)
                    /\ StaleHands(c, start)' = StaleHands(c, start)
                    /\ HeldHands(c, start)' = HeldHands(c, start)
    BY <1>2 DEF vars, GrantsIn, StaleHands, HeldHands, Serving
  <2>3. OnBudget' /\ Together'
    BY <2>2 DEF BudgetInv, OnBudget, BudgetOf, Together
  <2> QED BY <1>1, <2>1, <2>3 DEF BudgetInv
<1>3. ASSUME NEW h \in Handlers, Stamp(h) \/ Allow(h) PROVE BudgetInv'
  BY <1>1, <1>3, BudgetAllow, BudgetStamp DEF BudgetInv
<1>4. CASE Tick
  BY <1>1, <1>4, BudgetTime DEF BudgetInv
<1> QED BY <1>2, <1>3, <1>4 DEF Next

LEMMA BudgetBounds == BudgetInv => LimitPerCaller
<1> SUFFICES ASSUME BudgetInv, NEW c \in Clients, NEW start \in Time,
                    GrantsIn(c, start) # {}
             PROVE  Cardinality(GrantsIn(c, start)) < (Limit + 1) * together[c]
  BY DEF LimitPerCaller
<1> PICK n \in Nat : n = Cardinality(GrantsIn(c, start)) /\ n # 0
  BY GrantCounts, FS_EmptySet DEF BudgetInv
<1> PICK hands \in Nat, stale \in Nat, held \in Nat :
      /\ hands = together[c] /\ stale = Cardinality(StaleHands(c, start))
      /\ held = Cardinality(HeldHands(c, start))
  BY HandCounts DEF BudgetInv, TypeOK
<1> PICK all \in Nat, some \in Nat :
      /\ all = Limit * hands /\ some = Limit * stale /\ Limit * (stale + 1) = some + Limit
      /\ hands = 0 => all = 0
  BY Products
<1>1. Budget(n, visitors[c], now, stale, held, hands, start)
  BY DEF BudgetInv, OnBudget, BudgetOf
<1>2. now \in Nat /\ start \in Nat
  BY DEF BudgetInv, TypeOK
<1>3. stale <= hands
  BY HandCounts, ServingIsFinite DEF BudgetInv, Together
<1>4. n <= all + hands - 1
  <2>1. CASE now < start
    BY <1>1, <2>1 DEF Budget
  <2>2. CASE start <= now /\ now < start + Window
    <3>1. Within(n, visitors[c], stale, hands, start)
      BY <1>1, <2>2 DEF Budget
    <3> PICK last \in Int, tokens \in Int :
          last = visitors[c].last /\ tokens = visitors[c].tokens
      BY BucketNumbers DEF BudgetInv
    <3>2. CASE last < start
      <4>1. n + some + Limit <= all
        BY <3>1, <3>2 DEF Within
      <4> QED BY ONLY <4>1, n \in Nat, n # 0, some \in Nat, all \in Nat, hands \in Nat,
                      hands = 0 => all = 0, LimiterAssumption
    <3>3. CASE last >= start
      <4>1. n + some <= all
        BY <3>1, <3>3 DEF Within
      <4> QED BY ONLY <4>1, n \in Nat, n # 0, some \in Nat, all \in Nat, hands \in Nat,
                      hands = 0 => all = 0
    <3> QED BY <1>2, <3>2, <3>3
  <2>3. CASE start + Window <= now
    BY <1>1, <2>3 DEF Budget, Late
  <2> QED BY <1>2, <2>1, <2>2, <2>3
<1>5. (Limit + 1) * hands = all + hands
  BY ONLY all = Limit * hands, hands \in Nat, LimiterAssumption
<1> QED BY <1>4, <1>5

(* allow: for any number of handlers, overtaking each other as they may, a  *)
(* client gets no more through in a window than the limit for each of the   *)
(* requests it ever had waiting at a time, and one more for each but the    *)
(* last.  A client that has one at a time gets Limit at most.               *)
THEOREM GrantsPerCaller == Spec => []LimitPerCaller
<1>1. BudgetInv /\ [Next]_vars => BudgetInv'
  BY NextBudget
<1>2. BudgetInv => LimitPerCaller
  BY BudgetBounds
<1> QED BY InitBudget, <1>1, <1>2, PTL DEF Spec
===============================================================================
