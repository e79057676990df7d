------------------------------ MODULE RateLimiter ------------------------------
(***************************************************************************)
(* The API's per-IP request limiter (api/internal/middleware/ratelimit.go):*)
(* a bucket of tokens per client, refilled by whole windows only, and      *)
(* "last" moved forward by every call.  allow reads the clock before it    *)
(* takes the lock: two handlers may reach a bucket with their stamps in    *)
(* the opposite order.  Time is in ticks.                                  *)
(***************************************************************************)
EXTENDS Integers, Sequences, FiniteSets

CONSTANTS
  Clients,   \* IP addresses
  Handlers,  \* HTTP handlers running concurrently
  Limit,     \* r.limit
  Window,    \* r.window in ticks
  MaxTime    \* bound on the clock

ASSUME LimiterAssumption ==
  /\ Limit \in Nat \ {0} /\ Window \in Nat \ {0} /\ MaxTime \in Nat
  /\ IsFiniteSet(Handlers)

VARIABLES
  now,       \* the monotonic clock
  request,   \* per handler: the client it serves and its clock reading
  visitors,  \* per client: its bucket
  granted,   \* per client: the stamps of the requests let through (history)
  together   \* per client: the most requests it had here at a time (history)

vars == <<now, request, visitors, granted, together>>

Time       == 0 .. MaxTime
Bucket     == [tokens : Int, last : Time]
NoBucket   == [tokens |-> Limit, last |-> -1]
NoRequest  == [stamp |-> -1]
Idle(h)    == request[h] = NoRequest
Serving(c) == {h \in Handlers : ~Idle(h) /\ request[h].client = c}

TypeOK ==
  /\ now \in Time
  /\ request \in [Handlers -> [client : Clients, stamp : Time] \cup {NoRequest}]
  /\ visitors \in [Clients -> Bucket \cup {NoBucket}]
  /\ granted \in [Clients -> Seq(Time)]
  /\ together \in [Clients -> Nat]

Init ==
  /\ now = 0
  /\ request = [h \in Handlers |-> NoRequest]
  /\ visitors = [c \in Clients |-> NoBucket]
  /\ granted = [c \in Clients |-> <<>>]
  /\ together = [c \in Clients |-> 0]

Tick ==
  /\ now < MaxTime
  /\ now' = now + 1
  /\ UNCHANGED <<request, visitors, granted, together>>

(* A request arrives: allow calls time.Now, then waits for the lock. *)
Stamp(h) ==
  /\ Idle(h)
  /\ \E c \in Clients :
       /\ request' = [request EXCEPT ![h] = [client |-> c, stamp |-> now]]
       /\ together' = [together EXCEPT ![c] =
                         IF Cardinality(Serving(c)) < @ THEN @ ELSE Cardinality(Serving(c)) + 1]
  /\ UNCHANGED <<now, visitors, granted>>

(* Go's integer division, which truncates towards zero. *)
Windows(elapsed) ==
  IF elapsed >= 0 THEN elapsed \div Window ELSE -((-elapsed) \div Window)

(* Mutant: no cap at the limit. *)
RefilledUncapped(bucket, stamp) ==
  bucket.tokens + Windows(stamp - bucket.last) * Limit

Refilled(bucket, stamp) ==
  LET tokens == bucket.tokens + Windows(stamp - bucket.last) * Limit
  IN IF tokens > Limit THEN Limit ELSE tokens

(* Mutant: last holds the end of the window. *)
GrantUntil(h, c, tokens) ==
  /\ visitors' = [visitors EXCEPT ![c] =
                    [tokens |-> tokens - 1, last |-> request[h].stamp + Window]]
  /\ granted' = [granted EXCEPT ![c] = Append(@, request[h].stamp)]

Grant(h, c, tokens) ==
  /\ visitors' = [visitors EXCEPT ![c] =
                    [tokens |-> tokens - 1, last |-> request[h].stamp]]
  /\ granted' = [granted EXCEPT ![c] = Append(@, request[h].stamp)]

(* The rest of allow, under the lock, and Middleware's answer. *)
Allow(h) ==
  LET c      == request[h].client
      bucket == visitors[c]
      tokens == Refilled(bucket, request[h].stamp)
  IN /\ ~Idle(h)
     /\ \/ bucket = NoBucket /\ Grant(h, c, Limit)
        \/ bucket # NoBucket /\ tokens > 0 /\ Grant(h, c, tokens)
        \/ /\ bucket # NoBucket /\ tokens <= 0
           /\ visitors' = [visitors EXCEPT ![c] =
                             [tokens |-> tokens, last |-> request[h].stamp]]
           /\ UNCHANGED granted
     /\ request' = [request EXCEPT ![h] = NoRequest]
     /\ UNCHANGED <<now, together>>

Next == Tick \/ \E h \in Handlers : Stamp(h) \/ Allow(h)

Spec == Init /\ [][Next]_vars
-------------------------------------------------------------------------------
GrantsIn(c, start) ==
  {k \in DOMAIN granted[c] : start <= granted[c][k] /\ granted[c][k] < start + Window}

(* NewRateLimiter: "the provided limit per second".                         *)
(* Of the requests a client gets through, no window of stamps holds more    *)
(* than Limit.                                                              *)
LimitPerWindow ==
  \A c \in Clients : \A start \in Time : Cardinality(GrantsIn(c, start)) <= Limit

(* The same for a client whose requests may overtake each other: a stamp    *)
(* that was held while others went on can put its bucket's time back, so    *)
(* that it is refilled again.  Still no window sees more grants than the    *)
(* limit for each of the requests it ever had here at a time, and one late  *)
(* one for each but the last; so not more than Limit if it had one.         *)
LimitPerCaller ==
  \A c \in Clients : \A start \in Time :
    GrantsIn(c, start) # {} => Cardinality(GrantsIn(c, start)) < (Limit + 1) * together[c]
===============================================================================
