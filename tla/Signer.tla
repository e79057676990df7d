--------------------------------- MODULE Signer ---------------------------------
(***************************************************************************)
(* MemoryKeystore::sign_transaction (signer/src/lib.rs): a nonce is taken  *)
(* and counted up under the mutex, the transaction is signed afterwards,   *)
(* without it.  Requests run concurrently.  The counters are keyed by      *)
(* address and live in the process.                                        *)
(***************************************************************************)
EXTENDS Naturals, FiniteSets

CONSTANTS
  Requests,    \* concurrent calls; a bound as well
  Aliases,     \* key aliases callers use, some of them unknown
  Keys,        \* aliases the keystore holds
  AddressOf,   \* address of each key: two aliases may share a key
  Addresses,
  MaxSessions  \* bound: starts of the signer

ASSUME SignerAssumption ==
  /\ Keys \subseteq Aliases /\ AddressOf \in [Keys -> Addresses]
  /\ MaxSessions \in Nat \ {0}

VARIABLES
  nonces,   \* the counters of this session
  call,     \* per request: where sign_transaction is
  session,  \* which start of the signer this is
  signed,   \* signatures made (history)
  spent     \* nonces taken without a signature, this session (history)

vars == <<nonces, call, session, signed, spent>>

NoCall == [step |-> "idle"]
Call   == [step : {"signing"}, address : Addresses, nonce : Nat]
Signature == [session : Nat, address : Addresses, nonce : Nat, request : Requests]

TypeOK ==
  /\ nonces \in [Addresses -> Nat]
  /\ call \in [Requests -> Call \cup {NoCall, [step |-> "done"]}]
  /\ session \in 1 .. MaxSessions
  /\ signed \in SUBSET Signature
  /\ spent \in [Addresses -> SUBSET Nat]

Init ==
  /\ nonces = [a \in Addresses |-> 0]
  /\ call = [r \in Requests |-> NoCall]
  /\ session = 1 /\ signed = {}
  /\ spent = [a \in Addresses |-> {}]

(* Mutant: the counter moves before the key is found. *)
MissingKeyCounts(r) ==
  /\ call[r] = NoCall
  /\ Aliases # Keys
  /\ call' = [call EXCEPT ![r] = [step |-> "done"]]
  /\ \E a \in Addresses : nonces' = [nonces EXCEPT ![a] = @ + 1]
  /\ UNCHANGED <<session, signed, spent>>

(* An unknown alias fails before a nonce is taken. *)
MissingKey(r) ==
  /\ call[r] = NoCall
  /\ Aliases # Keys
  /\ call' = [call EXCEPT ![r] = [step |-> "done"]]
  /\ UNCHANGED <<nonces, session, signed, spent>>

(* Mutant: the nonce in hand is one behind. *)
TakeNonceBehind(r) ==
  /\ call[r] = NoCall
  /\ \E alias \in Keys :
       LET a == AddressOf[alias]
       IN /\ call' = [call EXCEPT ![r] =
                        [step |-> "signing", address |-> a, nonce |-> nonces[a] - 1]]
          /\ nonces' = [nonces EXCEPT ![a] = @ + 1]
  /\ UNCHANGED <<session, signed, spent>>

(* The critical section. *)
TakeNonce(r) ==
  /\ call[r] = NoCall
  /\ \E alias \in Keys :
       LET a == AddressOf[alias]
       IN /\ call' = [call EXCEPT ![r] =
                        [step |-> "signing", address |-> a, nonce |-> nonces[a]]]
          /\ nonces' = [nonces EXCEPT ![a] = @ + 1]
  /\ UNCHANGED <<session, signed, spent>>

Sign(r) ==
  /\ call[r].step = "signing"
  /\ signed' = signed \cup {[session |-> session, address |-> call[r].address,
                             nonce |-> call[r].nonce, request |-> r]}
  /\ call' = [call EXCEPT ![r] = [step |-> "done"]]
  /\ UNCHANGED <<nonces, session, spent>>

(* Mutant: a failed call gives its nonce back. *)
FailGivesBack(r) ==
  /\ call[r].step = "signing"
  /\ nonces' = [nonces EXCEPT ![call[r].address] = @ - 1]
  /\ call' = [call EXCEPT ![r] = [step |-> "done"]]
  /\ UNCHANGED <<session, signed, spent>>

(* The wallet's error is returned, or the caller drops the future: the     *)
(* nonce is not given back.                                                *)
Fail(r) ==
  /\ call[r].step = "signing"
  /\ spent' = [spent EXCEPT ![call[r].address] = @ \cup {call[r].nonce}]
  /\ call' = [call EXCEPT ![r] = [step |-> "done"]]
  /\ UNCHANGED <<nonces, session, signed>>

(* The process is started again: the counters begin at zero. *)
Restart ==
  /\ session < MaxSessions
  /\ session' = session + 1
  /\ nonces' = [a \in Addresses |-> 0]
  /\ spent' = [a \in Addresses |-> {}]
  /\ call' = [r \in Requests |-> IF call[r] = NoCall THEN NoCall ELSE [step |-> "done"]]
  /\ UNCHANGED signed

Next == \/ Restart
        \/ \E r \in Requests : MissingKey(r) \/ TakeNonce(r) \/ Sign(r) \/ Fail(r)

Spec == Init /\ [][Next]_vars
-------------------------------------------------------------------------------
(* docs/threat-model.md: per-session nonces prevent replay.  No two        *)
(* signatures of a session by one address carry the same nonce, whatever   *)
(* aliases the requests used and in whatever order they finish.            *)
NonceUsedOnce ==
  \A x, y \in signed :
    x.session = y.session /\ x.address = y.address /\ x.nonce = y.nonce => x = y

(* Every nonce below the counter is signed, being signed, or was lost by a *)
(* failed call: only a failed call leaves a gap that stops the chain.      *)
GapsOnlyFromFailures ==
  \A a \in Addresses : \A n \in 0 .. nonces[a] - 1 :
    \/ n \in spent[a]
    \/ \E x \in signed : x.session = session /\ x.address = a /\ x.nonce = n
    \/ \E r \in Requests : call[r].step = "signing" /\ call[r].address = a
                             /\ call[r].nonce = n
===============================================================================
