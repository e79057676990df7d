------------------------------ MODULE SignerProofs ------------------------------
(***************************************************************************)
(* The signer spends a nonce once per session, for every set of requests,  *)
(* keys and shared addresses and any number of restarts.                   *)
(***************************************************************************)
EXTENDS Signer, TLAPS

Signing(r) == call[r].step = "signing"

(* A nonce in hand is below its counter, with nobody else, and unsigned. *)
InHand ==
  \A r \in Requests : Signing(r) =>
    /\ call[r].nonce < nonces[call[r].address]
    /\ \A q \in Requests :
         Signing(q) /\ call[q].address = call[r].address
           /\ call[q].nonce = call[r].nonce => q = r
    /\ \A x \in signed :
         ~(/\ x.session = session /\ x.address = call[r].address
           /\ x.nonce = call[r].nonce)

(* So is a signed one of this session; no signature is from a later one. *)
Counted ==
  \A x \in signed :
    /\ x.session <= session
    /\ x.session = session => x.nonce < nonces[x.address]

IInv == TypeOK /\ InHand /\ Counted /\ NonceUsedOnce

USE SignerAssumption DEF TypeOK, Call, NoCall, Signature

LEMMA InitInv == Init => IInv
BY SMT DEF Init, IInv, InHand, Counted, NonceUsedOnce, Signing

(* A call in "signing" holds a nonce of an address. *)
LEMMA SigningCall ==
  ASSUME TypeOK, NEW r \in Requests, Signing(r)
  PROVE  call[r] \in Call
BY SMT DEF Signing

LEMMA NextInv == IInv /\ [Next]_vars => IInv'
<1> SUFFICES ASSUME IInv, [Next]_vars PROVE IInv'
  OBVIOUS
<1> USE DEF IInv
<1>1. CASE Restart
  <2>1. TypeOK'
    BY <1>1, SMT DEF Restart
  <2>2. \A r \in Requests : ~Signing(r)'
    BY <1>1, SMT DEF Restart, Signing
  <2>3. Counted'
    BY <1>1, SMT DEF Restart, Counted
  <2> QED BY <1>1, <2>1, <2>2, <2>3, SMT DEF Restart, InHand, NonceUsedOnce
<1>2. ASSUME NEW r \in Requests, MissingKey(r) PROVE IInv'
  <2>1. TypeOK'
    BY <1>2, SMT DEF MissingKey
  <2>2. \A q \in Requests : Signing(q)' => Signing(q) /\ call'[q] = call[q]
    BY <1>2, SMT DEF MissingKey, Signing
  <2> QED BY <1>2, <2>1, <2>2, SMT DEF MissingKey, InHand, Counted, NonceUsedOnce, Signing
<1>3. ASSUME NEW r \in Requests, TakeNonce(r) PROVE IInv'
  <2>10. PICK alias \in Keys :
          /\ call' = [call EXCEPT ![r] = [step |-> "signing", address |-> AddressOf[alias],
                                         nonce |-> nonces[AddressOf[alias]]]]
          /\ nonces' = [nonces EXCEPT ![AddressOf[alias]] = @ + 1]
    BY <1>3, Zenon DEF TakeNonce
  <2> DEFINE a == AddressOf[alias]
  <2>11. a \in Addresses
    BY SMT
  <2>1. /\ call' = [call EXCEPT ![r] =
                        [step |-> "signing", address |-> a, nonce |-> nonces[a]]]
        /\ nonces' = [nonces EXCEPT ![a] = @ + 1]
    BY <2>10
  <2> HIDE DEF a
  <2>2. UNCHANGED <<session, signed, spent>>
    BY <1>3 DEF TakeNonce
  <2>3. /\ nonces'[a] = nonces[a] + 1
        /\ \A b \in Addresses : nonces[b] \in Nat /\ nonces'[b] \in Nat
                                 /\ nonces[b] <= nonces'[b]
    BY <2>1, <2>11, SMT
  <2>4. TypeOK'
    BY <2>1, <2>2, <2>11, SMT
  <2>5. \A q \in Requests :
          /\ q # r => call'[q] = call[q]
          /\ q = r => call'[q] = [step |-> "signing", address |-> a, nonce |-> nonces[a]]
    BY <2>1, SMT
  <2>6. Counted'
    <3>1. \A x \in signed : x.address \in Addresses /\ x.nonce \in Nat
      BY SMT
    <3> QED BY <2>2, <2>3, <3>1, SMT DEF Counted
  <2>7. InHand'
    <3>1. \A q \in Requests : Signing(q) => call[q] \in Call
      BY SigningCall
    <3>2. \A x \in signed : x.session = session /\ x.address = a => x.nonce < nonces[a]
      BY DEF Counted
    <3>3. nonces[a] \in Nat
      BY <2>11
    <3>4. \A q \in Requests : Signing(q) /\ call[q].address = a => call[q].nonce < nonces[a]
      BY DEF InHand
    <3>5. \A q \in Requests : Signing(q)' =>
            \/ q # r /\ Signing(q) /\ call'[q] = call[q]
            \/ q = r /\ call'[q].address = a /\ call'[q].nonce = nonces[a]
      BY <2>5, SMT DEF Signing
    <3>6. ASSUME NEW q \in Requests, Signing(q)'
          PROVE  call'[q].nonce < nonces'[call'[q].address]
      <4>1. CASE q = r
        BY <2>3, <3>3, <3>5, <3>6, <4>1, SMT
      <4>2. CASE q # r
        BY <2>3, <3>1, <3>5, <3>6, <4>2, SMT DEF InHand
      <4> QED BY <4>1, <4>2
    <3>7. ASSUME NEW p \in Requests, NEW q \in Requests, Signing(p)', Signing(q)',
                 call'[p].address = call'[q].address, call'[p].nonce = call'[q].nonce
          PROVE  p = q
      BY <3>1, <3>3, <3>4, <3>5, <3>7, SMT DEF InHand
    <3>8. ASSUME NEW q \in Requests, Signing(q)', NEW x \in signed
          PROVE  ~(/\ x.session = session /\ x.address = call'[q].address
                   /\ x.nonce = call'[q].nonce)
      BY <3>2, <3>3, <3>5, <3>8, SMT DEF InHand
    <3> QED BY <2>2, <3>6, <3>7, <3>8, Zenon DEF InHand
  <2> QED BY <2>2, <2>4, <2>6, <2>7 DEF NonceUsedOnce
<1>4. ASSUME NEW r \in Requests, Sign(r) PROVE IInv'
  <2> DEFINE y == [session |-> session, address |-> call[r].address,
                   nonce |-> call[r].nonce, request |-> r]
  <2>1. call[r] \in Call /\ Signing(r)
    BY <1>4, SigningCall DEF Sign, Signing
  <2>2. y \in Signature
    BY <2>1, SMT
  <2>3. /\ signed' = signed \cup {y} /\ UNCHANGED <<nonces, session, spent>>
        /\ call' = [call EXCEPT ![r] = [step |-> "done"]]
    BY <1>4 DEF Sign
  <2>4. TypeOK'
    BY <2>2, <2>3, SMT
  <2>5. /\ y.session = session /\ y.address = call[r].address /\ y.nonce = call[r].nonce
    OBVIOUS
  <2> HIDE DEF y
  <2>6. \A q \in Requests : Signing(q)' => Signing(q) /\ call'[q] = call[q] /\ q # r
    BY <2>3, SMT DEF Signing
  <2>7. Counted'
    BY <2>1, <2>3, <2>5, SMT DEF Counted, InHand
  <2>8. InHand'
    BY <2>1, <2>3, <2>5, <2>6, SMT DEF InHand, Signing
  <2>9. NonceUsedOnce'
    BY <2>1, <2>3, <2>5, SMT DEF NonceUsedOnce, InHand
  <2> QED BY <2>4, <2>7, <2>8, <2>9
<1>5. ASSUME NEW r \in Requests, Fail(r) PROVE IInv'
  <2>1. call[r] \in Call
    BY <1>5, SigningCall DEF Fail, Signing
  <2>2. TypeOK'
    BY <1>5, <2>1, SMT DEF Fail
  <2>3. \A q \in Requests : Signing(q)' => Signing(q) /\ call'[q] = call[q]
    BY <1>5, SMT DEF Fail, Signing
  <2> QED BY <1>5, <2>2, <2>3, SMT DEF Fail, InHand, Counted, NonceUsedOnce, Signing
<1>6. CASE UNCHANGED vars
  BY <1>6, SMT DEF vars, InHand, Counted, NonceUsedOnce, Signing
<1> QED BY <1>1, <1>2, <1>3, <1>4, <1>5, <1>6 DEF Next

(* signer/src/lib.rs: counters, calls and signatures have their types, with *)
(* every number of sessions and of requests at a time.                     *)
THEOREM SignerTypes == Spec => []TypeOK
<1>1. IInv => TypeOK
  BY DEF IInv
<1> QED BY InitInv, NextInv, <1>1, PTL DEF Spec

(* signer/src/lib.rs, the critical section of sign_transaction: a nonce is  *)
(* signed by one request of a session only.                                *)
THEOREM NoncesAreSpentOnce == Spec => []NonceUsedOnce
<1>1. IInv => NonceUsedOnce
  BY DEF IInv
<1> QED BY InitInv, NextInv, <1>1, PTL DEF Spec

(* Nonce n of address a is accounted for: lost, signed, or being signed. *)
Accounted(a, n) ==
  \/ n \in spent[a]
  \/ \E x \in signed : x.session = session /\ x.address = a /\ x.nonce = n
  \/ \E r \in Requests : Signing(r) /\ call[r].address = a /\ call[r].nonce = n

(* A step of one session keeps account of the nonces below the counters. *)
LEMMA AccountKept ==
  ASSUME IInv, GapsOnlyFromFailures, [Next]_vars, ~Restart,
         NEW a \in Addresses, NEW n \in 0 .. nonces[a] - 1
  PROVE  Accounted(a, n)'
<1>1. Accounted(a, n)
  BY Zenon DEF GapsOnlyFromFailures, Accounted, Signing
<1> USE DEF IInv
<1>2. ASSUME NEW r \in Requests, MissingKey(r) PROVE Accounted(a, n)'
  BY <1>1, <1>2, SMT DEF MissingKey, Accounted, Signing
<1>3. ASSUME NEW r \in Requests, TakeNonce(r) PROVE Accounted(a, n)'
  <2>1. /\ call[r] = NoCall /\ UNCHANGED <<session, signed, spent>>
        /\ \A q \in Requests : q # r => call'[q] = call[q]
    BY <1>3, SMT DEF TakeNonce
  <2> QED BY <1>1, <2>1, SMT DEF Accounted, Signing
<1>4. ASSUME NEW r \in Requests, Sign(r) PROVE Accounted(a, n)'
  <2> DEFINE y == [session |-> session, address |-> call[r].address,
                   nonce |-> call[r].nonce, request |-> r]
  <2>1. /\ signed' = signed \cup {y} /\ UNCHANGED <<nonces, session, spent>>
        /\ \A q \in Requests : q # r => call'[q] = call[q]
    BY <1>4, SMT DEF Sign
  <2>2. y.session = session /\ y.address = call[r].address /\ y.nonce = call[r].nonce
    OBVIOUS
  <2> HIDE DEF y
  <2> QED BY <1>1, <2>1, <2>2, SMT DEF Accounted, Signing
<1>5. ASSUME NEW r \in Requests, Fail(r) PROVE Accounted(a, n)'
  <2>1. call[r] \in Call
    BY <1>5, SigningCall DEF Fail, Signing
  <2>2. /\ \A b \in Addresses : spent[b] \subseteq spent'[b]
        /\ call[r].nonce \in spent'[call[r].address]
        /\ \A q \in Requests : q # r => call'[q] = call[q]
        /\ UNCHANGED <<nonces, session, signed>>
    BY <1>5, <2>1, SMT DEF Fail
  <2> QED BY <1>1, <2>2, SMT DEF Accounted, Signing
<1>6. CASE UNCHANGED vars
  BY <1>1, <1>6, SMT DEF vars, Accounted, Signing
<1> QED BY <1>2, <1>3, <1>4, <1>5, <1>6 DEF Next

LEMMA GapsStep == IInv /\ GapsOnlyFromFailures /\ [Next]_vars => GapsOnlyFromFailures'
<1> SUFFICES ASSUME IInv, GapsOnlyFromFailures, [Next]_vars,
                    NEW a \in Addresses, NEW n \in 0 .. nonces'[a] - 1
             PROVE  Accounted(a, n)'
  BY Zenon DEF GapsOnlyFromFailures, Accounted, Signing
<1> USE DEF IInv
<1>1. CASE Restart
  BY <1>1, SMT DEF Restart
<1>2. CASE ~Restart /\ n \in 0 .. nonces[a] - 1
  BY <1>2, AccountKept
<1>3. CASE ~Restart /\ n \notin 0 .. nonces[a] - 1
  (* Only TakeNonce moves a counter: the new nonce is the one in hand. *)
  <2>1. nonces' # nonces
    BY <1>3
  <2>2. PICK r \in Requests : TakeNonce(r)
    BY <1>3, <2>1, SMT DEF Next, vars, MissingKey, Sign, Fail
  <2>3. PICK alias \in Keys :
          /\ call' = [call EXCEPT ![r] = [step |-> "signing", address |-> AddressOf[alias],
                                         nonce |-> nonces[AddressOf[alias]]]]
          /\ nonces' = [nonces EXCEPT ![AddressOf[alias]] = @ + 1]
    BY <2>2, Zenon DEF TakeNonce
  <2>4. a = AddressOf[alias] /\ n = nonces[a]
    <3>1. /\ nonces \in [Addresses -> Nat] /\ n \in 0 .. nonces'[a] - 1
          /\ n \notin 0 .. nonces[a] - 1
      BY <1>3
    <3>2. nonces[a] \in Nat
      BY <3>1
    <3>3. CASE a # AddressOf[alias]
      <4>1. nonces'[a] = nonces[a]
        BY <2>3, <3>1, <3>3, Zenon
      <4> QED BY <3>1, <4>1
    <3>4. CASE a = AddressOf[alias]
      <4>1. nonces'[a] = nonces[a] + 1
        BY <2>3, <3>1, <3>4, Zenon
      <4> QED BY <3>1, <3>2, <3>4, <4>1, SMT
    <3> QED BY <3>3, <3>4
  <2>5. Signing(r)' /\ call'[r].address = a /\ call'[r].nonce = n
    BY <2>3, <2>4, SMT DEF Signing
  <2> QED BY <2>5 DEF Accounted
<1> QED BY <1>1, <1>2, <1>3

(* signer/src/lib.rs: a gap in the nonces of an address comes from a call   *)
(* that failed after its critical section and from nothing else.           *)
THEOREM GapsComeFromFailures == Spec => []GapsOnlyFromFailures
<1>1. Init => GapsOnlyFromFailures
  BY SMT DEF Init, GapsOnlyFromFailures
<1> QED BY InitInv, NextInv, GapsStep, <1>1, PTL DEF Spec
===============================================================================
