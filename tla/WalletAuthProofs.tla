-------------------------- MODULE WalletAuthProofs --------------------------
(***************************************************************************)
(* Proofs about WalletAuth, for any number of wallets and of concurrent    *)
(* requests, and with every failure the model has.                         *)
(*                                                                         *)
(* Three invariants, each resting on the one before:                       *)
(*   TypeInv    types, and what a request holds at each of its steps;      *)
(*   Ownership  nonces and sessions belong to the wallet they are used for,*)
(*              and a wallet's record is its newest session;               *)
(*   OnePlace   a nonce is in one place at a time.                         *)
(* For each there is a lemma per action that can disturb it.               *)
(*                                                                         *)
(* On them rest the refinement of LoginLedger, action by action, with a    *)
(* request between its check and its save as the holder of a permit, and,  *)
(* when nothing fails, HeldByClient: a stored session has reached a client *)
(* or is in the answer of a request.                                       *)
(*                                                                         *)
(* That wallets stay apart (Apart) is proved of the ledger alone and comes *)
(* down to the protocol through the refinement.  Left counts the steps a   *)
(* request has before it.                                                  *)
(***************************************************************************)
EXTENDS WalletAuth, SequenceTheorems, TLAPS

\* What the step a request is at says about its kind and what it holds.
Shape ==
    \A r \in Requests :
        /\ req[r].pc \in {"idle", "nonce", "saveNonce"} => req[r].kind = "GET"
        /\ req[r].pc \in {"before", "signature", "refresh"} => req[r].nonce = 0
        /\ req[r].pc = "saveNonce" => req[r].nonce # 0
        /\ req[r].pc \in {"signature", "bound", "claims", "compact", "saveRt"} => req[r].kind # "GET"
        /\ req[r].pc = "before" => req[r].kind # "BOUND"
        /\ req[r].pc = "signature" => req[r].kind # "PUT"
        /\ req[r].pc = "refresh" => req[r].kind = "PUT"
        /\ req[r].pc = "after" => IF req[r].kind = "GET" THEN req[r].nonce # 0 ELSE req[r].out # 0

TypeInv == TypeOK /\ Shape

-----------------------------------------------------------------------------
(* Type correctness.                                                         *)

LEMMA TypeInit == Init => TypeInv
  BY WalletAssumption, BoundAssumption
  DEF Init, TypeInv, TypeOK, StoreOK, HistoryOK, RequestsOK, Shape, NoNonce, NoRt, Idle, NoJwt, Jwt, Request, Kinds, Steps

\* What a step that only touches the requests leaves to show.
LEMMA RequestOnly ==
  ASSUME TypeOK, UNCHANGED <<now, nonceDB, rtDB, builder, issued, seen, minted, delivered>>
  PROVE  StoreOK' /\ HistoryOK'
<1>1. StoreOK'
  BY DEF TypeOK, StoreOK
<1>2. HistoryOK'
  BY DEF TypeOK, HistoryOK
<1>. QED BY <1>1, <1>2

LEMMA MintedOK ==
  ASSUME TypeInv, NEW i \in 1..Len(minted)
  PROVE  minted[i] \in [wallet : Wallets, jwt : Jwt, via : Via,
                        signer : Wallets \cup {NoWallet}]
<1>1. minted \in Seq([wallet : Wallets, jwt : Jwt, via : Via, signer : Wallets \cup {NoWallet}])
  BY DEF TypeInv, TypeOK, HistoryOK
<1>. QED BY <1>1, ElementOfSeq

LEMMA IdleOK ==
  /\ Idle \in Request
  /\ Idle.pc = "idle" /\ Idle.kind = "GET" /\ Idle.nonce = 0 /\ Idle.out = 0
  BY BoundAssumption DEF Idle, Request, Steps, Kinds, Jwt, NoJwt

\* The updates of one request that the actions make.
LEMMA StepInRequest ==
  ASSUME NEW rq \in Request, NEW step \in Steps PROVE [rq EXCEPT !.pc = step] \in Request
  BY DEF Request

LEMMA NonceInRequest ==
  ASSUME NEW rq \in Request, NEW step \in Steps, NEW n \in Nat
  PROVE  [rq EXCEPT !.pc = step, !.nonce = n] \in Request
  BY DEF Request

LEMMA JwtInRequest ==
  ASSUME NEW rq \in Request, NEW step \in Steps, NEW jwt \in Jwt
  PROVE  [rq EXCEPT !.pc = step, !.newJwt = jwt] \in Request
  BY DEF Request

LEMMA OutInRequest ==
  ASSUME NEW rq \in Request, NEW step \in Steps, NEW n \in Nat
  PROVE  [rq EXCEPT !.pc = step, !.out = n] \in Request
  BY DEF Request

\* The others keep theirs, and the histories only grow.
LEMMA UpdateOK ==
  ASSUME RequestsOK, HistoryOK, NEW r \in Requests, NEW rq \in Request,
         req' = [req EXCEPT ![r] = rq],
         rq.wallet \in Wallets, rq.nonce <= Len(issued'), rq.out <= Len(minted'),
         Len(issued') \in {Len(issued), Len(issued) + 1},
         Len(minted') \in {Len(minted), Len(minted) + 1}
  PROVE  RequestsOK'
<1>1. Len(issued) \in Nat /\ Len(minted) \in Nat
  BY DEF HistoryOK
<1>2. req' \in [Requests -> Request]
  BY DEF RequestsOK
<1>3. ASSUME NEW q \in Requests
      PROVE  /\ req'[q].nonce <= Len(issued') /\ req'[q].out <= Len(minted')
             /\ req'[q].pc # "idle" => req'[q].wallet \in Wallets
  <2>1. CASE q = r
    BY <2>1 DEF RequestsOK
  <2>2. CASE q # r
    <3>1. req'[q] = req[q] /\ req[q].nonce \in Nat /\ req[q].out \in Nat
      BY <2>2 DEF RequestsOK, Request
    <3>. QED BY <1>1, <3>1 DEF RequestsOK
  <2>. QED BY <2>1, <2>2
<1>. QED BY <1>2, <1>3 DEF RequestsOK

LEMMA DropOK ==
  ASSUME TypeInv, NEW r \in Requests, Drop(r), UNCHANGED <<issued, minted>>
  PROVE  RequestsOK' /\ Shape'
<1>1. RequestsOK'
  BY IdleOK DEF TypeInv, TypeOK, RequestsOK, HistoryOK, Drop
<1>2. Shape'
  BY IdleOK DEF TypeInv, TypeOK, RequestsOK, Shape, Drop
<1>. QED BY <1>1, <1>2

LEMMA InternalOK ==
  ASSUME NEW kind \in Kinds \ {"BOUND"}
  PROVE  Internal(kind) = IF kind = "GET" THEN "nonce" ELSE IF kind = "POST" THEN "signature" ELSE "refresh"
  BY DEF Internal, Kinds

LEMMA BeforeOK ==
  ASSUME TypeInv, NEW r \in Requests, Before(r) PROVE TypeInv'
<1> DEFINE step == Internal(req[r].kind)
<1>1. /\ step \in {"nonce", "signature", "refresh"}
      /\ step = "nonce" => req[r].kind = "GET"
      /\ step = "signature" => req[r].kind = "POST"
      /\ step = "refresh" => req[r].kind = "PUT"
  BY InternalOK DEF TypeInv, TypeOK, RequestsOK, Shape, Before, Request, Kinds
<1>2. req' = [req EXCEPT ![r].pc = step]
  BY DEF Before
<1> HIDE DEF step
<1>3. RequestsOK'
  <2>1. step \in Steps /\ req[r].pc # "idle" /\ issued' = issued /\ minted' = minted
    BY <1>1 DEF Steps, Before
  <2> DEFINE rq == [req[r] EXCEPT !.pc = step]
  <2>2. req[r] \in Request /\ req[r].wallet \in Wallets
    BY <2>1 DEF TypeInv, TypeOK, RequestsOK
  <2>3. rq \in Request
    BY <2>1, <2>2, StepInRequest
  <2>4. rq.wallet = req[r].wallet /\ rq.nonce = req[r].nonce /\ rq.out = req[r].out
    BY <2>2 DEF Request
  <2>5. req' = [req EXCEPT ![r] = rq]
    BY <1>2
  <2>6. req[r].nonce <= Len(issued) /\ req[r].out <= Len(minted)
    BY DEF TypeInv, TypeOK, RequestsOK
  <2> HIDE DEF rq
  <2>. QED BY <2>1, <2>2, <2>3, <2>4, <2>5, <2>6, UpdateOK DEF TypeInv, TypeOK
<1>4. Shape'
  <2>1. /\ req'[r].pc = step /\ req'[r].kind = req[r].kind /\ req'[r].nonce = req[r].nonce
        /\ \A q \in Requests \ {r} : req'[q] = req[q]
    BY <1>2 DEF TypeInv, TypeOK, RequestsOK, Request
  <2>2. req[r].pc = "before" /\ req[r].nonce = 0
    BY DEF Before, TypeInv, Shape
  <2>. QED BY <1>1, <2>1, <2>2 DEF TypeInv, Shape
<1>. QED BY <1>3, <1>4, RequestOnly DEF TypeInv, TypeOK, Before

LEMMA NewNonceOK ==
  ASSUME TypeInv, NEW r \in Requests, NewNonce(r) PROVE TypeInv'
<1> DEFINE nonce == req[r].wallet
<1>1. /\ req[r].pc = "nonce" /\ issued' = Append(issued, nonce)
      /\ req' = [req EXCEPT ![r].pc = "saveNonce", ![r].nonce = Len(issued) + 1]
      /\ UNCHANGED <<now, nonceDB, rtDB, builder, seen, minted, delivered>>
  BY DEF NewNonce, NewNonceId
<1>2. nonce \in Wallets
  BY <1>1 DEF TypeInv, TypeOK, RequestsOK
<1> HIDE DEF nonce
<1>3. issued \in Seq(Wallets) /\ Len(issued) \in Nat
  BY DEF TypeInv, TypeOK, HistoryOK
<1>4. Len(issued') = Len(issued) + 1 /\ issued' \in Seq(Wallets)
  BY <1>1, <1>2, <1>3
<1>5. StoreOK'
  <2>1. \A w \in Wallets : nonceDB[w].id \in Nat /\ nonceDB[w].id <= Len(issued)
    BY DEF TypeInv, TypeOK, StoreOK
  <2>2. \A w \in Wallets : nonceDB[w].id <= Len(issued')
    BY <1>3, <1>4, <2>1
  <2>. QED BY <1>1, <2>2 DEF TypeInv, TypeOK, StoreOK
<1>6. HistoryOK'
  BY <1>1, <1>3, <1>4 DEF TypeInv, TypeOK, HistoryOK
<1>7. RequestsOK'
  <2> DEFINE rq == [req[r] EXCEPT !.pc = "saveNonce", !.nonce = Len(issued) + 1]
  <2>1. req[r] \in Request /\ req[r].wallet \in Wallets /\ req[r].out <= Len(minted)
    BY <1>1 DEF TypeInv, TypeOK, RequestsOK
  <2>2. "saveNonce" \in Steps /\ Len(issued) + 1 \in Nat
    BY <1>3 DEF Steps
  <2>3. rq \in Request
    BY <2>1, <2>2, NonceInRequest
  <2>4. rq.wallet = req[r].wallet /\ rq.nonce = Len(issued) + 1 /\ rq.out = req[r].out
    BY <2>1 DEF Request
  <2>5. req' = [req EXCEPT ![r] = rq] /\ minted' = minted
    BY <1>1
  <2> HIDE DEF rq
  <2>6. rq.nonce <= Len(issued')
    BY <1>3, <1>4, <2>4
  <2>. QED BY <1>4, <2>1, <2>3, <2>4, <2>5, <2>6, UpdateOK DEF TypeInv, TypeOK
<1>8. Shape'
  BY <1>1, <1>3 DEF TypeInv, TypeOK, RequestsOK, Shape
<1>. QED BY <1>5, <1>6, <1>7, <1>8 DEF TypeInv, TypeOK

LEMMA SaveRtOK ==
  ASSUME TypeInv, NEW r \in Requests, SaveRt(r) PROVE TypeInv'
<1> DEFINE w == req[r].wallet
           jwt == req[r].newJwt
           new == Len(minted) + 1
           session == [wallet |-> w, jwt |-> jwt, via |-> ViaOf(req[r]), signer |-> req[r].signer]
           record == [rt |-> new, jwtHash |-> JwtHash(jwt), updatedAt |-> now]
           Sessions == Seq([wallet : Wallets, jwt : Jwt, via : Via, signer : Wallets \cup {NoWallet}])
<1>1. /\ req[r].pc = "saveRt" /\ minted' = Append(minted, session)
      /\ rtDB' = [rtDB EXCEPT ![w] = record]
      /\ req' = [req EXCEPT ![r].pc = "after", ![r].out = new]
      /\ UNCHANGED <<now, nonceDB, builder, issued, seen, delivered>>
  BY DEF SaveRt
<1>2. jwt \in Jwt /\ w \in Wallets /\ ViaOf(req[r]) \in Via /\ req[r].signer \in Wallets \cup {NoWallet}
  BY <1>1 DEF TypeInv, TypeOK, RequestsOK, Request, ViaOf, Via
<1>3. minted \in Sessions /\ Len(minted) \in Nat
  BY DEF TypeInv, TypeOK, HistoryOK
<1>4. JwtHash(jwt) \in Int /\ now \in Nat
  BY <1>2, HashAssumption, BoundAssumption DEF TypeInv, TypeOK, StoreOK
<1>5. /\ session \in [wallet : Wallets, jwt : Jwt, via : Via, signer : Wallets \cup {NoWallet}]
      /\ record \in [rt : Nat, jwtHash : Int, updatedAt : Nat] /\ record.rt = new
  BY <1>2, <1>3, <1>4
<1> HIDE DEF w, jwt, session, record
<1>6. minted' \in Sessions /\ Len(minted') = new
  BY <1>1, <1>3, <1>5
<1>7. HistoryOK'
  BY <1>1, <1>3, <1>6 DEF TypeInv, TypeOK, HistoryOK
<1>8. StoreOK'
  <2>1. rtDB \in [Wallets -> [rt : Nat, jwtHash : Int, updatedAt : Nat]]
    BY DEF TypeInv, TypeOK, StoreOK
  <2>2. rtDB' \in [Wallets -> [rt : Nat, jwtHash : Int, updatedAt : Nat]]
    BY <1>1, <1>5, <2>1
  <2>3. \A v \in Wallets : rtDB'[v] = IF v = w THEN record ELSE rtDB[v]
    BY <1>1, <2>1
  <2>4. \A v \in Wallets : rtDB[v].rt \in Nat /\ rtDB[v].rt <= Len(minted)
    BY DEF TypeInv, TypeOK, StoreOK
  <2>5. \A v \in Wallets : rtDB'[v].rt <= Len(minted')
    BY <1>3, <1>5, <1>6, <2>3, <2>4
  <2>. QED BY <1>1, <2>2, <2>5 DEF TypeInv, TypeOK, StoreOK
<1>9. RequestsOK'
  <2> DEFINE rq == [req[r] EXCEPT !.pc = "after", !.out = new]
  <2>1. req[r] \in Request /\ req[r].wallet \in Wallets /\ req[r].nonce <= Len(issued)
    BY <1>1 DEF TypeInv, TypeOK, RequestsOK
  <2>2. "after" \in Steps /\ new \in Nat
    BY <1>3 DEF Steps
  <2>3. rq \in Request
    BY <2>1, <2>2, OutInRequest
  <2>4. rq.wallet = req[r].wallet /\ rq.nonce = req[r].nonce /\ rq.out = new
    BY <2>1 DEF Request
  <2>5. req' = [req EXCEPT ![r] = rq] /\ issued' = issued
    BY <1>1
  <2> HIDE DEF rq
  <2>6. rq.out <= Len(minted')
    BY <1>3, <1>6, <2>4
  <2>. QED BY <1>6, <2>1, <2>3, <2>4, <2>5, <2>6, UpdateOK DEF TypeInv, TypeOK
<1>10. Shape'
  BY <1>1, <1>3 DEF TypeInv, TypeOK, RequestsOK, Shape
<1>. QED BY <1>7, <1>8, <1>9, <1>10 DEF TypeInv, TypeOK

LEMMA SaveNonceOK ==
  ASSUME TypeInv, NEW r \in Requests, SaveNonce(r) PROVE TypeInv'
<1> USE DEF TypeInv, TypeOK, RequestsOK, SaveNonce
<1>1. req[r].nonce \in Nat /\ req[r].nonce <= Len(issued) /\ now \in Nat
  BY BoundAssumption DEF Request, StoreOK
<1>2. nonceDB' \in [Wallets -> [id : Nat, expires : Nat]]
  <2>1. now + NonceLifetime \in Nat
    BY <1>1, LifetimeAssumption
  <2>2. [id |-> req[r].nonce, expires |-> now + NonceLifetime] \in [id : Nat, expires : Nat]
    BY <1>1, <2>1
  <2>. QED BY <2>2 DEF StoreOK
<1>3. \A w \in Wallets : nonceDB'[w].id = IF w = req[r].wallet THEN req[r].nonce ELSE nonceDB[w].id
  BY DEF StoreOK
<1>4. StoreOK'
  BY <1>1, <1>2, <1>3 DEF StoreOK
<1>5. HistoryOK'
  BY DEF HistoryOK
<1>6. RequestsOK'
  <2> DEFINE rq == [req[r] EXCEPT !.pc = "after"]
  <2>1. req[r] \in Request /\ req[r].wallet \in Wallets
    OBVIOUS
  <2>2. rq \in Request
    BY <2>1, StepInRequest DEF Steps
  <2>3. rq.wallet = req[r].wallet /\ rq.nonce = req[r].nonce /\ rq.out = req[r].out
    BY <2>1 DEF Request
  <2>4. req' = [req EXCEPT ![r] = rq]
    OBVIOUS
  <2> HIDE DEF rq
  <2>. QED BY <1>1, <2>1, <2>2, <2>3, <2>4, UpdateOK
<1>7. Shape'
  BY DEF Shape
<1>. QED BY <1>4, <1>5, <1>6, <1>7

LEMMA SavedNonceOK ==
  ASSUME TypeInv, NEW w \in Wallets
  PROVE  SavedNonce(w) \in 0..Len(issued) /\ SavedNonce(w) \in {0, nonceDB[w].id}
  BY DEF TypeInv, TypeOK, StoreOK, HistoryOK, SavedNonce

LEMMA TakenOK ==
  ASSUME TypeInv, NEW w \in Wallets, nonceDB' = Taken(w),
         UNCHANGED <<now, rtDB, builder, issued, seen, minted, delivered>>
  PROVE  StoreOK' /\ HistoryOK'
<1>1. nonceDB' \in [Wallets -> [id : Nat, expires : Nat]]
  BY DEF TypeInv, TypeOK, StoreOK, Taken, NoNonce
<1>2. \A v \in Wallets : nonceDB'[v].id = IF v = w THEN 0 ELSE nonceDB[v].id
  BY DEF TypeInv, TypeOK, StoreOK, Taken, NoNonce
<1>3. StoreOK'
  <2>1. Len(issued) \in Nat
    BY DEF TypeInv, TypeOK, HistoryOK
  <2>2. \A v \in Wallets : nonceDB[v].id <= Len(issued) /\ rtDB[v].rt <= Len(minted)
    BY DEF TypeInv, TypeOK, StoreOK
  <2>3. \A v \in Wallets : nonceDB'[v].id <= Len(issued') /\ rtDB'[v].rt <= Len(minted')
    BY <1>2, <2>1, <2>2
  <2>. QED BY <1>1, <2>3 DEF TypeInv, TypeOK, StoreOK
<1>4. HistoryOK'
  BY DEF TypeInv, TypeOK, HistoryOK
<1>. QED BY <1>3, <1>4

LEMMA SignatureTypeOK ==
  ASSUME TypeInv, NEW r \in Requests, Signature(r) PROVE TypeInv'
<1> DEFINE w == req[r].wallet
           n == SavedNonce(w)
           next == IF req[r].kind = "BOUND" THEN "bound" ELSE "claims"
<1>1. w \in Wallets
  BY DEF TypeInv, TypeOK, RequestsOK, Signature
<1>2. nonceDB' = Taken(w) /\ UNCHANGED <<now, rtDB, builder, issued, seen, minted, delivered>>
  BY DEF Signature
<1>3. StoreOK' /\ HistoryOK'
  BY <1>1, <1>2, TakenOK
<1>4. n \in 0..Len(issued) /\ Len(issued) \in Nat
  BY <1>1, SavedNonceOK DEF TypeInv, TypeOK, HistoryOK
<1>5. CASE Drop(r)
  BY <1>2, <1>3, <1>5, DropOK DEF TypeInv, TypeOK
<1>6. CASE req' = [req EXCEPT ![r].pc = next, ![r].nonce = n]
  <2>1. next \in {"bound", "claims"} /\ req[r].pc = "signature"
    BY DEF Signature
  <2> HIDE DEF w, n, next
  <2>2. RequestsOK'
    <3>1. next \in Steps /\ n \in Nat /\ n <= Len(issued)
      BY <1>4, <2>1 DEF Steps
    <3> DEFINE rq == [req[r] EXCEPT !.pc = next, !.nonce = n]
    <3>2. req[r] \in Request /\ req[r].wallet \in Wallets /\ req[r].out <= Len(minted)
      BY <2>1 DEF TypeInv, TypeOK, RequestsOK
    <3>3. rq \in Request
      BY <3>1, <3>2, NonceInRequest
    <3>4. rq.wallet = req[r].wallet /\ rq.nonce = n /\ rq.out = req[r].out
      BY <3>2 DEF Request
    <3>5. req' = [req EXCEPT ![r] = rq]
      BY <1>6
    <3> HIDE DEF rq
    <3>. QED BY <1>2, <3>1, <3>2, <3>3, <3>4, <3>5, UpdateOK DEF TypeInv, TypeOK
  <2>3. Shape'
    BY <1>6, <2>1 DEF TypeInv, TypeOK, RequestsOK, Request, Shape
  <2>. QED BY <1>3, <2>2, <2>3 DEF TypeInv, TypeOK
<1>7. Drop(r) \/ req' = [req EXCEPT ![r].pc = next, ![r].nonce = n]
  BY DEF Signature
<1>. QED BY <1>5, <1>6, <1>7

LEMMA AfterTypeOK ==
  ASSUME TypeInv, NEW r \in Requests, After(r) PROVE TypeInv'
<1>1. req[r].kind = "GET" => req[r].nonce \in 1..Len(issued)
  BY DEF TypeInv, TypeOK, Shape, RequestsOK, HistoryOK, Request, After
<1>2. req[r].kind # "GET" => req[r].out \in 1..Len(minted)
  BY DEF TypeInv, TypeOK, Shape, RequestsOK, HistoryOK, Request, After
<1>3. StoreOK' /\ HistoryOK'
  BY <1>1, <1>2 DEF TypeInv, TypeOK, StoreOK, HistoryOK, After, Answer
<1>. QED BY <1>3, DropOK DEF TypeInv, TypeOK, After

\* Steps that only move a request on to the next segment.
LEMMA MoveOK ==
  ASSUME TypeInv, NEW r \in Requests, NEW step \in Steps,
         req' = [req EXCEPT ![r].pc = step],
         UNCHANGED <<issued, minted>>,
         req[r].pc # "idle", req[r].kind # "GET", step \in {"bound", "claims", "compact"}
  PROVE  RequestsOK' /\ Shape'
<1>1. RequestsOK'
  <2> DEFINE rq == [req[r] EXCEPT !.pc = step]
  <2>1. req[r] \in Request /\ req[r].wallet \in Wallets
    BY DEF TypeInv, TypeOK, RequestsOK
  <2>2. rq \in Request
    BY <2>1, StepInRequest
  <2>3. rq.wallet = req[r].wallet /\ rq.nonce = req[r].nonce /\ rq.out = req[r].out
    BY <2>1 DEF Request
  <2>4. req' = [req EXCEPT ![r] = rq]
    OBVIOUS
  <2>5. req[r].nonce <= Len(issued) /\ req[r].out <= Len(minted)
    BY DEF TypeInv, TypeOK, RequestsOK
  <2> HIDE DEF rq
  <2>. QED BY <2>1, <2>2, <2>3, <2>4, <2>5, UpdateOK DEF TypeInv, TypeOK
<1>2. Shape'
  BY DEF TypeInv, TypeOK, RequestsOK, Request, Shape
<1>. QED BY <1>1, <1>2

LEMMA BoundTypeOK ==
  ASSUME TypeInv, NEW r \in Requests, Bound(r) PROVE TypeInv'
<1>1. RequestsOK' /\ Shape'
  BY MoveOK DEF TypeInv, Shape, Bound, Steps
<1>. QED BY <1>1, RequestOnly DEF TypeInv, TypeOK, Bound

LEMMA EmptyBodyTypeOK ==
  ASSUME TypeInv, NEW r \in Requests, EmptyBody(r) PROVE TypeInv'
<1>1. CASE Drop(r)
  BY <1>1, DropOK, RequestOnly DEF TypeInv, TypeOK, EmptyBody
<1>2. CASE req' = [req EXCEPT ![r].pc = "bound"]
  <2>1. RequestsOK' /\ Shape'
    BY <1>2, MoveOK DEF TypeInv, Shape, EmptyBody, Steps
  <2>. QED BY <2>1, RequestOnly DEF TypeInv, TypeOK, EmptyBody
<1>. QED BY <1>1, <1>2 DEF EmptyBody

LEMMA RefreshTypeOK ==
  ASSUME TypeInv, NEW r \in Requests, Refresh(r) PROVE TypeInv'
<1>1. CASE Drop(r)
  BY <1>1, DropOK, RequestOnly DEF TypeInv, TypeOK, Refresh
<1>2. CASE req' = [req EXCEPT ![r].pc = "claims"]
  <2>1. RequestsOK' /\ Shape'
    BY <1>2, MoveOK DEF TypeInv, Shape, Refresh, Steps
  <2>. QED BY <2>1, RequestOnly DEF TypeInv, TypeOK, Refresh
<1>. QED BY <1>1, <1>2 DEF Refresh

LEMMA ClaimsTypeOK ==
  ASSUME TypeInv, NEW r \in Requests, Claims(r) PROVE TypeInv'
<1>1. RequestsOK' /\ Shape'
  BY MoveOK DEF TypeInv, Shape, Claims, Steps
<1>2. StoreOK' /\ HistoryOK'
  BY DEF TypeInv, TypeOK, StoreOK, HistoryOK, RequestsOK, Claims
<1>. QED BY <1>1, <1>2 DEF TypeInv, TypeOK

LEMMA CompactTypeOK ==
  ASSUME TypeInv, NEW r \in Requests, Compact(r) PROVE TypeInv'
<1> DEFINE jwt == [currentWallet |-> builder, stamp |-> now]
<1>1. jwt \in Jwt
  BY DEF TypeInv, TypeOK, StoreOK, Jwt
<1>2. req' = [req EXCEPT ![r].pc = "saveRt", ![r].newJwt = jwt] /\ req[r].pc = "compact"
  BY DEF Compact
<1>3. issued' = issued /\ minted' = minted
  BY DEF Compact
<1> HIDE DEF jwt
<1>4. RequestsOK'
  <2> DEFINE rq == [req[r] EXCEPT !.pc = "saveRt", !.newJwt = jwt]
  <2>1. req[r] \in Request /\ req[r].wallet \in Wallets
    BY <1>2 DEF TypeInv, TypeOK, RequestsOK
  <2>2. rq \in Request
    BY <1>1, <2>1, JwtInRequest DEF Steps
  <2>3. rq.wallet = req[r].wallet /\ rq.nonce = req[r].nonce /\ rq.out = req[r].out
    BY <2>1 DEF Request
  <2>4. req' = [req EXCEPT ![r] = rq]
    BY <1>2
  <2>5. req[r].nonce <= Len(issued) /\ req[r].out <= Len(minted)
    BY DEF TypeInv, TypeOK, RequestsOK
  <2> HIDE DEF rq
  <2>. QED BY <1>3, <2>1, <2>2, <2>3, <2>4, <2>5, UpdateOK DEF TypeInv, TypeOK
<1>5. Shape'
  BY <1>2 DEF TypeInv, TypeOK, RequestsOK, Request, Shape
<1>. QED BY <1>4, <1>5, RequestOnly DEF TypeInv, TypeOK, Compact

\* A request a client may send.
Sendable(rq) ==
    /\ rq \in Request
    /\ rq.wallet \in Wallets
    /\ rq.nonce = 0 /\ rq.out = 0
    /\ rq.rt <= Len(minted) /\ rq.client <= Len(minted)
    /\ \/ rq.pc = "before" /\ rq.kind # "BOUND"
       \/ rq.pc = "signature" /\ rq.kind = "BOUND" /\ rq.client # 0

\* What a body can say.
LEMMA BodiesOK ==
  ASSUME TypeInv
  PROVE  /\ \A body \in SignedBodies : body.signer \in Wallets \cup {NoWallet} /\ body.signed \in Nat
         /\ \A body \in PairBodies : body.jwt \in Jwt /\ body.rt \in 0..Len(minted)
<1>1. seen \subseteq Nat /\ delivered \subseteq 1..Len(minted) /\ Len(minted) \in Nat
  BY DEF TypeInv, TypeOK, HistoryOK
<1>2. NoJwt \in Jwt
  BY BoundAssumption DEF Jwt, NoJwt
<1>3. ASSUME NEW body \in SignedBodies
      PROVE  body.signer \in Wallets \cup {NoWallet} /\ body.signed \in Nat
  <2>1. body = NoBody \/ body \in [signer : Wallets, signed : seen \cup {0}, jwt : {NoJwt}, rt : {0}]
    BY <1>3 DEF SignedBodies
  <2>2. NoBody.signer = NoWallet /\ NoBody.signed = 0
    BY DEF NoBody
  <2>. QED BY <1>1, <2>1, <2>2
<1>4. ASSUME NEW body \in PairBodies
      PROVE  body.jwt \in Jwt /\ body.rt \in 0..Len(minted)
  <2>1. \A i \in delivered : minted[i].jwt \in Jwt
    BY <1>1, MintedOK
  <2>2. \/ body = NoBody
        \/ body \in [signer : {NoWallet}, signed : {0},
                    jwt : {minted[i].jwt : i \in delivered}, rt : delivered]
    BY <1>4 DEF PairBodies
  <2>3. NoBody.jwt = NoJwt /\ NoBody.rt = 0
    BY DEF NoBody
  <2>4. CASE body = NoBody
    BY <1>1, <1>2, <2>3, <2>4
  <2>5. CASE body \in [signer : {NoWallet}, signed : {0},
                     jwt : {minted[i].jwt : i \in delivered}, rt : delivered]
    <3> DEFINE jwts == {minted[i].jwt : i \in delivered}
    <3>1. body.jwt \in jwts /\ body.rt \in delivered
      BY <2>5
    <3>2. jwts \subseteq Jwt
      BY <2>1
    <3> HIDE DEF jwts
    <3>3. body.jwt \in Jwt
      BY <3>1, <3>2
    <3>4. \A j \in delivered : j \in 0..Len(minted)
      BY <1>1
    <3>5. body.rt \in 0..Len(minted)
      BY <3>1, <3>4
    <3>. QED BY <3>3, <3>5
  <2>. QED BY <2>2, <2>4, <2>5
<1>. QED BY <1>3, <1>4

LEMMA ArriveSends ==
  ASSUME TypeInv, NEW r \in Requests, Arrive(r)
  PROVE  \E rq : Sendable(rq) /\ Accept(r, rq)
<1> PICK w \in Wallets :
        \/ ArriveGet(r, w)
        \/ \E body \in SignedBodies :
              \/ ArrivePost(r, w, body)
              \/ \E client \in delivered : ArriveBound(r, w, body, client)
        \/ \E body \in PairBodies : ArrivePut(r, w, body)
  BY DEF Arrive
<1>0. Len(minted) \in Nat /\ delivered \subseteq 1..Len(minted) /\ Idle.rt = 0 /\ Idle.client = 0
  BY DEF TypeInv, TypeOK, HistoryOK, Idle
<1>1. CASE ArriveGet(r, w)
  <2> DEFINE rq == [Idle EXCEPT !.pc = "before", !.kind = "GET", !.wallet = w]
  <2>2. rq \in Request /\ rq.wallet \in Wallets
    BY IdleOK DEF Request, Steps, Kinds
  <2>3. /\ rq.pc = "before" /\ rq.kind = "GET" /\ rq.nonce = 0 /\ rq.out = 0
        /\ rq.rt = 0 /\ rq.client = 0
    BY <1>0, IdleOK DEF Request
  <2>4. Sendable(rq)
    BY <1>0, <2>2, <2>3 DEF Sendable
  <2>. QED BY <1>1, <2>4 DEF ArriveGet
<1>2. ASSUME NEW body \in SignedBodies, ArrivePost(r, w, body)
      PROVE  \E rq : Sendable(rq) /\ Accept(r, rq)
  <2> DEFINE rq == [Idle EXCEPT !.pc = "before", !.kind = "POST", !.wallet = w,
                                !.signer = body.signer, !.signed = body.signed]
  <2>1. body.signer \in Wallets \cup {NoWallet} /\ body.signed \in Nat
    BY BodiesOK
  <2>2. rq \in Request /\ rq.wallet \in Wallets
    BY <2>1, IdleOK DEF Request, Steps, Kinds
  <2>3. /\ rq.pc = "before" /\ rq.kind = "POST" /\ rq.nonce = 0 /\ rq.out = 0
        /\ rq.rt = 0 /\ rq.client = 0
    BY <1>0, IdleOK DEF Request
  <2>4. Sendable(rq)
    BY <1>0, <2>2, <2>3 DEF Sendable
  <2>. QED BY <1>2, <2>4 DEF ArrivePost
<1>3. ASSUME NEW body \in SignedBodies, NEW client \in delivered, ArriveBound(r, w, body, client)
      PROVE  \E rq : Sendable(rq) /\ Accept(r, rq)
  <2> DEFINE rq == [Idle EXCEPT !.pc = "signature", !.kind = "BOUND", !.wallet = w,
                                !.signer = body.signer, !.signed = body.signed,
                                !.client = client]
  <2>1. body.signer \in Wallets \cup {NoWallet} /\ body.signed \in Nat
    BY BodiesOK
  <2>2. client \in Nat /\ client <= Len(minted) /\ client # 0
    BY <1>0
  <2>3. rq \in Request /\ rq.wallet \in Wallets
    BY <2>1, <2>2, IdleOK DEF Request, Steps, Kinds
  <2>4. /\ rq.pc = "signature" /\ rq.kind = "BOUND" /\ rq.nonce = 0 /\ rq.out = 0
        /\ rq.rt = 0 /\ rq.client = client
    BY <1>0, IdleOK DEF Request
  <2>5. Sendable(rq)
    BY <1>0, <2>2, <2>3, <2>4 DEF Sendable
  <2>. QED BY <1>3, <2>5 DEF ArriveBound
<1>4. ASSUME NEW body \in PairBodies, ArrivePut(r, w, body)
      PROVE  \E rq : Sendable(rq) /\ Accept(r, rq)
  <2> DEFINE rq == [Idle EXCEPT !.pc = "before", !.kind = "PUT", !.wallet = w,
                                !.jwt = body.jwt, !.rt = body.rt]
  <2>1. body.jwt \in Jwt /\ body.rt \in Nat /\ body.rt <= Len(minted)
    BY <1>0, BodiesOK
  <2>2. rq \in Request /\ rq.wallet \in Wallets
    BY <2>1, IdleOK DEF Request, Steps, Kinds
  <2>3. /\ rq.pc = "before" /\ rq.kind = "PUT" /\ rq.nonce = 0 /\ rq.out = 0
        /\ rq.rt = body.rt /\ rq.client = 0
    BY <1>0, IdleOK DEF Request
  <2>4. Sendable(rq)
    BY <1>0, <2>1, <2>2, <2>3 DEF Sendable
  <2>. QED BY <1>4, <2>4 DEF ArrivePut
<1>. QED BY <1>1, <1>2, <1>3, <1>4

LEMMA ArriveTypeOK ==
  ASSUME TypeInv, NEW r \in Requests, Arrive(r) PROVE TypeInv'
<1> PICK rq : Sendable(rq) /\ Accept(r, rq)
  BY ArriveSends
<1>1. RequestsOK'
  BY DEF TypeInv, TypeOK, RequestsOK, HistoryOK, Sendable, Accept
<1>2. Shape'
  BY DEF TypeInv, TypeOK, RequestsOK, Shape, Sendable, Accept
<1>. QED BY <1>1, <1>2, RequestOnly DEF TypeInv, TypeOK, Accept

LEMMA TickTypeOK ==
  ASSUME TypeInv, Tick \/ UNCHANGED vars PROVE TypeInv'
<1>1. StoreOK'
  BY BoundAssumption DEF TypeInv, TypeOK, StoreOK, Tick, vars
<1>2. HistoryOK'
  BY DEF TypeInv, TypeOK, HistoryOK, Tick, vars
<1>3. RequestsOK' /\ Shape'
  BY DEF TypeInv, TypeOK, RequestsOK, Shape, Tick, vars
<1>. QED BY <1>1, <1>2, <1>3 DEF TypeInv, TypeOK

LEMMA TypeStep == TypeInv /\ [Next]_vars => TypeInv'
<1> SUFFICES ASSUME TypeInv, [Next]_vars PROVE TypeInv'
  OBVIOUS
<1>1. ASSUME NEW r \in Requests, Fail(r) PROVE TypeInv'
  BY <1>1, DropOK, RequestOnly DEF Fail, TypeInv, TypeOK
<1>. QED
  BY <1>1, ArriveTypeOK, BeforeOK, NewNonceOK, SaveNonceOK, SignatureTypeOK, BoundTypeOK,
     EmptyBodyTypeOK, RefreshTypeOK, ClaimsTypeOK, CompactTypeOK, SaveRtOK, AfterTypeOK, TickTypeOK
  DEF Next, Serve

\* TypeOK holds in every state: no request, Redis record or answer refers to a
\* nonce or a session that was never made.
THEOREM TypeCorrect == Spec => []TypeOK
<1>1. TypeInv => TypeOK
  BY DEF TypeInv
<1>. QED BY <1>1, TypeInit, TypeStep, PTL DEF Spec

-----------------------------------------------------------------------------
(* Who owns what: the wallet of a nonce and of a session follows it from     *)
(* Redis into the request and from the request into the next session.        *)

PermitSteps == {"bound", "claims", "compact", "saveRt"}

NonceOwner ==
    /\ \A w \in Wallets : nonceDB[w].id # 0 => issued[nonceDB[w].id] = w
    /\ \A r \in Requests :
          /\ req[r].pc = "saveNonce" => issued[req[r].nonce] = req[r].wallet
          /\ req[r].kind = "PUT" => req[r].nonce = 0
          /\ req[r].pc \in PermitSteps /\ req[r].nonce # 0 =>
                issued[req[r].nonce] = req[r].wallet /\ req[r].signer = req[r].wallet

\* The record of a wallet is its newest session.
NewestStored ==
    \A w \in Wallets :
        /\ rtDB[w].rt # 0 => minted[rtDB[w].rt].wallet = w
        /\ \A i \in 1..Len(minted) : minted[i].wallet = w => i <= rtDB[w].rt

RtOwner ==
    \A r \in Requests :
        req[r].pc \in PermitSteps /\ req[r].kind = "PUT" =>
            req[r].rt \in 1..Len(minted) /\ minted[req[r].rt].wallet = req[r].wallet

Ownership == NonceOwner /\ NewestStored /\ RtOwner /\ SessionLineage

OwnInv == TypeInv /\ Ownership

LEMMA OwnInit == Init => Ownership
  BY DEF Init, Ownership, NonceOwner, NewestStored, RtOwner, SessionLineage, NoNonce, NoRt, Idle, PermitSteps

\* A step of one request that neither redeems nor shows anything: what it
\* holds afterwards it held before, or it holds a permit without a nonce.
Keeps(old, new) ==
    /\ new.pc # "saveNonce"
    /\ new.kind = "PUT" => new.nonce = 0
    /\ new.pc \in PermitSteps =>
          \/ new.nonce = 0 /\ new.kind # "PUT"
          \/ /\ old.pc \in PermitSteps
             /\ new.nonce = old.nonce /\ new.kind = old.kind /\ new.rt = old.rt
             /\ new.wallet = old.wallet /\ new.signer = old.signer

LEMMA KeepsOwnership ==
  ASSUME OwnInv, NEW r \in Requests, NEW rq, req' = [req EXCEPT ![r] = rq],
         Keeps(req[r], rq), UNCHANGED <<nonceDB, rtDB, issued, minted>>
  PROVE  Ownership'
<1> USE DEF OwnInv, TypeInv, TypeOK, RequestsOK
<1>1. NonceOwner'
  BY DEF Ownership, NonceOwner, Keeps
<1>2. NewestStored' /\ SessionLineage'
  BY DEF Ownership, NewestStored, SessionLineage
<1>3. RtOwner'
  BY DEF Ownership, RtOwner, Keeps
<1>. QED BY <1>1, <1>2, <1>3 DEF Ownership

LEMMA NewNonceOwn ==
  ASSUME OwnInv, NEW r \in Requests, NewNonce(r) PROVE Ownership'
<1> USE DEF OwnInv, TypeInv, TypeOK, RequestsOK
<1>1. /\ Len(issued) \in Nat
      /\ issued'[Len(issued) + 1] = req[r].wallet
      /\ \A n \in 1..Len(issued) : issued'[n] = issued[n]
      /\ Len(issued') = Len(issued) + 1
  BY DEF NewNonce, HistoryOK
<1>2. /\ req'[r].pc = "saveNonce" /\ req'[r].nonce = Len(issued) + 1
      /\ req'[r].wallet = req[r].wallet /\ req'[r].kind = "GET"
      /\ \A q \in Requests \ {r} : req'[q] = req[q]
  BY DEF NewNonce, NewNonceId, Shape, Request
<1>3. \A q \in Requests : req[q].nonce \in Nat /\ req[q].nonce <= Len(issued)
  BY DEF Request
<1>4. \A q \in Requests : req[q].pc = "saveNonce" => req[q].nonce # 0
  BY DEF Shape
<1>5. UNCHANGED <<nonceDB, rtDB, minted>>
  BY DEF NewNonce
<1>6. \A w \in Wallets : nonceDB[w].id \in 0..Len(issued)
  BY <1>1 DEF StoreOK
<1>7. NonceOwner'
  BY <1>1, <1>2, <1>3, <1>4, <1>5, <1>6 DEF Ownership, NonceOwner, PermitSteps
<1>8. NewestStored' /\ RtOwner'
  BY <1>2, <1>5 DEF Ownership, NewestStored, RtOwner, PermitSteps
<1>9. SessionLineage'
  BY <1>1, <1>5 DEF Ownership, SessionLineage
<1>. QED BY <1>7, <1>8, <1>9 DEF Ownership

LEMMA SaveNonceOwn ==
  ASSUME OwnInv, NEW r \in Requests, SaveNonce(r) PROVE Ownership'
<1> USE DEF OwnInv, TypeInv, TypeOK, RequestsOK
<1>1. \A w \in Wallets : nonceDB'[w].id = IF w = req[r].wallet THEN req[r].nonce ELSE nonceDB[w].id
  BY DEF SaveNonce, StoreOK
<1>2. req'[r].pc = "after" /\ req'[r].kind = "GET" /\ \A q \in Requests \ {r} : req'[q] = req[q]
  BY DEF SaveNonce, Shape, Request
<1>3. UNCHANGED <<rtDB, issued, minted>> /\ req[r].pc = "saveNonce"
  BY DEF SaveNonce
<1>4. NonceOwner'
  BY <1>1, <1>2, <1>3 DEF Ownership, NonceOwner, PermitSteps
<1>5. NewestStored' /\ RtOwner' /\ SessionLineage'
  BY <1>2, <1>3 DEF Ownership, NewestStored, RtOwner, SessionLineage, PermitSteps
<1>. QED BY <1>4, <1>5 DEF Ownership

\* What GETDEL and the check leave: the nonce is gone from Redis, and either
\* the request has ended or it holds a nonce of its wallet, signed by it.
LEMMA SignatureEffect ==
  ASSUME TypeInv, NEW r \in Requests, Signature(r)
  PROVE  LET w == req[r].wallet IN
         /\ req[r].kind # "GET" /\ req[r].pc = "signature" /\ w \in Wallets
         /\ \A v \in Wallets : nonceDB'[v].id = IF v = w THEN 0 ELSE nonceDB[v].id
         /\ \A q \in Requests \ {r} : req'[q] = req[q]
         /\ UNCHANGED <<rtDB, issued, minted>>
         /\ \/ req'[r] = Idle
            \/ /\ nonceDB[w].id # 0 /\ req'[r].nonce = nonceDB[w].id
               /\ req'[r].pc \in {"bound", "claims"}
               /\ req'[r].signer = issued[nonceDB[w].id]
               /\ req'[r].wallet = w /\ req'[r].kind = req[r].kind
               /\ req'[r].signer = req[r].signer
<1> DEFINE w == req[r].wallet
           n == SavedNonce(w)
           next == IF req[r].kind = "BOUND" THEN "bound" ELSE "claims"
<1>1. req[r].kind # "GET" /\ req[r].pc = "signature" /\ w \in Wallets
  BY DEF Signature, TypeInv, TypeOK, RequestsOK, Shape
<1>2. \A v \in Wallets : nonceDB'[v].id = IF v = w THEN 0 ELSE nonceDB[v].id
  BY DEF Signature, Taken, NoNonce, TypeInv, TypeOK, StoreOK
<1>3. \/ Drop(r)
      \/ /\ n # 0 /\ n = req[r].signed /\ req[r].signer = issued[n]
         /\ req' = [req EXCEPT ![r].pc = next, ![r].nonce = n]
  BY DEF Signature, SignatureOk
<1>4. n # 0 => n = nonceDB[w].id
  BY <1>1, SavedNonceOK
<1>5. UNCHANGED <<rtDB, issued, minted>> /\ next \in {"bound", "claims"}
  BY DEF Signature
<1>6. r \in DOMAIN req /\ req[r] \in Request /\ req \in [Requests -> Request]
  BY DEF TypeInv, TypeOK, RequestsOK
<1> HIDE DEF n, next
<1>7. CASE Drop(r)
  BY <1>1, <1>2, <1>5, <1>6, <1>7 DEF Drop
<1>8. CASE /\ n # 0 /\ n = req[r].signed /\ req[r].signer = issued[n]
           /\ req' = [req EXCEPT ![r].pc = next, ![r].nonce = n]
  BY <1>1, <1>2, <1>4, <1>5, <1>6, <1>8 DEF Request
<1>. QED BY <1>3, <1>7, <1>8

LEMMA SignatureOwn ==
  ASSUME OwnInv, NEW r \in Requests, Signature(r) PROVE Ownership'
<1> DEFINE w == req[r].wallet
           id == nonceDB[w].id
<1> USE DEF OwnInv, TypeInv, TypeOK
<1>1. /\ w \in Wallets /\ req[r].kind # "PUT"
      /\ \A v \in Wallets : nonceDB'[v].id = IF v = w THEN 0 ELSE nonceDB[v].id
      /\ \A q \in Requests \ {r} : req'[q] = req[q]
      /\ UNCHANGED <<rtDB, issued, minted>>
  BY SignatureEffect DEF Signature, Shape
<1>2. \/ req'[r] = Idle
      \/ /\ id # 0 /\ req'[r].nonce = id
         /\ req'[r].pc \in {"bound", "claims"}
         /\ req'[r].signer = issued[id]
         /\ req'[r].wallet = w /\ req'[r].kind # "PUT"
  BY SignatureEffect, <1>1
<1>3. id # 0 => issued[id] = w
  BY <1>1 DEF Ownership, NonceOwner
<1> HIDE DEF w, id
<1>4. NonceOwner'
  BY <1>1, <1>2, <1>3, IdleOK DEF Ownership, NonceOwner, PermitSteps, Idle
<1>5. NewestStored' /\ SessionLineage'
  BY <1>1 DEF Ownership, NewestStored, SessionLineage
<1>6. RtOwner'
  BY <1>1, <1>2 DEF Ownership, RtOwner, PermitSteps, Idle
<1>. QED BY <1>4, <1>5, <1>6 DEF Ownership

\* Refresh(r) lets a request on with the newest session of its wallet only.
LEMMA RefreshEffect ==
  ASSUME OwnInv, NEW r \in Requests, Refresh(r), req'[r].pc # "idle"
  PROVE  LET w == req[r].wallet IN
         /\ req' = [req EXCEPT ![r].pc = "claims"]
         /\ req[r].rt = rtDB[w].rt /\ rtDB[w].rt \in 1..Len(minted)
         /\ minted[rtDB[w].rt].wallet = w
<1> DEFINE w == req[r].wallet
<1>1. w \in Wallets /\ r \in DOMAIN req
  BY DEF Refresh, OwnInv, TypeInv, TypeOK, RequestsOK
<1>2. PairAccepted(req[r]) /\ req' = [req EXCEPT ![r].pc = "claims"]
  BY <1>1, IdleOK DEF Refresh, Drop
<1>3. rtDB[w].rt # 0 /\ req[r].rt = rtDB[w].rt
  BY <1>2 DEF PairAccepted, RtValid
<1>4. rtDB[w].rt \in 1..Len(minted)
  BY <1>1, <1>3 DEF OwnInv, TypeInv, TypeOK, StoreOK, HistoryOK
<1>5. minted[rtDB[w].rt].wallet = w
  BY <1>1, <1>3 DEF OwnInv, Ownership, NewestStored
<1>. QED BY <1>2, <1>3, <1>4, <1>5

LEMMA RefreshOwn ==
  ASSUME OwnInv, NEW r \in Requests, Refresh(r) PROVE Ownership'
<1> USE DEF OwnInv, TypeInv, TypeOK, RequestsOK
<1>1. CASE Drop(r)
  BY <1>1, KeepsOwnership, IdleOK DEF Refresh, Drop, Keeps, Idle, PermitSteps
<1>2. CASE req' = [req EXCEPT ![r].pc = "claims"]
  <2>1. /\ req'[r].pc = "claims" /\ req'[r].kind = "PUT" /\ req'[r].nonce = req[r].nonce
        /\ req'[r].wallet = req[r].wallet /\ req'[r].rt = req[r].rt
        /\ \A q \in Requests \ {r} : req'[q] = req[q]
    BY <1>2 DEF Refresh, Shape, Request
  <2>2. req[r].rt \in 1..Len(minted) /\ minted[req[r].rt].wallet = req[r].wallet
    BY <2>1, RefreshEffect
  <2>3. UNCHANGED <<nonceDB, rtDB, issued, minted>> /\ req[r].kind = "PUT"
    BY DEF Refresh, Shape
  <2>4. NonceOwner'
    BY <2>1, <2>3 DEF Ownership, NonceOwner, PermitSteps
  <2>5. NewestStored' /\ SessionLineage'
    BY <2>3 DEF Ownership, NewestStored, SessionLineage
  <2>6. RtOwner'
    BY <2>1, <2>2, <2>3 DEF Ownership, RtOwner, PermitSteps
  <2>. QED BY <2>4, <2>5, <2>6 DEF Ownership
<1>. QED BY <1>1, <1>2 DEF Refresh

LEMMA SaveRtOwn ==
  ASSUME OwnInv, NEW r \in Requests, SaveRt(r) PROVE Ownership'
<1> DEFINE w == req[r].wallet
           new == Len(minted) + 1
           via == ViaOf(req[r])
<1> USE DEF OwnInv, TypeInv, TypeOK, RequestsOK
<1>1. /\ w \in Wallets /\ Len(minted) \in Nat /\ Len(minted') = new
      /\ minted'[new].wallet = w /\ minted'[new].via = via /\ minted'[new].signer = req[r].signer
      /\ \A i \in 1..Len(minted) : minted'[i] = minted[i]
  BY DEF SaveRt, HistoryOK
<1>2. \A v \in Wallets : rtDB'[v].rt = IF v = w THEN new ELSE rtDB[v].rt
  BY DEF SaveRt, StoreOK
<1>3. /\ req'[r].pc = "after" /\ req'[r].kind = req[r].kind /\ req'[r].nonce = req[r].nonce
      /\ \A q \in Requests \ {r} : req'[q] = req[q]
  BY DEF SaveRt, Request
<1>4. UNCHANGED <<nonceDB, issued>> /\ req[r].pc = "saveRt"
  BY DEF SaveRt
<1>5. NonceOwner'
  BY <1>3, <1>4 DEF Ownership, NonceOwner, PermitSteps
<1>6. RtOwner'
  BY <1>1, <1>3 DEF Ownership, RtOwner, PermitSteps
<1>7. \A v \in Wallets : rtDB[v].rt \in 0..Len(minted)
  BY DEF StoreOK, HistoryOK
<1>8. NewestStored'
  <2>0. NewestStored
    BY DEF Ownership
  <2> HIDE DEF w, new, via
  <2>1. ASSUME NEW v \in Wallets PROVE rtDB'[v].rt # 0 => minted'[rtDB'[v].rt].wallet = v
    BY <1>1, <1>2, <1>7, <2>0 DEF NewestStored
  <2>2. ASSUME NEW v \in Wallets, NEW i \in 1..Len(minted'), minted'[i].wallet = v
        PROVE i <= rtDB'[v].rt
    BY <1>1, <1>2, <1>7, <2>0, <2>2 DEF NewestStored, new
  <2>. QED BY <2>1, <2>2 DEF NewestStored
<1>9. SessionLineage'
  <2>1. \/ via.how = "nonce" /\ via.id = req[r].nonce /\ req[r].nonce # 0
        \/ via.how = "rt" /\ via.id = req[r].rt /\ req[r].kind = "PUT"
        \/ via.how = "none"
    BY DEF ViaOf, Request
  <2>2. req[r].nonce # 0 =>
           req[r].nonce \in 1..Len(issued) /\ issued[req[r].nonce] = w /\ req[r].signer = w
    BY <1>4 DEF Ownership, NonceOwner, PermitSteps, HistoryOK, Request
  <2>3. req[r].kind = "PUT" => req[r].rt \in 1..Len(minted) /\ minted[req[r].rt].wallet = w
    BY <1>4 DEF Ownership, RtOwner, PermitSteps
  <2>4. SessionLineage
    BY DEF Ownership
  <2> HIDE DEF w, via
  <2> DEFINE Traced(s, k, iss, min) ==
               CASE s.via.how = "nonce" -> /\ s.via.id \in 1..Len(iss)
                                           /\ iss[s.via.id] = s.wallet
                                           /\ s.signer = s.wallet
                 [] s.via.how = "rt" -> s.via.id \in 1..(k - 1) /\ min[s.via.id].wallet = s.wallet
                 [] OTHER -> TRUE
  <2>5. ASSUME NEW i \in 1..Len(minted) PROVE Traced(minted'[i], i, issued', minted')
    <3>1. Traced(minted[i], i, issued, minted)
      BY <2>4 DEF SessionLineage
    <3>2. minted'[i] = minted[i] /\ issued' = issued
      BY <1>1, <1>4
    <3>3. \A k \in 1..(i - 1) : minted'[k] = minted[k]
      BY <1>1
    <3>. QED BY <3>1, <3>2, <3>3
  <2>6. Traced(minted'[new], new, issued', minted')
    BY <1>1, <1>4, <2>1, <2>2, <2>3
  <2>7. \A i \in 1..Len(minted') : i \in 1..Len(minted) \/ i = new
    BY <1>1
  <2>8. \A i \in 1..Len(minted') : Traced(minted'[i], i, issued', minted')
    <3> HIDE DEF Traced
    <3>. QED BY <2>5, <2>6, <2>7
  <2>. QED BY <2>8 DEF SessionLineage
<1>. QED BY <1>5, <1>6, <1>8, <1>9 DEF Ownership

LEMMA OwnStep == OwnInv /\ [Next]_vars => Ownership'
<1> SUFFICES ASSUME OwnInv, [Next]_vars PROVE Ownership'
  OBVIOUS
<1> USE DEF OwnInv, TypeInv, TypeOK, RequestsOK
<1>1. ASSUME NEW r \in Requests, Arrive(r) PROVE Ownership'
  <2>1. PICK rq : Sendable(rq) /\ Accept(r, rq)
    BY <1>1, ArriveSends
  <2>2. Keeps(req[r], rq)
    BY <2>1 DEF Sendable, Keeps, PermitSteps
  <2>. QED BY <2>1, <2>2, KeepsOwnership DEF Accept
<1>2. ASSUME NEW r \in Requests, Before(r) PROVE Ownership'
  <2> DEFINE rq == [req[r] EXCEPT !.pc = Internal(req[r].kind)]
  <2>1. req' = [req EXCEPT ![r] = rq] /\ UNCHANGED <<nonceDB, rtDB, issued, minted>>
    BY <1>2 DEF Before
  <2>2. Internal(req[r].kind) \in {"nonce", "signature", "refresh"}
    BY <1>2, InternalOK DEF Shape, Request, Before
  <2>3. Keeps(req[r], rq)
    BY <2>2 DEF Keeps, PermitSteps, Ownership, NonceOwner, Request
  <2> HIDE DEF rq
  <2>. QED BY <2>1, <2>3, KeepsOwnership
<1>3. ASSUME NEW r \in Requests, NEW rq, req' = [req EXCEPT ![r] = rq],
             \/ rq = [req[r] EXCEPT !.pc = "claims"]
             \/ rq = [req[r] EXCEPT !.pc = "compact"]
             \/ \E jwt : rq = [req[r] EXCEPT !.pc = "saveRt", !.newJwt = jwt],
             req[r].pc \in PermitSteps,
             UNCHANGED <<nonceDB, rtDB, issued, minted>>
      PROVE  Ownership'
  <2>1. req[r] \in Request /\ (req[r].kind = "PUT" => req[r].nonce = 0)
    BY <1>3 DEF Ownership, NonceOwner
  <2>2. /\ rq.pc # "saveNonce"
        /\ rq.kind = req[r].kind /\ rq.nonce = req[r].nonce /\ rq.rt = req[r].rt
        /\ rq.wallet = req[r].wallet /\ rq.signer = req[r].signer
    <3>1. CASE rq = [req[r] EXCEPT !.pc = "claims"]
      BY <2>1, <3>1 DEF Request
    <3>2. CASE rq = [req[r] EXCEPT !.pc = "compact"]
      BY <2>1, <3>2 DEF Request
    <3>3. ASSUME NEW jwt, rq = [req[r] EXCEPT !.pc = "saveRt", !.newJwt = jwt]
          PROVE  /\ rq.pc # "saveNonce"
                 /\ rq.kind = req[r].kind /\ rq.nonce = req[r].nonce /\ rq.rt = req[r].rt
                 /\ rq.wallet = req[r].wallet /\ rq.signer = req[r].signer
      BY <2>1, <3>3 DEF Request
    <3>. QED BY <1>3, <3>1, <3>2, <3>3
  <2>3. Keeps(req[r], rq)
    BY <1>3, <2>1, <2>2 DEF Keeps
  <2>. QED BY <1>3, <2>3, KeepsOwnership
<1>4. ASSUME NEW r \in Requests, Bound(r) \/ Claims(r) \/ Compact(r) PROVE Ownership'
  <2> DEFINE jwt == [currentWallet |-> builder, stamp |-> now]
             bound == [req[r] EXCEPT !.pc = "claims"]
             claims == [req[r] EXCEPT !.pc = "compact"]
             compact == [req[r] EXCEPT !.pc = "saveRt", !.newJwt = jwt]
  <2>1. \E rq : /\ req' = [req EXCEPT ![r] = rq]
                /\ rq = bound \/ rq = claims \/ rq = compact
    BY <1>4 DEF Bound, Claims, Compact
  <2>2. req[r].pc \in PermitSteps /\ UNCHANGED <<nonceDB, rtDB, issued, minted>>
    BY <1>4 DEF Bound, Claims, Compact, PermitSteps
  <2>. QED BY <1>3, <2>1, <2>2
<1>5. ASSUME NEW r \in Requests, After(r) \/ Fail(r) PROVE Ownership'
  <2>1. req' = [req EXCEPT ![r] = Idle] /\ UNCHANGED <<nonceDB, rtDB, issued, minted>>
    BY <1>5 DEF After, Fail, Drop
  <2>2. Keeps(req[r], Idle)
    BY DEF Keeps, Idle, PermitSteps
  <2>. QED BY <2>1, <2>2, KeepsOwnership
<1>7. ASSUME NEW r \in Requests, EmptyBody(r) PROVE Ownership'
  <2> DEFINE rq == [req[r] EXCEPT !.pc = "bound"]
  <2>1. (req' = [req EXCEPT ![r] = rq] /\ req[r].kind = "BOUND") \/ req' = [req EXCEPT ![r] = Idle]
    BY <1>7 DEF EmptyBody, Drop
  <2>2. UNCHANGED <<nonceDB, rtDB, issued, minted>>
    BY <1>7 DEF EmptyBody
  <2>3. req[r].kind = "BOUND" => Keeps(req[r], rq)
    BY <1>7 DEF EmptyBody, Shape, Keeps, PermitSteps, Request
  <2>4. Keeps(req[r], Idle)
    BY DEF Keeps, Idle, PermitSteps
  <2> HIDE DEF rq
  <2>. QED BY <2>1, <2>2, <2>3, <2>4, KeepsOwnership
<1>6. CASE Tick \/ UNCHANGED vars
  BY <1>6 DEF Ownership, NonceOwner, NewestStored, RtOwner, SessionLineage, Tick, vars
<1>. QED
  BY <1>1, <1>2, <1>4, <1>5, <1>6, <1>7, NewNonceOwn, SaveNonceOwn, SignatureOwn, RefreshOwn, SaveRtOwn
  DEF Next, Serve

LEMMA OwnCorrect == Spec => []OwnInv
<1>1. Init => OwnInv
  BY TypeInit, OwnInit DEF OwnInv
<1>2. OwnInv /\ [Next]_vars => OwnInv'
  BY TypeStep, OwnStep DEF OwnInv
<1>. QED BY <1>1, <1>2, PTL DEF Spec

\* For any number of wallets and concurrent requests, a session belongs to the
\* wallet that signed its nonce or that held the session it renews.
THEOREM LineageCorrect == Spec => []SessionLineage
<1>1. OwnInv => SessionLineage
  BY DEF OwnInv, Ownership
<1>. QED BY <1>1, OwnCorrect, PTL

\* A refresh token that its wallet has replaced passes no check, whatever the
\* order in which concurrent renewals read and write the wallet's record.
THEOREM RetiredRefused == Spec => RetiredRtRefused
<1> DEFINE Refused == \A r \in Requests :
                         req[r].pc = "refresh" /\ req'[r].pc = "claims" => ~Retired(req[r].rt)
<1>1. OwnInv /\ [Next]_vars => Refused
  <2> SUFFICES ASSUME OwnInv, Next, NEW r \in Requests, req[r].pc = "refresh", req'[r].pc = "claims"
               PROVE  ~Retired(req[r].rt)
    BY DEF vars
  <2>1. Refresh(r)
    <3>1. req[r] # req'[r] /\ req \in [Requests -> Request]
      BY DEF OwnInv, TypeInv, TypeOK, RequestsOK
    <3>2. ~Tick
      BY <3>1 DEF Tick
    <3>3. ASSUME NEW q \in Requests, Arrive(q) PROVE FALSE
      <4>1. PICK rq : Sendable(rq) /\ Accept(q, rq)
        BY <3>3, ArriveSends DEF OwnInv
      <4>. QED BY <3>1, <4>1 DEF Accept, Sendable
    <3>4. ASSUME NEW q \in Requests, Fail(q) \/ After(q) PROVE FALSE
      BY <3>1, <3>4, IdleOK DEF Fail, After, Drop
    <3>5. ASSUME NEW q \in Requests, Before(q) PROVE FALSE
      BY <3>1, <3>5 DEF Before
    <3>6. ASSUME NEW q \in Requests, NewNonce(q) \/ SaveNonce(q) PROVE FALSE
      BY <3>1, <3>6 DEF NewNonce, SaveNonce
    <3>7. ASSUME NEW q \in Requests, Signature(q) PROVE FALSE
      BY <3>1, <3>7, SignatureEffect DEF OwnInv
    <3>8. ASSUME NEW q \in Requests, Bound(q) \/ Claims(q) \/ Compact(q) \/ SaveRt(q) PROVE FALSE
      BY <3>1, <3>8 DEF Bound, Claims, Compact, SaveRt
    <3>9. ASSUME NEW q \in Requests, Refresh(q) PROVE q = r
      BY <3>1, <3>9 DEF Refresh, Drop
    <3>10. ASSUME NEW q \in Requests, EmptyBody(q) PROVE FALSE
      <4>1. req' = [req EXCEPT ![q] = Idle] \/ req' = [req EXCEPT ![q].pc = "bound"]
        BY <3>10 DEF EmptyBody, Drop
      <4>. QED BY <3>1, <4>1, IdleOK DEF Request
    <3>. QED BY <3>2, <3>3, <3>4, <3>5, <3>6, <3>7, <3>8, <3>9, <3>10 DEF Next, Serve
  <2>2. /\ req[r].rt = rtDB[req[r].wallet].rt /\ req[r].rt \in 1..Len(minted)
        /\ minted[req[r].rt].wallet = req[r].wallet /\ req[r].wallet \in Wallets
    BY <2>1, RefreshEffect DEF OwnInv, TypeInv, TypeOK, RequestsOK
  <2>3. \A i \in 1..Len(minted) : minted[i].wallet = req[r].wallet => i <= req[r].rt
    BY <2>2 DEF OwnInv, Ownership, NewestStored
  <2>. QED BY <2>2, <2>3 DEF Retired, OwnInv, TypeInv, TypeOK, HistoryOK
<1>2. OwnInv /\ [Next]_vars => [Refused]_vars
  BY <1>1
<1>. QED BY <1>2, OwnCorrect, PTL DEF Spec, RetiredRtRefused

-----------------------------------------------------------------------------
(* Where a nonce is: with the request that saves it, in Redis, with the      *)
(* request that redeemed it, or spent on a session; never in two places.     *)

Carries(rq) == rq.pc = "saveNonce" \/ (rq.pc \in PermitSteps /\ rq.nonce # 0)

Spent(n) == \E i \in 1..Len(minted) : minted[i].via.how = "nonce" /\ minted[i].via.id = n

OneCarrier ==
    \A r, q \in Requests :
        Carries(req[r]) /\ Carries(req[q]) /\ req[r].nonce = req[q].nonce => r = q

CarriedApart ==
    \A r \in Requests :
        Carries(req[r]) => /\ ~Spent(req[r].nonce)
                          /\ \A w \in Wallets : nonceDB[w].id # req[r].nonce

StoredUnspent == \A w \in Wallets : nonceDB[w].id # 0 => ~Spent(nonceDB[w].id)

OnePlace == OneCarrier /\ CarriedApart /\ StoredUnspent /\ NonceSingleUse

LEMMA PlaceInit == Init => OnePlace
  BY DEF Init, OnePlace, OneCarrier, CarriedApart, StoredUnspent, NonceSingleUse,
         Carries, Spent, Idle, NoNonce, PermitSteps

\* A spent nonce is one that was issued.
LEMMA SpentIssued ==
  ASSUME OwnInv, NEW n, Spent(n) PROVE n \in 1..Len(issued)
  BY DEF OwnInv, Ownership, SessionLineage, Spent

\* A step of one request that moves no nonce.
LEMMA KeepsPlace ==
  ASSUME OwnInv, OnePlace, NEW r \in Requests, NEW rq, req' = [req EXCEPT ![r] = rq],
         Carries(rq) => Carries(req[r]) /\ rq.nonce = req[r].nonce,
         UNCHANGED <<nonceDB, minted>>
  PROVE  OnePlace'
<1> USE DEF OwnInv, TypeInv, TypeOK, RequestsOK
<1>1. \A q \in Requests :
         Carries(req'[q]) => Carries(req[q]) /\ req'[q].nonce = req[q].nonce
  OBVIOUS
<1>2. \A q \in Requests : Carries(req[q])' <=> Carries(req'[q])
  BY DEF Carries
<1>3. \A n : Spent(n)' <=> Spent(n)
  BY DEF Spent
<1>4. OneCarrier'
  BY <1>1, <1>2 DEF OnePlace, OneCarrier
<1>5. CarriedApart'
  BY <1>1, <1>2, <1>3 DEF OnePlace, CarriedApart
<1>6. StoredUnspent' /\ NonceSingleUse'
  BY <1>3 DEF OnePlace, StoredUnspent, NonceSingleUse
<1>. QED BY <1>4, <1>5, <1>6 DEF OnePlace

LEMMA NewNoncePlace ==
  ASSUME OwnInv, OnePlace, NEW r \in Requests, NewNonce(r) PROVE OnePlace'
<1> DEFINE new == Len(issued) + 1
<1> USE DEF OwnInv, TypeInv, TypeOK, RequestsOK
<1>1. /\ Len(issued) \in Nat
      /\ \A w \in Wallets : nonceDB[w].id \in 0..Len(issued)
      /\ \A q \in Requests : req[q].nonce \in 0..Len(issued)
  BY DEF HistoryOK, StoreOK, Request
<1>2. ~Spent(new)
  BY <1>1, SpentIssued
<1>3. /\ req'[r].pc = "saveNonce" /\ req'[r].nonce = new
      /\ \A q \in Requests \ {r} : req'[q] = req[q]
  BY DEF NewNonce, NewNonceId, Request
<1>4. UNCHANGED <<nonceDB, minted>>
  BY DEF NewNonce
<1>5. \A n : Spent(n)' <=> Spent(n)
  BY <1>4 DEF Spent
<1>6. OneCarrier'
  BY <1>1, <1>3 DEF OnePlace, OneCarrier, Carries
<1>7. CarriedApart'
  BY <1>1, <1>2, <1>3, <1>4, <1>5 DEF OnePlace, CarriedApart, Carries
<1>8. StoredUnspent' /\ NonceSingleUse'
  BY <1>4, <1>5 DEF OnePlace, StoredUnspent, NonceSingleUse
<1>. QED BY <1>6, <1>7, <1>8 DEF OnePlace

LEMMA SaveNoncePlace ==
  ASSUME OwnInv, OnePlace, NEW r \in Requests, SaveNonce(r) PROVE OnePlace'
<1> USE DEF OwnInv, TypeInv, TypeOK, RequestsOK
<1>1. \A w \in Wallets : nonceDB'[w].id = IF w = req[r].wallet THEN req[r].nonce ELSE nonceDB[w].id
  BY DEF SaveNonce, StoreOK
<1>2. Carries(req[r]) /\ req'[r].pc = "after" /\ \A q \in Requests \ {r} : req'[q] = req[q]
  <2>1. Carries(req[r])
    BY DEF SaveNonce, Carries
  <2>2. req'[r].pc = "after" /\ \A q \in Requests \ {r} : req'[q] = req[q]
    BY DEF SaveNonce, Request
  <2>. QED BY <2>1, <2>2
<1>3. minted' = minted
  BY DEF SaveNonce
<1>4. \A n : Spent(n)' <=> Spent(n)
  BY <1>3 DEF Spent
<1>5. \A q \in Requests : Carries(req[q])' => q # r /\ Carries(req[q]) /\ req'[q] = req[q]
  BY <1>2 DEF Carries, PermitSteps
<1>6. OneCarrier'
  BY <1>5 DEF OnePlace, OneCarrier
<1>7. CarriedApart'
  BY <1>1, <1>2, <1>4, <1>5 DEF OnePlace, OneCarrier, CarriedApart
<1>8. StoredUnspent' /\ NonceSingleUse'
  BY <1>1, <1>2, <1>3, <1>4 DEF OnePlace, CarriedApart, StoredUnspent, NonceSingleUse
<1>. QED BY <1>6, <1>7, <1>8 DEF OnePlace

LEMMA SignaturePlace ==
  ASSUME OwnInv, OnePlace, NEW r \in Requests, Signature(r) PROVE OnePlace'
<1> DEFINE w == req[r].wallet
           id == nonceDB[w].id
<1>1. /\ w \in Wallets
      /\ \A v \in Wallets : nonceDB'[v].id = IF v = w THEN 0 ELSE nonceDB[v].id
      /\ \A q \in Requests \ {r} : req'[q] = req[q]
      /\ minted' = minted
      /\ req'[r] = Idle \/ (id # 0 /\ req'[r].nonce = id)
  <2>1. TypeInv
    BY DEF OwnInv
  <2>2. w \in Wallets /\ \A v \in Wallets : nonceDB'[v].id = IF v = w THEN 0 ELSE nonceDB[v].id
    BY <2>1, SignatureEffect
  <2>3. minted' = minted /\ \A q \in Requests \ {r} : req'[q] = req[q]
    BY <2>1, SignatureEffect
  <2>4. req'[r] = Idle \/ (id # 0 /\ req'[r].nonce = id)
    BY <2>1, SignatureEffect
  <2>. QED BY <2>2, <2>3, <2>4
<1>2. \A v \in Wallets : nonceDB[v].id # 0 => issued[nonceDB[v].id] = v
  BY DEF OwnInv, Ownership, NonceOwner
<1>3. \A n : Spent(n)' <=> Spent(n)
  BY <1>1 DEF Spent
<1>4. \A v \in Wallets \ {w} : id # 0 => nonceDB[v].id # id
  BY <1>1, <1>2
<1>5. ASSUME NEW q \in Requests, Carries(req[q])'
      PROVE  \/ q # r /\ Carries(req[q]) /\ req'[q] = req[q]
             \/ q = r /\ id # 0 /\ req'[q].nonce = id
  BY <1>1, <1>5 DEF Carries, Idle, PermitSteps
<1> HIDE DEF w, id
<1>6. \A q \in Requests : Carries(req[q]) => req[q].nonce # id
  BY <1>1 DEF OnePlace, CarriedApart, id
<1>7. OneCarrier'
  BY <1>5, <1>6 DEF OnePlace, OneCarrier
<1>8. id # 0 => ~Spent(id)
  BY <1>1 DEF OnePlace, StoredUnspent, id
<1>9. CarriedApart'
  <2> SUFFICES ASSUME NEW q \in Requests, Carries(req[q])'
               PROVE  /\ ~Spent(req'[q].nonce)
                      /\ \A v \in Wallets : nonceDB'[v].id # req'[q].nonce
    BY <1>3 DEF CarriedApart
  <2>1. CASE q = r /\ id # 0 /\ req'[q].nonce = id
    BY <1>1, <1>4, <1>8, <2>1
  <2>2. CASE q # r /\ Carries(req[q]) /\ req'[q] = req[q]
    <3>1. ~Spent(req[q].nonce) /\ \A v \in Wallets : nonceDB[v].id # req[q].nonce
      BY <2>2 DEF OnePlace, CarriedApart
    <3>2. req[q].nonce # 0
      BY <2>2 DEF OwnInv, TypeInv, Shape, Carries
    <3>. QED BY <1>1, <2>2, <3>1, <3>2
  <2>. QED BY <1>5, <2>1, <2>2
<1>10. StoredUnspent' /\ NonceSingleUse'
  BY <1>1, <1>3 DEF OnePlace, StoredUnspent, NonceSingleUse
<1>. QED BY <1>7, <1>9, <1>10 DEF OnePlace

LEMMA SaveRtPlace ==
  ASSUME OwnInv, OnePlace, NEW r \in Requests, SaveRt(r) PROVE OnePlace'
<1> DEFINE new == Len(minted) + 1
           via == ViaOf(req[r])
<1> USE DEF OwnInv, TypeInv, TypeOK, RequestsOK
<1>1. /\ Len(minted) \in Nat /\ Len(minted') = new /\ minted'[new].via = via
      /\ \A i \in 1..Len(minted) : minted'[i] = minted[i]
  BY DEF SaveRt, HistoryOK
<1>2. /\ req'[r].pc = "after" /\ \A q \in Requests \ {r} : req'[q] = req[q]
      /\ nonceDB' = nonceDB
  BY DEF SaveRt, Request
<1>3. via.how = "nonce" => Carries(req[r]) /\ via.id = req[r].nonce
  BY DEF SaveRt, ViaOf, Carries, PermitSteps
<1> HIDE DEF via
<1>4. ASSUME NEW n, Spent(n)' PROVE Spent(n) \/ (via.how = "nonce" /\ via.id = n)
  <2>1. PICK i \in 1..Len(minted') : minted'[i].via.how = "nonce" /\ minted'[i].via.id = n
    BY <1>4 DEF Spent
  <2>2. i \in 1..Len(minted) \/ i = new
    BY <1>1
  <2>. QED BY <1>1, <2>1, <2>2 DEF Spent
<1>5. \A q \in Requests : Carries(req[q])' => q # r /\ Carries(req[q]) /\ req'[q] = req[q]
  BY <1>2 DEF Carries, PermitSteps
<1>6. OneCarrier'
  BY <1>5 DEF OnePlace, OneCarrier
<1>7. CarriedApart'
  BY <1>2, <1>3, <1>4, <1>5 DEF OnePlace, OneCarrier, CarriedApart
<1>8. StoredUnspent'
  BY <1>2, <1>3, <1>4 DEF OnePlace, CarriedApart, StoredUnspent
<1>9. NonceSingleUse'
  <2>1. via.how = "nonce" => ~Spent(via.id)
    BY <1>3 DEF OnePlace, CarriedApart
  <2>2. \A i \in 1..Len(minted) : via.how = "nonce" => minted'[i].via # via
    BY <1>1, <2>1 DEF Spent
  <2>3. NonceSingleUse
    BY DEF OnePlace
  <2>. QED BY <1>1, <2>2, <2>3 DEF NonceSingleUse
<1>. QED BY <1>6, <1>7, <1>8, <1>9 DEF OnePlace

LEMMA PlaceStep == OwnInv /\ OnePlace /\ [Next]_vars => OnePlace'
<1> SUFFICES ASSUME OwnInv, OnePlace, [Next]_vars PROVE OnePlace'
  OBVIOUS
<1> USE DEF OwnInv, TypeInv, TypeOK, RequestsOK
<1>1. ASSUME NEW r \in Requests, Arrive(r) PROVE OnePlace'
  <2>1. PICK rq : Sendable(rq) /\ Accept(r, rq)
    BY <1>1, ArriveSends
  <2>2. ~Carries(rq)
    BY <2>1 DEF Sendable, Carries, PermitSteps
  <2>. QED BY <2>1, <2>2, KeepsPlace DEF Accept
<1>2. ASSUME NEW r \in Requests, Before(r) PROVE OnePlace'
  <2> DEFINE rq == [req[r] EXCEPT !.pc = Internal(req[r].kind)]
  <2>1. req' = [req EXCEPT ![r] = rq] /\ UNCHANGED <<nonceDB, minted>>
    BY <1>2 DEF Before
  <2>2. Internal(req[r].kind) \in {"nonce", "signature", "refresh"}
    BY <1>2, InternalOK DEF Shape, Request, Before
  <2>3. ~Carries(rq)
    BY <2>2 DEF Carries, PermitSteps, Request
  <2> HIDE DEF rq
  <2>. QED BY <2>1, <2>3, KeepsPlace
<1>3. ASSUME NEW r \in Requests, Refresh(r) PROVE OnePlace'
  <2> DEFINE rq == [req[r] EXCEPT !.pc = "claims"]
  <2>1. req' = [req EXCEPT ![r] = rq] \/ req' = [req EXCEPT ![r] = Idle]
    BY <1>3 DEF Refresh, Drop
  <2>2. ~Carries(rq) /\ ~Carries(Idle)
    BY <1>3 DEF Refresh, Shape, Ownership, NonceOwner, Carries, Idle, PermitSteps, Request
  <2>3. UNCHANGED <<nonceDB, minted>>
    BY <1>3 DEF Refresh
  <2> HIDE DEF rq
  <2>. QED BY <2>1, <2>2, <2>3, KeepsPlace
<1>4. ASSUME NEW r \in Requests, Bound(r) \/ Claims(r) \/ Compact(r) PROVE OnePlace'
  <2> DEFINE jwt == [currentWallet |-> builder, stamp |-> now]
             bound == [req[r] EXCEPT !.pc = "claims"]
             claims == [req[r] EXCEPT !.pc = "compact"]
             compact == [req[r] EXCEPT !.pc = "saveRt", !.newJwt = jwt]
  <2>1. \E rq : /\ req' = [req EXCEPT ![r] = rq]
                /\ rq = bound \/ rq = claims \/ rq = compact
    BY <1>4 DEF Bound, Claims, Compact
  <2>2. req[r].pc \in PermitSteps /\ UNCHANGED <<nonceDB, minted>>
    BY <1>4 DEF Bound, Claims, Compact, PermitSteps
  <2>3. \A rq : rq = bound \/ rq = claims \/ rq = compact =>
               (Carries(rq) => Carries(req[r]) /\ rq.nonce = req[r].nonce)
    BY <2>2 DEF Carries, PermitSteps, Request
  <2> HIDE DEF bound, claims, compact
  <2>. QED BY <2>1, <2>2, <2>3, KeepsPlace
<1>5. ASSUME NEW r \in Requests, After(r) \/ Fail(r) PROVE OnePlace'
  <2>1. req' = [req EXCEPT ![r] = Idle] /\ UNCHANGED <<nonceDB, minted>>
    BY <1>5 DEF After, Fail, Drop
  <2>2. ~Carries(Idle)
    BY DEF Carries, Idle, PermitSteps
  <2>. QED BY <2>1, <2>2, KeepsPlace
<1>7. ASSUME NEW r \in Requests, EmptyBody(r) PROVE OnePlace'
  <2> DEFINE rq == [req[r] EXCEPT !.pc = "bound"]
  <2>1. req' = [req EXCEPT ![r] = rq] \/ req' = [req EXCEPT ![r] = Idle]
    BY <1>7 DEF EmptyBody, Drop
  <2>2. ~Carries(rq) /\ ~Carries(Idle)
    BY <1>7 DEF EmptyBody, Shape, Carries, Idle, PermitSteps, Request
  <2>3. UNCHANGED <<nonceDB, minted>>
    BY <1>7 DEF EmptyBody
  <2> HIDE DEF rq
  <2>. QED BY <2>1, <2>2, <2>3, KeepsPlace
<1>6. CASE Tick \/ UNCHANGED vars
  BY <1>6 DEF OnePlace, OneCarrier, CarriedApart, StoredUnspent, NonceSingleUse, Carries, Spent, Tick, vars
<1>. QED
  BY <1>1, <1>2, <1>3, <1>4, <1>5, <1>6, <1>7, NewNoncePlace, SaveNoncePlace, SignaturePlace, SaveRtPlace
  DEF Next, Serve

LEMMA PlaceCorrect == Spec => []OnePlace
<1>1. OwnInv /\ OnePlace /\ [Next]_vars => OnePlace'
  BY PlaceStep
<1>. QED BY <1>1, PlaceInit, OwnCorrect, PTL DEF Spec

\* However many POST and BOUND requests race for the nonces of however many
\* wallets, and whatever fails in between, a nonce buys one session at most.
THEOREM SingleUseCorrect == Spec => []NonceSingleUse
<1>1. OnePlace => NonceSingleUse
  BY DEF OnePlace
<1>. QED BY <1>1, PlaceCorrect, PTL

-----------------------------------------------------------------------------
(* The refinement of LoginLedger.  Facts about the mapping first: what a     *)
(* step of one request does to the permits and to the visits, what it does   *)
(* to the placed nonces, and when the challenges stay as they are.  Then one *)
(* lemma per action names the ledger's step it is.                           *)

\* The steps of the ledger that leave no trace in it.
LedgerIdle ==
    UNCHANGED <<OpenChallenges, PlacedNonces, Visits, Permits, CurrentSessions, Len(minted)>>

LedgerStep == Ledger!Next \/ LedgerIdle

LEMMA PermitOfStep ==
  ASSUME NEW rq
  PROVE  /\ rq.pc \in PermitSteps => PermitOf(rq) = rq.wallet
         /\ rq.pc \notin PermitSteps => PermitOf(rq) = NoWallet
  BY DEF PermitOf, PermitSteps

LEMMA PermitsStep ==
  ASSUME NEW r \in Requests, \A q \in Requests \ {r} : req'[q] = req[q]
  PROVE  /\ Permits' = [Permits EXCEPT ![r] = PermitOf(req'[r])]
         /\ Permits[r] = PermitOf(req[r])
  BY DEF Permits, PermitOf

LEMMA VisitsStep ==
  ASSUME NEW r \in Requests, \A q \in Requests \ {r} : req'[q] = req[q]
  PROVE  /\ Visits' = [Visits EXCEPT ![r] = VisitOf(req'[r])]
         /\ Visits[r] = VisitOf(req[r])
  BY DEF Visits, VisitOf, HasBody

\* What a request has come for stays the same while it keeps who it is.
LEMMA VisitKept ==
  ASSUME NEW old, NEW new,
         new.kind = old.kind, new.wallet = old.wallet, new.signer = old.signer,
         new.rt = old.rt, new.client = old.client,
         (old.kind = "GET") \/ (old.pc # "after" /\ new.pc # "after")
  PROVE  VisitOf(new) = VisitOf(old)
  BY DEF VisitOf, HasBody

\* What each kind of request comes for.
LEMMA VisitFacts ==
  ASSUME NEW rq
  PROVE  /\ (rq.kind = "GET") \/ (rq.pc = "after") => VisitOf(rq) = NoVisit
         /\ ~((rq.kind = "GET") \/ (rq.pc = "after")) =>
               /\ VisitOf(rq) = [wallet |-> VisitOf(rq).wallet, how |-> VisitOf(rq).how,
                                 session |-> VisitOf(rq).session]
               /\ VisitOf(rq).wallet = rq.wallet
               /\ VisitOf(rq).how \in {"redeem", "show", "vouched"}
               /\ VisitOf(rq).how = "show" <=> rq.kind = "PUT"
               /\ VisitOf(rq).how = "vouched" <=> (rq.kind = "BOUND" /\ ~HasBody(rq))
               /\ VisitOf(rq).session = IF rq.kind = "PUT" THEN rq.rt ELSE rq.client
  BY DEF VisitOf, HasBody

LEMMA VisitsSame ==
  ASSUME NEW r \in Requests, \A q \in Requests \ {r} : req'[q] = req[q],
         VisitOf(req'[r]) = VisitOf(req[r])
  PROVE  Visits' = Visits
  BY VisitsStep DEF Visits

\* Neither taking up nor dropping a nonce: the placed ones stay.
LEMMA PlacedSame ==
  ASSUME NEW r \in Requests, \A q \in Requests \ {r} : req'[q] = req[q],
         req[r].pc # "saveNonce", req'[r].pc # "saveNonce", issued' = issued
  PROVE  PlacedNonces' = PlacedNonces
<1>1. {q \in Requests : req'[q].pc = "saveNonce"} = {q \in Requests : req[q].pc = "saveNonce"}
  OBVIOUS
<1>2. {req'[q].nonce : q \in {p \in Requests : req'[p].pc = "saveNonce"}}
        = {req[q].nonce : q \in {p \in Requests : req[p].pc = "saveNonce"}}
  BY <1>1
<1>. QED BY <1>2 DEF PlacedNonces

\* The request that made a nonce lets go of it: it is placed, once.
LEMMA PlacedGrows ==
  ASSUME OwnInv, OnePlace, NEW r \in Requests, \A q \in Requests \ {r} : req'[q] = req[q],
         req[r].pc = "saveNonce", req'[r].pc # "saveNonce", issued' = issued
  PROVE  /\ req[r].nonce \notin PlacedNonces
         /\ req[r].nonce # 0
         /\ PlacedNonces' = PlacedNonces \cup {req[r].nonce}
<1> DEFINE saving == {q \in Requests : req[q].pc = "saveNonce"}
           n == req[r].nonce
<1>1. n \in 1..Len(issued) /\ n # 0
  BY DEF OwnInv, TypeInv, TypeOK, RequestsOK, Request, HistoryOK, Shape
<1>2. \A q \in saving : req[q].nonce = n => q = r
  BY DEF OnePlace, OneCarrier, Carries
<1>3. n \notin PlacedNonces
  BY DEF PlacedNonces
<1>4. {q \in Requests : req'[q].pc = "saveNonce"} = saving \ {r}
  OBVIOUS
<1>5. {req'[q].nonce : q \in {p \in Requests : req'[p].pc = "saveNonce"}}
        = {req[q].nonce : q \in saving} \ {n}
  <2>1. {req'[q].nonce : q \in {p \in Requests : req'[p].pc = "saveNonce"}}
          = {req[q].nonce : q \in saving \ {r}}
    BY <1>4
  <2>. QED BY <1>2, <2>1
<1>6. PlacedNonces' = (1..Len(issued)) \ ({req[q].nonce : q \in saving} \ {n})
  BY <1>5 DEF PlacedNonces
<1>. QED BY <1>1, <1>3, <1>6 DEF PlacedNonces
LEMMA OpenSame ==
  ASSUME UNCHANGED <<now, nonceDB>>
  PROVE  OpenChallenges' = OpenChallenges
  BY DEF OpenChallenges, SavedNonce

\* Writing the record of one wallet changes that wallet's challenge only.
LEMMA OpenOne ==
  ASSUME NEW w \in Wallets, NEW record, now' = now,
         \A v \in Wallets : nonceDB'[v] = IF v = w THEN record ELSE nonceDB[v]
  PROVE  OpenChallenges' = [OpenChallenges EXCEPT ![w] = IF now < record.expires THEN record.id ELSE 0]
<1> DEFINE open(v, db, t) == IF t < db[v].expires THEN db[v].id ELSE 0
<1>1. OpenChallenges' = [v \in Wallets |-> open(v, nonceDB', now')]
  BY DEF OpenChallenges, SavedNonce
<1>2. OpenChallenges = [v \in Wallets |-> open(v, nonceDB, now)]
  BY DEF OpenChallenges, SavedNonce
<1>3. \A v \in Wallets : open(v, nonceDB', now') =
                           IF v = w THEN IF now < record.expires THEN record.id ELSE 0
                                    ELSE open(v, nonceDB, now)
  OBVIOUS
<1> HIDE DEF open
<1>. QED BY <1>1, <1>2, <1>3

LEMMA CurrentSame ==
  ASSUME UNCHANGED rtDB
  PROVE  CurrentSessions' = CurrentSessions
  BY DEF CurrentSessions

\* A step of one request that neither earns nor gives up a permit.
LEMMA SilentStep ==
  ASSUME NEW r \in Requests, \A q \in Requests \ {r} : req'[q] = req[q],
         req[r].pc # "saveNonce", req'[r].pc # "saveNonce",
         PermitOf(req'[r]) = PermitOf(req[r]), VisitOf(req'[r]) = VisitOf(req[r]),
         UNCHANGED <<now, nonceDB, rtDB, issued, minted>>
  PROVE  LedgerStep
<1>1. Permits' = Permits
  BY PermitsStep DEF Permits
<1>2. PlacedNonces' = PlacedNonces
  BY PlacedSame
<1>3. LedgerIdle
  BY <1>1, <1>2, VisitsSame, OpenSame, CurrentSame DEF LedgerIdle
<1>. QED BY <1>3 DEF LedgerStep

\* The request ends: a nonce it was to save is discarded, a visitor leaves.
LEMMA DropLedger ==
  ASSUME OwnInv, OnePlace, NEW r \in Requests, Drop(r),
         UNCHANGED <<now, nonceDB, rtDB, issued, minted>>
  PROVE  LedgerStep
<1>1. req'[r] = Idle /\ \A q \in Requests \ {r} : req'[q] = req[q]
  BY DEF OwnInv, TypeInv, TypeOK, RequestsOK, Drop
<1>2. PermitOf(Idle) = NoWallet /\ Idle.pc # "saveNonce" /\ VisitOf(Idle) = NoVisit
  BY PermitOfStep, VisitFacts DEF Idle, PermitSteps
<1>3. CASE req[r].pc = "saveNonce"
  <2>1. PermitOf(req[r]) = NoWallet /\ req[r].kind = "GET"
    BY <1>3, PermitOfStep DEF PermitSteps, OwnInv, TypeInv, Shape
  <2>2. Permits' = Permits
    BY <1>1, <1>2, <2>1, PermitsStep DEF Permits
  <2>3. VisitOf(req[r]) = NoVisit
    BY <2>1, VisitFacts
  <2>4. Visits' = Visits
    BY <1>1, <1>2, <2>3, VisitsSame
  <2>5. /\ req[r].nonce \notin PlacedNonces /\ req[r].nonce # 0
        /\ PlacedNonces' = PlacedNonces \cup {req[r].nonce}
    BY <1>1, <1>2, <1>3, PlacedGrows
  <2>6. Ledger!Discard
    BY <2>2, <2>4, <2>5, OpenSame, CurrentSame DEF Ledger!Discard, Ledger!Fresh
  <2>. QED BY <2>6 DEF LedgerStep, Ledger!Next
<1>4. CASE req[r].kind # "GET" /\ req[r].pc # "after"
  <2>1. req[r].wallet \in Wallets /\ req[r].pc # "saveNonce"
    BY <1>4 DEF OwnInv, TypeInv, TypeOK, RequestsOK, Shape
  <2>2. VisitOf(req[r]).wallet = req[r].wallet
    BY <1>4, VisitFacts
  <2>3. Visits[r] # NoVisit
    BY <1>1, <2>1, <2>2, VisitsStep, WalletAssumption DEF NoVisit
  <2>4. Permits' = [Permits EXCEPT ![r] = NoWallet] /\ Visits' = [Visits EXCEPT ![r] = NoVisit]
    BY <1>1, <1>2, PermitsStep, VisitsStep
  <2>5. PlacedNonces' = PlacedNonces
    BY <1>1, <1>2, <2>1, PlacedSame
  <2>6. Ledger!Leave(r)
    BY <2>3, <2>4, <2>5, OpenSame, CurrentSame DEF Ledger!Leave, Ledger!NoVisit, NoVisit
  <2>. QED BY <2>6 DEF LedgerStep, Ledger!Next
<1>5. CASE req[r].pc # "saveNonce" /\ (req[r].kind = "GET" \/ req[r].pc = "after")
  <2>1. req[r].pc \notin PermitSteps
    BY <1>5 DEF PermitSteps, OwnInv, TypeInv, Shape
  <2>2. PermitOf(req[r]) = PermitOf(Idle) /\ VisitOf(req[r]) = VisitOf(Idle)
    BY <1>2, <1>5, <2>1, PermitOfStep, VisitFacts
  <2>. QED BY <1>1, <1>2, <1>5, <2>2, SilentStep
<1>. QED BY <1>3, <1>4, <1>5

\* A client comes, with a session that was stored if with any.
LEMMA ArriveLedger ==
  ASSUME OwnInv, NEW r \in Requests, Arrive(r) PROVE LedgerStep
<1>1. PICK rq : Sendable(rq) /\ Accept(r, rq)
  BY ArriveSends DEF OwnInv
<1>2. /\ req'[r] = rq /\ \A q \in Requests \ {r} : req'[q] = req[q]
      /\ req[r].pc = "idle" /\ req[r].kind = "GET"
      /\ UNCHANGED <<now, nonceDB, rtDB, issued, minted>>
  BY <1>1 DEF Accept, OwnInv, TypeInv, TypeOK, RequestsOK, Shape
<1>3. PermitOf(req[r]) = NoWallet /\ VisitOf(req[r]) = NoVisit
  BY <1>2, PermitOfStep, VisitFacts DEF PermitSteps
<1>4. PermitOf(rq) = NoWallet /\ rq.pc \notin {"saveNonce", "after"}
  BY <1>1, PermitOfStep DEF Sendable, PermitSteps
<1>5. CASE rq.kind = "GET"
  <2>1. VisitOf(rq) = NoVisit
    BY <1>5, VisitFacts
  <2>. QED BY <1>2, <1>3, <1>4, <2>1, SilentStep
<1>6. CASE rq.kind # "GET"
  <2> DEFINE v == VisitOf(rq)
  <2>1. /\ v = [wallet |-> v.wallet, how |-> v.how, session |-> v.session]
        /\ v.wallet = rq.wallet /\ v.how \in {"redeem", "show", "vouched"}
        /\ v.how = "vouched" => rq.kind = "BOUND"
        /\ v.session = IF rq.kind = "PUT" THEN rq.rt ELSE rq.client
    BY <1>4, <1>6, VisitFacts
  <2> HIDE DEF v
  <2>2. /\ rq.wallet \in Wallets /\ rq.rt \in 0..Len(minted) /\ rq.client \in 0..Len(minted)
        /\ rq.kind = "BOUND" => rq.client # 0
    BY <1>1 DEF Sendable, Request, OwnInv, TypeInv, TypeOK, HistoryOK
  <2>3. v \in Ledger!Visit
    BY <2>1, <2>2 DEF Ledger!Visit
  <2>4. v.how = "vouched" => v.session # 0
    BY <2>1, <2>2
  <2>5. Visits[r] = NoVisit /\ Visits' = [Visits EXCEPT ![r] = v]
    BY <1>2, <1>3, VisitsStep DEF v
  <2>6. Permits' = Permits
    BY <1>2, <1>3, <1>4, PermitsStep DEF Permits
  <2>7. PlacedNonces' = PlacedNonces
    BY <1>2, <1>4, PlacedSame
  <2>8. Ledger!Come(r, v)
    BY <1>2, <2>4, <2>5, <2>6, <2>7, OpenSame, CurrentSame DEF Ledger!Come, Ledger!NoVisit, NoVisit
  <2>. QED BY <2>3, <2>8 DEF LedgerStep, Ledger!Next
<1>. QED BY <1>5, <1>6

LEMMA NewNonceLedger ==
  ASSUME OwnInv, NEW r \in Requests, NewNonce(r) PROVE LedgerStep
<1> DEFINE saving == {q \in Requests : req[q].pc = "saveNonce"}
           new == Len(issued) + 1
<1>1. /\ req'[r].pc = "saveNonce" /\ req'[r].nonce = new
      /\ \A q \in Requests \ {r} : req'[q] = req[q]
      /\ req[r].pc = "nonce" /\ UNCHANGED <<now, nonceDB, rtDB, minted>>
  BY DEF NewNonce, NewNonceId, OwnInv, TypeInv, TypeOK, RequestsOK, Request
<1>2. Len(issued) \in Nat /\ Len(issued') = new
  BY DEF NewNonce, OwnInv, TypeInv, TypeOK, HistoryOK
<1>3. Permits' = Permits
  BY <1>1, PermitsStep, PermitOfStep DEF Permits, PermitSteps
<1>4. PlacedNonces' = PlacedNonces
  <2>1. {q \in Requests : req'[q].pc = "saveNonce"} = saving \cup {r}
    BY <1>1
  <2>2. \A q \in saving : q # r /\ req[q].nonce \in 0..Len(issued)
    BY <1>1, <1>2 DEF OwnInv, TypeInv, TypeOK, RequestsOK, Request
  <2>3. {req'[q].nonce : q \in {p \in Requests : req'[p].pc = "saveNonce"}}
          = {req[q].nonce : q \in saving} \cup {new}
    <3>1. {req'[q].nonce : q \in {p \in Requests : req'[p].pc = "saveNonce"}}
            = {req'[q].nonce : q \in saving \cup {r}}
      BY <2>1
    <3>. QED BY <1>1, <2>2, <3>1
  <2>4. PlacedNonces' = (1..new) \ ({req[q].nonce : q \in saving} \cup {new})
    BY <1>2, <2>3 DEF PlacedNonces
  <2>5. (1..new) \ {new} = 1..Len(issued)
    BY <1>2
  <2>. QED BY <2>4, <2>5 DEF PlacedNonces
<1>5. Visits' = Visits
  <2>1. req[r].kind = "GET" /\ req'[r].kind = "GET"
    BY DEF NewNonce, OwnInv, TypeInv, TypeOK, RequestsOK, Request, Shape
  <2>2. VisitOf(req'[r]) = VisitOf(req[r])
    BY <2>1, VisitFacts
  <2>. QED BY <1>1, <2>2, VisitsSame
<1>6. LedgerIdle
  BY <1>1, <1>3, <1>4, <1>5, OpenSame, CurrentSame DEF LedgerIdle
<1>. QED BY <1>6 DEF LedgerStep

LEMMA SaveNonceLedger ==
  ASSUME OwnInv, OnePlace, NEW r \in Requests, SaveNonce(r) PROVE LedgerStep
<1> DEFINE w == req[r].wallet
           n == req[r].nonce
<1>1. /\ req[r].pc = "saveNonce" /\ req'[r].pc = "after" /\ w \in Wallets
      /\ \A q \in Requests \ {r} : req'[q] = req[q]
      /\ UNCHANGED <<now, rtDB, issued, minted>>
  BY DEF SaveNonce, OwnInv, TypeInv, TypeOK, RequestsOK, Request
<1>2. Permits' = Permits
  BY <1>1, PermitsStep, PermitOfStep DEF Permits, PermitSteps
<1>3. n \notin PlacedNonces /\ n # 0 /\ PlacedNonces' = PlacedNonces \cup {n}
  BY <1>1, PlacedGrows
<1>4. OpenChallenges' = [OpenChallenges EXCEPT ![w] = n]
  <2> DEFINE record == [id |-> n, expires |-> now + NonceLifetime]
  <2>1. \A v \in Wallets : nonceDB'[v] = IF v = w THEN record ELSE nonceDB[v]
    BY DEF SaveNonce, OwnInv, TypeInv, TypeOK, StoreOK
  <2>2. now < now + NonceLifetime
    BY LifetimeAssumption DEF OwnInv, TypeInv, TypeOK, StoreOK
  <2>3. record.id = n /\ now < record.expires
    BY <2>2
  <2> HIDE DEF record, n
  <2>. QED BY <1>1, <2>1, <2>3, OpenOne
<1>5. Visits' = Visits
  <2>1. req[r].kind = "GET" /\ req'[r].kind = "GET"
    BY DEF SaveNonce, OwnInv, TypeInv, TypeOK, RequestsOK, Request, Shape
  <2>2. VisitOf(req'[r]) = VisitOf(req[r])
    BY <2>1, VisitFacts
  <2>. QED BY <1>1, <2>2, VisitsSame
<1>6. Ledger!Challenge(w)
  BY <1>1, <1>2, <1>3, <1>4, <1>5, CurrentSame DEF Ledger!Challenge, Ledger!Fresh
<1>. QED BY <1>1, <1>6 DEF LedgerStep, Ledger!Next

\* GETDEL closes the challenge, whether or not the signature was good.
LEMMA TakenCloses ==
  ASSUME OwnInv, NEW w \in Wallets, nonceDB' = Taken(w), now' = now
  PROVE  OpenChallenges' = [OpenChallenges EXCEPT ![w] = 0]
<1>1. \A v \in Wallets : nonceDB'[v] = IF v = w THEN NoNonce ELSE nonceDB[v]
  BY DEF Taken, OwnInv, TypeInv, TypeOK, StoreOK
<1>2. NoNonce.id = 0
  BY DEF NoNonce
<1>. QED BY <1>1, <1>2, OpenOne

LEMMA SignatureLedger ==
  ASSUME OwnInv, NEW r \in Requests, Signature(r) PROVE LedgerStep
<1> DEFINE w == req[r].wallet
           n == SavedNonce(w)
           next == IF req[r].kind = "BOUND" THEN "bound" ELSE "claims"
<1>1. /\ req[r].pc = "signature" /\ w \in Wallets /\ HasBody(req[r])
      /\ req[r].kind \notin {"GET", "PUT"}
  BY DEF Signature, OwnInv, TypeInv, TypeOK, RequestsOK, Shape
<1>2. UNCHANGED <<now, rtDB, issued, minted>> /\ next \in PermitSteps \ {"saveNonce"}
  BY DEF Signature, PermitSteps
<1>3. OpenChallenges' = [OpenChallenges EXCEPT ![w] = 0]
  BY <1>1, <1>2, TakenCloses DEF Signature
<1>4. Permits[r] = NoWallet
  BY <1>1, PermitOfStep DEF Permits, PermitSteps
<1>5. \A q \in Requests \ {r} : req'[q] = req[q]
  BY SignatureEffect DEF OwnInv
<1>6. Visits[r].how = "redeem" /\ Visits[r].wallet = w
  <2>1. VisitOf(req[r]).how = "redeem" /\ VisitOf(req[r]).wallet = w
    BY <1>1, VisitFacts
  <2>. QED BY <1>5, <2>1, VisitsStep
<1>7. CASE Drop(r)
  <2>1. req'[r] = Idle
    BY <1>7 DEF Drop, OwnInv, TypeInv, TypeOK, RequestsOK
  <2>2. /\ Idle.pc = "idle" /\ PermitOf(Idle) = NoWallet
        /\ VisitOf(Idle) = NoVisit
    BY IdleOK, PermitOfStep, VisitFacts DEF PermitSteps
  <2>3. Permits' = Permits
    BY <1>4, <1>5, <2>1, <2>2, PermitsStep DEF Permits
  <2>4. Visits' = [Visits EXCEPT ![r] = NoVisit]
    BY <1>5, <2>1, <2>2, VisitsStep
  <2>5. PlacedNonces' = PlacedNonces
    BY <1>1, <1>2, <1>5, <2>1, <2>2, PlacedSame
  <2>6. Ledger!Miss(r)
    BY <1>2, <1>3, <1>4, <1>6, <2>3, <2>4, <2>5, CurrentSame
    DEF Ledger!Miss, Ledger!NoVisit, NoVisit
  <2>. QED BY <2>6 DEF LedgerStep, Ledger!Next
<1>8. CASE n # 0 /\ req' = [req EXCEPT ![r].pc = next, ![r].nonce = n]
  <2>1. /\ req'[r].pc = next /\ req'[r].wallet = w /\ req'[r].kind = req[r].kind
        /\ req'[r].signer = req[r].signer /\ req'[r].rt = req[r].rt
        /\ req'[r].client = req[r].client
    BY <1>8 DEF OwnInv, TypeInv, TypeOK, RequestsOK, Request
  <2>2. Permits' = [Permits EXCEPT ![r] = w]
    BY <1>2, <1>5, <2>1, PermitsStep, PermitOfStep
  <2>3. PlacedNonces' = PlacedNonces
    BY <1>1, <1>2, <1>5, <2>1, PlacedSame
  <2>4. OpenChallenges[w] # 0
    BY <1>1, <1>8 DEF OpenChallenges
  <2>5. next # "after"
    OBVIOUS
  <2>6. VisitOf(req'[r]) = VisitOf(req[r])
    BY <1>1, <2>1, <2>5, VisitKept
  <2>7. Visits' = Visits
    BY <1>5, <2>6, VisitsSame
  <2>8. Ledger!Redeem(r)
    BY <1>2, <1>3, <1>4, <1>6, <2>2, <2>3, <2>4, <2>7, CurrentSame
    DEF Ledger!Redeem, Ledger!Grant
  <2>. QED BY <2>8 DEF LedgerStep, Ledger!Next
<1>. QED BY <1>7, <1>8 DEF Signature

\* Without a body, BOUND goes on for the session its client came with.
LEMMA EmptyBodyLedger ==
  ASSUME OwnInv, OnePlace, NEW r \in Requests, EmptyBody(r) PROVE LedgerStep
<1> DEFINE w == req[r].wallet
<1>1. /\ req[r].pc \in {"signature", "refresh"} /\ w \in Wallets /\ ~HasBody(req[r])
      /\ UNCHANGED <<now, nonceDB, rtDB, issued, minted>>
  BY DEF EmptyBody, OwnInv, TypeInv, TypeOK, RequestsOK
<1>2. CASE Drop(r)
  BY <1>1, <1>2, DropLedger
<1>3. CASE req[r].kind = "BOUND" /\ req' = [req EXCEPT ![r].pc = "bound"]
  <2>1. /\ req'[r].pc = "bound" /\ req'[r].wallet = w /\ req'[r].kind = req[r].kind
        /\ req'[r].signer = req[r].signer /\ req'[r].rt = req[r].rt
        /\ req'[r].client = req[r].client
    BY <1>3 DEF OwnInv, TypeInv, TypeOK, RequestsOK, Request
  <2>2. \A q \in Requests \ {r} : req'[q] = req[q]
    BY <1>3 DEF OwnInv, TypeInv, TypeOK, RequestsOK
  <2>3. Permits' = [Permits EXCEPT ![r] = w] /\ Permits[r] = NoWallet
    BY <1>1, <2>1, <2>2, PermitsStep, PermitOfStep DEF PermitSteps
  <2>4. PlacedNonces' = PlacedNonces
    BY <1>1, <2>1, <2>2, PlacedSame
  <2>5. VisitOf(req[r]).how = "vouched" /\ VisitOf(req[r]).wallet = w
    BY <1>1, <1>3, VisitFacts
  <2>6. VisitOf(req'[r]) = VisitOf(req[r])
    BY <1>1, <2>1, VisitKept
  <2>7. Visits[r].how = "vouched" /\ Visits[r].wallet = w /\ Visits' = Visits
    BY <2>2, <2>5, <2>6, VisitsStep, VisitsSame
  <2>8. Ledger!Vouch(r)
    BY <1>1, <2>3, <2>4, <2>7, OpenSame, CurrentSame DEF Ledger!Vouch, Ledger!Grant
  <2>. QED BY <2>8 DEF LedgerStep, Ledger!Next
<1>. QED BY <1>2, <1>3 DEF EmptyBody

LEMMA RefreshLedger ==
  ASSUME OwnInv, OnePlace, NEW r \in Requests, Refresh(r) PROVE LedgerStep
<1> DEFINE w == req[r].wallet
<1>1. /\ req[r].pc = "refresh" /\ w \in Wallets
      /\ UNCHANGED <<now, nonceDB, rtDB, issued, minted>>
  BY DEF Refresh, OwnInv, TypeInv, TypeOK, RequestsOK
<1>2. CASE Drop(r)
  BY <1>1, <1>2, DropLedger
<1>3. CASE PairAccepted(req[r]) /\ req' = [req EXCEPT ![r].pc = "claims"]
  <2>1. /\ req'[r].pc = "claims" /\ req'[r].wallet = w
        /\ \A q \in Requests \ {r} : req'[q] = req[q]
    BY <1>3 DEF OwnInv, TypeInv, TypeOK, RequestsOK, Request
  <2>2. Permits' = [Permits EXCEPT ![r] = w] /\ Permits[r] = NoWallet
    BY <1>1, <2>1, PermitsStep, PermitOfStep DEF PermitSteps
  <2>3. PlacedNonces' = PlacedNonces
    BY <1>1, <2>1, PlacedSame
  <2>4. CurrentSessions[w] # 0 /\ req[r].rt = CurrentSessions[w]
    BY <1>1, <1>3 DEF CurrentSessions, PairAccepted, RtValid
  <2>5. /\ req'[r].kind = req[r].kind /\ req'[r].signer = req[r].signer
        /\ req'[r].rt = req[r].rt /\ req'[r].client = req[r].client
    BY <1>3 DEF OwnInv, TypeInv, TypeOK, RequestsOK, Request
  <2>6. req[r].kind = "PUT"
    BY <1>1 DEF OwnInv, TypeInv, Shape
  <2>7. VisitOf(req[r]).how = "show" /\ VisitOf(req[r]).wallet = w /\ VisitOf(req[r]).session = req[r].rt
    BY <1>1, <2>6, VisitFacts
  <2>8. VisitOf(req'[r]) = VisitOf(req[r])
    BY <1>1, <2>1, <2>5, VisitKept
  <2>9. /\ Visits[r].how = "show" /\ Visits[r].wallet = w /\ Visits[r].session = req[r].rt
        /\ Visits' = Visits
    BY <2>1, <2>7, <2>8, VisitsStep, VisitsSame
  <2>10. Ledger!Show(r)
    BY <1>1, <2>2, <2>3, <2>4, <2>9, OpenSame, CurrentSame DEF Ledger!Show, Ledger!Grant
  <2>. QED BY <2>10 DEF LedgerStep, Ledger!Next
<1>. QED BY <1>2, <1>3 DEF Refresh

LEMMA SaveRtLedger ==
  ASSUME OwnInv, NEW r \in Requests, SaveRt(r) PROVE LedgerStep
<1> DEFINE w == req[r].wallet
           new == Len(minted) + 1
<1>1. /\ req[r].pc = "saveRt" /\ req'[r].pc = "after" /\ w \in Wallets
      /\ \A q \in Requests \ {r} : req'[q] = req[q]
      /\ UNCHANGED <<now, nonceDB, issued>>
  BY DEF SaveRt, OwnInv, TypeInv, TypeOK, RequestsOK, Request
<1>2. Len(minted') = new
  BY DEF SaveRt, OwnInv, TypeInv, TypeOK, HistoryOK
<1>3. CurrentSessions' = [CurrentSessions EXCEPT ![w] = new]
  <2>1. \A v \in Wallets : rtDB'[v].rt = IF v = w THEN new ELSE rtDB[v].rt
    BY DEF SaveRt, OwnInv, TypeInv, TypeOK, StoreOK
  <2>. QED BY <2>1 DEF CurrentSessions
<1>4. Permits[r] = w /\ w # NoWallet /\ Permits' = [Permits EXCEPT ![r] = NoWallet]
  BY <1>1, PermitsStep, PermitOfStep, WalletAssumption DEF PermitSteps
<1>5. PlacedNonces' = PlacedNonces
  BY <1>1, PlacedSame
<1>6. Visits' = [Visits EXCEPT ![r] = NoVisit]
  <2>1. VisitOf(req'[r]) = NoVisit
    BY <1>1, VisitFacts
  <2>. QED BY <1>1, <2>1, VisitsStep
<1>7. Ledger!Store(r)
  BY <1>1, <1>2, <1>3, <1>4, <1>5, <1>6, OpenSame DEF Ledger!Store, Ledger!NoVisit, NoVisit
<1>. QED BY <1>7 DEF LedgerStep, Ledger!Next

\* Time closes challenges and opens none.
LEMMA TickLedger ==
  ASSUME OwnInv, Tick PROVE LedgerStep
<1> DEFINE closed == {w \in Wallets : ~(now' < nonceDB[w].expires)}
<1>1. UNCHANGED <<nonceDB, rtDB, req, issued, minted>> /\ now' = now + 1 /\ now \in Nat
  BY BoundAssumption DEF Tick, OwnInv, TypeInv, TypeOK, StoreOK
<1>2. OpenChallenges' = [w \in Wallets |-> IF w \in closed THEN 0 ELSE OpenChallenges[w]]
  <2>1. \A w \in Wallets : nonceDB[w].expires \in Nat
    BY DEF OwnInv, TypeInv, TypeOK, StoreOK
  <2>2. \A w \in Wallets : w \notin closed => now < nonceDB[w].expires
    BY <1>1, <2>1
  <2>. QED BY <1>1, <2>2 DEF OpenChallenges, SavedNonce
<1>3. PlacedNonces' = PlacedNonces /\ Permits' = Permits /\ Visits' = Visits
  BY <1>1 DEF PlacedNonces, Permits, Visits
<1>4. closed \in SUBSET Wallets
  OBVIOUS
<1> HIDE DEF closed
<1>5. Ledger!Close
  BY <1>1, <1>2, <1>3, <1>4, CurrentSame DEF Ledger!Close
<1>. QED BY <1>5 DEF LedgerStep, Ledger!Next
LEMMA LedgerInit == Init => Ledger!Init
<1> SUFFICES ASSUME Init PROVE Ledger!Init
  OBVIOUS
<1>1. OpenChallenges = [w \in Wallets |-> 0] /\ CurrentSessions = [w \in Wallets |-> 0]
  BY DEF Init, OpenChallenges, SavedNonce, CurrentSessions, NoNonce, NoRt
<1>2. Permits = [r \in Requests |-> NoWallet]
  BY DEF Init, Permits, PermitOf, Idle
<1>3. PlacedNonces = {} /\ Len(minted) = 0
  BY DEF Init, PlacedNonces
<1>4. Visits = [r \in Requests |-> NoVisit]
  BY IdleOK, VisitFacts DEF Init, Visits
<1>. QED BY <1>1, <1>2, <1>3, <1>4 DEF Ledger!Init, Ledger!NoVisit, NoVisit

LEMMA LedgerNext == OwnInv /\ OnePlace /\ [Next]_vars => [Ledger!Next]_Ledger!vars
<1> SUFFICES ASSUME OwnInv, OnePlace, [Next]_vars PROVE LedgerStep
  BY DEF LedgerStep, LedgerIdle, Ledger!vars
<1>1. ASSUME NEW r \in Requests, Before(r) \/ Bound(r) \/ Claims(r) \/ Compact(r) PROVE LedgerStep
  <2>1. /\ UNCHANGED <<now, nonceDB, rtDB, issued, minted>>
        /\ req[r].pc # "saveNonce" /\ req'[r].pc # "saveNonce"
        /\ req'[r].wallet = req[r].wallet
        /\ \A q \in Requests \ {r} : req'[q] = req[q]
        /\ req[r].pc \in PermitSteps <=> req'[r].pc \in PermitSteps
        /\ req[r].pc # "after" /\ req'[r].pc # "after"
        /\ req'[r].kind = req[r].kind /\ req'[r].signer = req[r].signer
        /\ req'[r].rt = req[r].rt /\ req'[r].client = req[r].client
    <3>1. req \in [Requests -> Request] /\ req[r] \in Request
      BY DEF OwnInv, TypeInv, TypeOK, RequestsOK
    <3>2. CASE Before(r)
      <4>1. Internal(req[r].kind) \in {"nonce", "signature", "refresh"}
        BY <3>1, <3>2, InternalOK DEF Before, OwnInv, TypeInv, Shape, Request
      <4>. QED BY <3>1, <3>2, <4>1 DEF Before, PermitSteps, Request
    <3>3. CASE Bound(r) \/ Claims(r) \/ Compact(r)
      BY <3>1, <3>3 DEF Bound, Claims, Compact, PermitSteps, Request
    <3>. QED BY <1>1, <3>2, <3>3
  <2>2. PermitOf(req'[r]) = PermitOf(req[r])
    BY <2>1, PermitOfStep
  <2>3. VisitOf(req'[r]) = VisitOf(req[r])
    BY <2>1, VisitKept
  <2>. QED BY <2>1, <2>2, <2>3, SilentStep
<1>2. ASSUME NEW r \in Requests, After(r) \/ Fail(r) PROVE LedgerStep
  BY <1>2, DropLedger DEF After, Fail
<1>3. CASE UNCHANGED vars
  BY <1>3 DEF vars, LedgerStep, LedgerIdle, OpenChallenges, SavedNonce, PlacedNonces, Visits, Permits, CurrentSessions
<1>. QED
  BY <1>1, <1>2, <1>3, ArriveLedger, NewNonceLedger, SaveNonceLedger, SignatureLedger, RefreshLedger, EmptyBodyLedger,
     SaveRtLedger, TickLedger
  DEF Next, Serve

\* The four endpoints, with any number of requests in flight, every failure
\* and the clock, do no more than the ledger allows: a wallet's session is only
\* ever replaced by a request that came for this wallet and redeemed its open
\* nonce, showed its current session or, bodiless and with some stored session,
\* was taken at its word; each such entitlement serves one store.
THEOREM LedgerImplemented == Spec => ImplementsLedger
<1>1. OwnInv /\ OnePlace /\ [Next]_vars => [Ledger!Next]_Ledger!vars
  BY LedgerNext
<1>. QED BY <1>1, LedgerInit, OwnCorrect, PlaceCorrect, PTL DEF Spec, Ledger!Spec, ImplementsLedger
-----------------------------------------------------------------------------
(* Where a stored session is on its way to: it has reached a client, or a    *)
(* request that will answer with it waits for the AFTER processors.          *)

HeldByClient ==
    \A w \in Wallets :
        rtDB[w].rt # 0 =>
            \/ rtDB[w].rt \in delivered
            \/ \E r \in Requests : req[r].pc = "after" /\ req[r].kind # "GET" /\ req[r].out = rtDB[w].rt

\* A step of a request that was not about to answer takes nothing back.
LEMMA HeldKept ==
  ASSUME HeldByClient, NEW r \in Requests, \A q \in Requests \ {r} : req'[q] = req[q],
         req[r].pc # "after", UNCHANGED <<rtDB, delivered>>
  PROVE  HeldByClient'
  BY DEF HeldByClient

LEMMA SaveRtHeld ==
  ASSUME TypeInv, HeldByClient, NEW r \in Requests, SaveRt(r) PROVE HeldByClient'
<1> DEFINE new == Len(minted) + 1
<1>1. /\ req'[r].pc = "after" /\ req'[r].out = new /\ req'[r].kind # "GET" /\ req[r].pc = "saveRt"
      /\ \A q \in Requests \ {r} : req'[q] = req[q]
  BY DEF SaveRt, TypeInv, TypeOK, Shape, RequestsOK, Request
<1>2. \A w \in Wallets : rtDB'[w].rt = IF w = req[r].wallet THEN new ELSE rtDB[w].rt
  BY DEF SaveRt, TypeInv, TypeOK, StoreOK
<1>3. delivered' = delivered
  BY DEF SaveRt
<1> HIDE DEF new
<1> SUFFICES ASSUME NEW w \in Wallets, rtDB'[w].rt # 0
             PROVE  \/ rtDB'[w].rt \in delivered'
                    \/ \E q \in Requests :
                          req'[q].pc = "after" /\ req'[q].kind # "GET" /\ req'[q].out = rtDB'[w].rt
  BY DEF HeldByClient
<1>4. CASE w = req[r].wallet
  BY <1>1, <1>2, <1>4
<1>5. CASE w # req[r].wallet
  BY <1>1, <1>2, <1>3, <1>5 DEF HeldByClient
<1>. QED BY <1>4, <1>5

LEMMA AfterHeld ==
  ASSUME TypeInv, HeldByClient, NEW r \in Requests, After(r) PROVE HeldByClient'
<1>1. req[r].kind # "GET" => req[r].out \in delivered'
  BY DEF After, Answer
<1>2. delivered \subseteq delivered' /\ rtDB' = rtDB
  BY DEF After
<1>3. \A q \in Requests \ {r} : req'[q] = req[q]
  BY DEF After, Drop, TypeInv, TypeOK, RequestsOK
<1>. QED BY <1>1, <1>2, <1>3 DEF HeldByClient

LEMMA HeldStep ==
  ASSUME ~Faulty PROVE TypeInv /\ HeldByClient /\ [Next]_vars => HeldByClient'
<1> SUFFICES ASSUME TypeInv, HeldByClient, [Next]_vars PROVE HeldByClient'
  OBVIOUS
<1> USE DEF TypeInv, TypeOK, RequestsOK
<1>1. ASSUME NEW r \in Requests, Arrive(r) PROVE HeldByClient'
  <2>1. PICK rq : Sendable(rq) /\ Accept(r, rq)
    BY <1>1, ArriveSends
  <2>. QED BY <2>1, HeldKept DEF Accept
<1>2. ASSUME NEW r \in Requests, Before(r) \/ NewNonce(r) \/ SaveNonce(r) PROVE HeldByClient'
  BY <1>2, HeldKept DEF Before, NewNonce, SaveNonce
<1>3. ASSUME NEW r \in Requests, Signature(r) PROVE HeldByClient'
  <2>1. \A q \in Requests \ {r} : req'[q] = req[q]
    BY <1>3, SignatureEffect
  <2>. QED BY <1>3, <2>1, HeldKept DEF Signature
<1>4. ASSUME NEW r \in Requests, Refresh(r) PROVE HeldByClient'
  BY <1>4, HeldKept DEF Refresh, Drop
<1>5. ASSUME NEW r \in Requests, Bound(r) \/ Claims(r) \/ Compact(r) PROVE HeldByClient'
  BY <1>5, HeldKept DEF Bound, Claims, Compact
<1>6. CASE Tick \/ UNCHANGED vars
  BY <1>6 DEF HeldByClient, Tick, vars
<1>7. ASSUME NEW r \in Requests, EmptyBody(r) PROVE HeldByClient'
  BY <1>7, HeldKept DEF EmptyBody, Drop
<1>. QED
  BY <1>1, <1>2, <1>3, <1>4, <1>5, <1>6, <1>7, SaveRtHeld, AfterHeld DEF Next, Serve, Fail

\* While Redis and the HTTP services answer, however requests race for the one
\* record of a wallet, the session that won is one its client gets.
THEOREM PairReaches ==
  ASSUME ~Faulty PROVE Spec => []StoredPairReachesClient
<1>1. Init => HeldByClient
  BY DEF Init, HeldByClient, NoRt
<1>2. TypeInv /\ HeldByClient /\ [Next]_vars => HeldByClient'
  BY HeldStep
<1>3. HeldByClient => StoredPairReachesClient
  BY DEF HeldByClient, StoredPairReachesClient
<1>. QED BY <1>1, <1>2, <1>3, TypeInit, TypeStep, PTL DEF Spec
-----------------------------------------------------------------------------
(* What follows from the ledger alone: these proofs use nothing of the       *)
(* requests or of Redis, only LoginLedger under the mapping.                 *)

\* Two wallets never share an open challenge, nor a session.
Apart ==
    \A v, w \in Wallets : v # w =>
        /\ OpenChallenges[v] # 0 => OpenChallenges[v] # OpenChallenges[w]
        /\ CurrentSessions[v] # 0 => CurrentSessions[v] # CurrentSessions[w]

\* A challenge was placed, a session was counted.
Accounted ==
    /\ DOMAIN OpenChallenges = Wallets /\ DOMAIN CurrentSessions = Wallets
    /\ Permits \in [Requests -> Wallets \cup {NoWallet}]
    /\ DOMAIN Visits = Requests
    /\ \A r \in Requests : Visits[r] = NoVisit \/ Visits[r].wallet \in Wallets
    /\ Len(minted) \in Nat
    /\ \A w \in Wallets :
          /\ OpenChallenges[w] # 0 => OpenChallenges[w] \in PlacedNonces
          /\ CurrentSessions[w] \in 0..Len(minted)

LEMMA ApartInit == Ledger!Init => Apart /\ Accounted
<1> SUFFICES ASSUME Ledger!Init PROVE Apart /\ Accounted
  OBVIOUS
<1>1. /\ OpenChallenges = [w \in Wallets |-> 0] /\ CurrentSessions = [w \in Wallets |-> 0]
      /\ Permits = [r \in Requests |-> NoWallet] /\ Len(minted) = 0
      /\ Visits = [r \in Requests |-> NoVisit]
  BY DEF Ledger!Init, Ledger!NoVisit, NoVisit
<1>. QED BY <1>1 DEF Apart, Accounted

LEMMA ChallengeApart ==
  ASSUME Apart, Accounted, NEW w \in Wallets, Ledger!Challenge(w) PROVE Apart' /\ Accounted'
<1>1. PICK n \in (PlacedNonces' \ PlacedNonces) \ {0} :
         /\ OpenChallenges' = [OpenChallenges EXCEPT ![w] = n]
         /\ PlacedNonces' = PlacedNonces \cup {n}
         /\ UNCHANGED <<Visits, Permits, CurrentSessions, Len(minted)>>
  BY DEF Ledger!Challenge, Ledger!Fresh
<1>2. \A v \in Wallets : OpenChallenges'[v] = IF v = w THEN n ELSE OpenChallenges[v]
  BY <1>1 DEF Accounted
<1>. QED BY <1>1, <1>2 DEF Apart, Accounted

LEMMA StoreApart ==
  ASSUME Apart, Accounted, NEW h \in Requests, Ledger!Store(h) PROVE Apart' /\ Accounted'
<1> DEFINE w == Permits[h]
           new == Len(minted) + 1
<1>1. /\ w \in Wallets /\ Len(minted') = new /\ CurrentSessions' = [CurrentSessions EXCEPT ![w] = new]
      /\ Permits' = [Permits EXCEPT ![h] = NoWallet]
      /\ UNCHANGED <<OpenChallenges, PlacedNonces>>
      /\ Visits' = [Visits EXCEPT ![h] = NoVisit]
  BY DEF Ledger!Store, Accounted, Ledger!NoVisit, NoVisit
<1>2. \A v \in Wallets : CurrentSessions'[v] = IF v = w THEN new ELSE CurrentSessions[v]
  BY <1>1 DEF Accounted
<1>3. \A v \in Wallets : CurrentSessions[v] # new /\ CurrentSessions[v] \in 0..Len(minted')
  BY <1>1 DEF Accounted
<1>4. new \in 0..Len(minted') /\ Len(minted') \in Nat
  BY <1>1 DEF Accounted
<1> HIDE DEF w, new
<1>5. Apart'
  BY <1>1, <1>2, <1>3 DEF Apart
<1>6. Accounted'
  BY <1>1, <1>2, <1>3, <1>4 DEF Accounted
<1>. QED BY <1>5, <1>6

LEMMA ApartStep == Apart /\ Accounted /\ [Ledger!Next]_Ledger!vars => Apart' /\ Accounted'
<1> SUFFICES ASSUME Apart, Accounted, [Ledger!Next]_Ledger!vars PROVE Apart' /\ Accounted'
  OBVIOUS
<1>1. CASE Ledger!Close
  <2>1. PICK closed \in SUBSET Wallets :
           /\ OpenChallenges' = [w \in Wallets |-> IF w \in closed THEN 0 ELSE OpenChallenges[w]]
           /\ UNCHANGED <<PlacedNonces, Visits, Permits, CurrentSessions, Len(minted)>>
    BY <1>1 DEF Ledger!Close
  <2>. QED BY <2>1 DEF Apart, Accounted
<1>2. CASE Ledger!Discard
  BY <1>2 DEF Ledger!Discard, Apart, Accounted
<1>3. ASSUME NEW h \in Requests, Ledger!Redeem(h) \/ Ledger!Miss(h) PROVE Apart' /\ Accounted'
  <2> DEFINE w == Visits[h].wallet
  <2>1. Visits[h] # NoVisit
    BY <1>3 DEF Ledger!Redeem, Ledger!Grant, Ledger!Miss, NoVisit
  <2>2. w \in Wallets
    BY <2>1 DEF Accounted
  <2>3. /\ OpenChallenges' = [OpenChallenges EXCEPT ![w] = 0]
        /\ Permits' \in {Permits, [Permits EXCEPT ![h] = w]}
        /\ Visits' \in {Visits, [Visits EXCEPT ![h] = NoVisit]}
        /\ UNCHANGED <<PlacedNonces, CurrentSessions, Len(minted)>>
    BY <1>3 DEF Ledger!Redeem, Ledger!Grant, Ledger!Miss, Ledger!NoVisit, NoVisit
  <2> HIDE DEF w
  <2>4. \A v \in Wallets : OpenChallenges'[v] = IF v = w THEN 0 ELSE OpenChallenges[v]
    BY <2>3 DEF Accounted
  <2>. QED BY <2>2, <2>3, <2>4 DEF Apart, Accounted
<1>4. ASSUME NEW h \in Requests, Ledger!Show(h) \/ Ledger!Vouch(h)
      PROVE  Apart' /\ Accounted'
  <2> DEFINE w == Visits[h].wallet
  <2>1. Visits[h] # NoVisit
    BY <1>4 DEF Ledger!Show, Ledger!Vouch, Ledger!Grant, NoVisit
  <2>2. w \in Wallets
    BY <2>1 DEF Accounted
  <2>3. /\ Permits' = [Permits EXCEPT ![h] = w]
        /\ UNCHANGED <<OpenChallenges, PlacedNonces, Visits, CurrentSessions, Len(minted)>>
    BY <1>4 DEF Ledger!Show, Ledger!Vouch, Ledger!Grant
  <2> HIDE DEF w
  <2>. QED BY <2>2, <2>3 DEF Apart, Accounted
<1>5. ASSUME NEW h \in Requests, Ledger!Leave(h) PROVE Apart' /\ Accounted'
  <2>1. /\ Permits' = [Permits EXCEPT ![h] = NoWallet]
        /\ Visits' = [Visits EXCEPT ![h] = NoVisit]
        /\ UNCHANGED <<OpenChallenges, PlacedNonces, CurrentSessions, Len(minted)>>
    BY <1>5 DEF Ledger!Leave, Ledger!NoVisit, NoVisit
  <2>. QED BY <2>1 DEF Apart, Accounted
<1>6. ASSUME NEW h \in Requests, NEW v \in Ledger!Visit, Ledger!Come(h, v) PROVE Apart' /\ Accounted'
  <2>1. /\ Visits' = [Visits EXCEPT ![h] = v] /\ v.wallet \in Wallets
        /\ UNCHANGED <<OpenChallenges, PlacedNonces, Permits, CurrentSessions, Len(minted)>>
    BY <1>6 DEF Ledger!Come, Ledger!Visit
  <2>. QED BY <2>1 DEF Apart, Accounted
<1>7. CASE UNCHANGED Ledger!vars
  BY <1>7 DEF Ledger!vars, Apart, Accounted
<1>. QED
  BY <1>1, <1>2, <1>3, <1>4, <1>5, <1>6, <1>7, ChallengeApart, StoreApart DEF Ledger!Next

\* Whatever keeps the ledger keeps wallets apart: no nonce can be redeemed for
\* two wallets, no refresh token renews the session of two.  It is proved of
\* the abstract protocol, and the endpoints have it by LedgerImplemented.
THEOREM WalletsStayApart == (Ledger!Spec => []Apart) /\ (Spec => []Apart)
<1>1. Ledger!Spec => []Apart
  BY ApartInit, ApartStep, PTL DEF Ledger!Spec
<1>. QED BY <1>1, LedgerImplemented, PTL DEF ImplementsLedger

-----------------------------------------------------------------------------
(* How far a request has to go.                                              *)

\* The steps a request has left at most.
Left(rq) ==
    CASE rq.pc = "idle" -> 0
      [] rq.pc = "after" -> 1
      [] rq.pc \in {"saveNonce", "saveRt"} -> 2
      [] rq.pc \in {"nonce", "compact"} -> 3
      [] rq.pc = "claims" -> 4
      [] rq.pc \in {"bound", "refresh"} -> 5
      [] rq.pc = "signature" -> 6
      [] OTHER -> 7

\* No step leads a request back.
Onward ==
    [][\A r \in Requests :
          req[r].pc # "idle" =>
              req'[r] = req[r] \/ (Left(req'[r]) \in Nat /\ Left(req'[r]) < Left(req[r]))]_vars

LEMMA DropOnward ==
  ASSUME TypeInv, NEW r \in Requests, Drop(r), req[r].pc # "idle"
  PROVE  /\ Left(req'[r]) \in Nat /\ Left(req'[r]) < Left(req[r])
         /\ \A q \in Requests \ {r} : req'[q] = req[q]
<1>1. req'[r].pc = "idle" /\ \A q \in Requests \ {r} : req'[q] = req[q]
  BY IdleOK DEF Drop, TypeInv, TypeOK, RequestsOK
<1>. QED BY <1>1 DEF Left

LEMMA ServeOnward ==
  ASSUME TypeInv, NEW r \in Requests, Serve(r)
  PROVE  /\ Left(req'[r]) \in Nat /\ Left(req'[r]) < Left(req[r])
         /\ \A q \in Requests \ {r} : req'[q] = req[q]
<1>1. req \in [Requests -> Request] /\ req[r] \in Request
  BY DEF TypeInv, TypeOK, RequestsOK
<1>2. CASE Before(r)
  <2>1. Internal(req[r].kind) \in {"nonce", "signature", "refresh"}
    BY <1>1, <1>2, InternalOK DEF Before, TypeInv, Shape, Request
  <2>2. req'[r].pc \in {"nonce", "signature", "refresh"} /\ req[r].pc = "before"
    BY <1>1, <1>2, <2>1 DEF Before, Request
  <2>. QED BY <1>1, <1>2, <2>2 DEF Left, Before
<1>3. CASE NewNonce(r)
  BY <1>1, <1>3 DEF NewNonce, Left, Request
<1>4. CASE SaveNonce(r)
  BY <1>1, <1>4 DEF SaveNonce, Left, Request
<1>5. CASE Signature(r)
  <2> DEFINE step == IF req[r].kind = "BOUND" THEN "bound" ELSE "claims"
             n == SavedNonce(req[r].wallet)
  <2>1. CASE Drop(r)
    BY <1>5, <2>1, DropOnward DEF Signature
  <2>2. CASE req' = [req EXCEPT ![r].pc = step, ![r].nonce = n]
    <3>1. req'[r].pc \in {"bound", "claims"} /\ req[r].pc = "signature"
      BY <1>1, <1>5, <2>2 DEF Signature, Request
    <3>. QED BY <1>1, <2>2, <3>1 DEF Left
  <2>. QED BY <1>5, <2>1, <2>2 DEF Signature
<1>6. CASE Bound(r)
  BY <1>1, <1>6 DEF Bound, Left, Request
<1>7. CASE Refresh(r)
  <2>1. CASE Drop(r)
    BY <1>7, <2>1, DropOnward DEF Refresh
  <2>2. CASE req' = [req EXCEPT ![r].pc = "claims"]
    BY <1>1, <1>7, <2>2 DEF Refresh, Left, Request
  <2>. QED BY <1>7, <2>1, <2>2 DEF Refresh
<1>8. CASE Claims(r)
  BY <1>1, <1>8 DEF Claims, Left, Request
<1>9. CASE Compact(r)
  BY <1>1, <1>9 DEF Compact, Left, Request
<1>10. CASE SaveRt(r)
  BY <1>1, <1>10 DEF SaveRt, Left, Request
<1>11. CASE After(r)
  BY <1>11, DropOnward DEF After
<1>12. CASE EmptyBody(r)
  <2>1. CASE Drop(r)
    BY <1>12, <2>1, DropOnward DEF EmptyBody
  <2>2. CASE req' = [req EXCEPT ![r].pc = "bound"] /\ req[r].kind = "BOUND"
    <3>1. req'[r].pc = "bound" /\ req[r].pc = "signature"
      BY <1>1, <1>12, <2>2 DEF EmptyBody, TypeInv, Shape, Request
    <3>. QED BY <1>1, <2>2, <3>1 DEF Left
  <2>. QED BY <1>12, <2>1, <2>2 DEF EmptyBody
<1>. QED
  BY <1>2, <1>3, <1>4, <1>5, <1>6, <1>7, <1>8, <1>9, <1>10, <1>11, <1>12 DEF Serve

\* A request makes at most seven steps from its arrival to its answer, whatever
\* it races with and whatever fails: no refusal, retry or failure leads it back
\* or starts it again, and other requests leave it where it is.
THEOREM RequestsGoOnward == Spec => Onward
<1> DEFINE Nearer(r) == req'[r] = req[r] \/ (Left(req'[r]) \in Nat /\ Left(req'[r]) < Left(req[r]))
<1>1. TypeInv /\ [Next]_vars => [\A r \in Requests : req[r].pc # "idle" => Nearer(r)]_vars
  <2> SUFFICES ASSUME TypeInv, Next, NEW r \in Requests, req[r].pc # "idle" PROVE Nearer(r)
    OBVIOUS
  <2>1. ASSUME NEW o \in Requests, Serve(o) PROVE Nearer(r)
    BY <2>1, ServeOnward
  <2>2. ASSUME NEW o \in Requests, Arrive(o) PROVE Nearer(r)
    <3>1. PICK rq : Accept(o, rq)
      BY <2>2, ArriveSends
    <3>. QED BY <3>1 DEF Accept, TypeInv, TypeOK, RequestsOK
  <2>3. ASSUME NEW o \in Requests, Fail(o) PROVE Nearer(r)
    BY <2>3, DropOnward DEF Fail
  <2>4. CASE Tick
    BY <2>4 DEF Tick
  <2>. QED BY <2>1, <2>2, <2>3, <2>4 DEF Next
<1>. QED BY <1>1, TypeInit, TypeStep, PTL DEF Spec, Onward
=============================================================================
