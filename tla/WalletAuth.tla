----------------------------- MODULE WalletAuth -----------------------------
(***************************************************************************)
(* The wallet login protocol of the gateway: the four endpoints that hand  *)
(* out nonces and token pairs (service/gateway/filter/ethLogin), and the   *)
(* two Redis records per wallet that they share (auth/service/db).         *)
(*                                                                         *)
(*   GET   /v1/auth/login/{wallet}   ask for a nonce                       *)
(*   POST  /v1/auth/login/{wallet}   answer it with a signature            *)
(*   PUT   /v1/auth/login/{wallet}   renew a token pair                    *)
(*   BOUND /v1/auth/bound/...        (PUT) log a second wallet in          *)
(*                                                                         *)
(* A request is a chain of Reactor operators: between two operators that   *)
(* wait for Redis, for another HTTP service or for another thread, any     *)
(* other request may run.  One action is one such segment.  A nonce is its *)
(* position in `issued`, a refresh token (a random UUID) the position in   *)
(* `minted` of the session it was stored with; both sequences are history. *)
(***************************************************************************)
EXTENDS Integers, Sequences, FiniteSets

CONSTANTS
    Wallets,        \* wallet addresses, as prepareAddr normalises them
    NoWallet,       \* no address
    Requests,       \* slots for requests served at the same time
    NonceLifetime,  \* jwt.nonce.lifetime, in ticks
    RtLifetime,     \* jwt.token.rt-lifetime, in ticks
    JwtHash(_),     \* String.hashCode of a JWT: not injective
    Faulty,         \* TRUE: Redis and the HTTP services may fail
    MaxTime, MaxNonces, MaxSessions  \* bounds of the model

ASSUME WalletAssumption == NoWallet \notin Wallets
ASSUME LifetimeAssumption == NonceLifetime \in Nat \ {0} /\ RtLifetime \in Nat \ {0}
ASSUME BoundAssumption == MaxTime \in Nat /\ MaxNonces \in Nat /\ MaxSessions \in Nat
ASSUME FaultAssumption == Faulty \in BOOLEAN

Jwt == [currentWallet : Wallets \cup {NoWallet}, stamp : 0..MaxTime]
NoJwt == [currentWallet |-> NoWallet, stamp |-> 0]

ASSUME HashAssumption == \A jwt \in Jwt : JwtHash(jwt) \in Int

VARIABLES
    now,        \* wall clock of the gateway and of Redis
    nonceDB,    \* Redis LOGIN_NONCE_<wallet>: the saved nonce and the end of its TTL
    rtDB,       \* Redis REFRESH_TOKEN_<wallet>: LoginRefreshToken
    builder,    \* CreateJWTService.builder: the wallet its claims name now
    req,        \* the requests being served
    issued,     \* history: the wallet of every nonce made
    seen,       \* history: nonces that reached a client
    minted,     \* history: every session stored in rtDB
    delivered   \* history: sessions whose token pair reached a client

vars == <<now, nonceDB, rtDB, builder, req, issued, seen, minted, delivered>>

Kinds == {"GET", "POST", "PUT", "BOUND"}
Steps == {"idle", "before", "nonce", "saveNonce", "signature", "refresh",
          "bound", "claims", "compact", "saveRt", "after"}

\* What entitles a request to a new session: a redeemed nonce, a current
\* refresh token, or (see EmptyBody) nothing.
Via == [how : {"nonce", "rt", "none"}, id : Nat]

NoNonce == [id |-> 0, expires |-> 0]
NoRt == [rt |-> 0, jwtHash |-> 0, updatedAt |-> 0]

Idle == [pc |-> "idle", kind |-> "GET", wallet |-> NoWallet,
         signer |-> NoWallet, signed |-> 0, jwt |-> NoJwt, rt |-> 0, client |-> 0,
         nonce |-> 0, newJwt |-> NoJwt, out |-> 0]

Request == [pc : Steps, kind : Kinds, wallet : Wallets \cup {NoWallet},
            signer : Wallets \cup {NoWallet}, signed : Nat, jwt : Jwt, rt : Nat,
            client : Nat, nonce : Nat, newJwt : Jwt, out : Nat]

InFlight(kinds) == {r \in Requests : req[r].pc # "idle" /\ req[r].kind \in kinds}

Init ==
    /\ now = 0
    /\ nonceDB = [w \in Wallets |-> NoNonce]
    /\ rtDB = [w \in Wallets |-> NoRt]
    /\ builder = NoWallet
    /\ req = [r \in Requests |-> Idle]
    /\ issued = <<>>
    /\ seen = {}
    /\ minted = <<>>
    /\ delivered = {}

-----------------------------------------------------------------------------
(* Clients.  They sign the nonces they were given (0: any other text), and  *)
(* present the tokens they were given, in any combination and as often as   *)
(* they like.                                                               *)

Accept(r, rq) ==
    /\ req[r].pc = "idle"
    /\ req' = [req EXCEPT ![r] = rq]
    /\ UNCHANGED <<now, nonceDB, rtDB, builder, issued, seen, minted, delivered>>

ArriveGet(r, w) ==
    /\ Len(issued) + Cardinality(InFlight({"GET"})) < MaxNonces
    /\ Accept(r, [Idle EXCEPT !.pc = "before", !.kind = "GET", !.wallet = w])

RoomForSession ==
    Len(minted) + Cardinality(InFlight({"POST", "PUT", "BOUND"})) < MaxSessions

\* Bodies of POST and BOUND, and of PUT: what they say, or nothing at all.
NoBody == [signer |-> NoWallet, signed |-> 0, jwt |-> NoJwt, rt |-> 0]
SignedBodies ==
    {NoBody} \cup [signer : Wallets, signed : seen \cup {0}, jwt : {NoJwt}, rt : {0}]
PairBodies ==
    {NoBody} \cup [signer : {NoWallet}, signed : {0},
                   jwt : {minted[i].jwt : i \in delivered}, rt : delivered]

ArrivePost(r, w, body) ==
    /\ RoomForSession
    /\ Accept(r, [Idle EXCEPT !.pc = "before", !.kind = "POST", !.wallet = w,
                              !.signer = body.signer, !.signed = body.signed])

ArrivePut(r, w, body) ==
    /\ RoomForSession
    /\ Accept(r, [Idle EXCEPT !.pc = "before", !.kind = "PUT", !.wallet = w,
                              !.jwt = body.jwt, !.rt = body.rt])

\* A client that the security filters let in, so one with the JWT of some
\* session, binds `w` to its profile.
ArriveBound(r, w, body, client) ==
    /\ RoomForSession
    /\ Accept(r, [Idle EXCEPT !.pc = "signature", !.kind = "BOUND", !.wallet = w,
                              !.signer = body.signer, !.signed = body.signed,
                              !.client = client])

Arrive(r) ==
    \E w \in Wallets :
        \/ ArriveGet(r, w)
        \/ \E body \in SignedBodies :
              \/ ArrivePost(r, w, body)
              \/ \E client \in delivered : ArriveBound(r, w, body, client)
        \/ \E body \in PairBodies : ArrivePut(r, w, body)

-----------------------------------------------------------------------------
(* The gateway.                                                             *)

\* The request ends with an error response, or its response is lost.
Drop(r) == req' = [req EXCEPT ![r] = Idle]

\* Mutant: POST goes on without the signature check.
Internal_PostUnchecked(kind) == IF kind = "POST" THEN "claims" ELSE "nonce"

\* Which `internal` a kind of request has.
Internal(kind) == CASE kind = "GET" -> "nonce"
                    [] kind = "POST" -> "signature"
                    [] OTHER -> "refresh"

HasBody(rq) == rq.signer # NoWallet \/ rq.rt # 0

\* Without a body readBody is an empty Mono, and so is all that is mapped over
\* it.  POST and PUT end there, AFTER processors left out, with a 200 and no
\* content; what follows the check by then(...), in BOUND, runs all the same.
EmptyBody(r) ==
    /\ req[r].pc \in {"signature", "refresh"}
    /\ ~HasBody(req[r])
    /\ IF req[r].kind = "BOUND" THEN req' = [req EXCEPT ![r].pc = "bound"] ELSE Drop(r)
    /\ UNCHANGED <<now, nonceDB, rtDB, builder, issued, seen, minted, delivered>>

\* The BEFORE processors have all answered 2xx.
Before(r) ==
    /\ req[r].pc = "before"
    /\ req' = [req EXCEPT ![r].pc = Internal(req[r].kind)]
    /\ UNCHANGED <<now, nonceDB, rtDB, builder, issued, seen, minted, delivered>>

\* Mutant: the request keeps another nonce than the one it made.
NewNonceId_Skips == Len(issued) + 2
NewNonceId == Len(issued) + 1

\* getNewNonce: the nonce is made first (its validUntil, which the client is
\* told, is compared with nothing when it is redeemed) ...
NewNonce(r) ==
    /\ req[r].pc = "nonce"
    /\ issued' = Append(issued, req[r].wallet)
    /\ req' = [req EXCEPT ![r].pc = "saveNonce", ![r].nonce = NewNonceId]
    /\ UNCHANGED <<now, nonceDB, rtDB, builder, seen, minted, delivered>>

\* ... and saved afterwards, with a TTL that starts now.
SaveNonce(r) ==
    /\ req[r].pc = "saveNonce"
    /\ nonceDB' = [nonceDB EXCEPT ![req[r].wallet] =
                      [id |-> req[r].nonce, expires |-> now + NonceLifetime]]
    /\ req' = [req EXCEPT ![r].pc = "after"]
    /\ UNCHANGED <<now, rtDB, builder, issued, seen, minted, delivered>>

\* What GETDEL returns for the wallet: 0 once the TTL is over.
SavedNonce(w) == IF now < nonceDB[w].expires THEN nonceDB[w].id ELSE 0

\* Mutant: GET instead of GETDEL.
Taken_Kept(w) == nonceDB

\* GETDEL leaves nothing behind.
Taken(w) == [nonceDB EXCEPT ![w] = NoNonce]

\* Mutant: a signature counts whoever made it.
SignatureOk_AnySigner(n, signer, signed) == signed = n

\* The address recovered from the signature is the nonce's wallet only when
\* the wallet itself signed this very nonce.
SignatureOk(n, signer, signed) ==
    /\ signed = n
    /\ signer = issued[n]

\* GETDEL the nonce, then check the signature: a bad one costs the nonce.
Signature(r) ==
    /\ req[r].pc = "signature"
    /\ HasBody(req[r])
    /\ LET w == req[r].wallet
           n == SavedNonce(w)
       IN /\ nonceDB' = Taken(w)
          /\ IF n # 0 /\ SignatureOk(n, req[r].signer, req[r].signed)
             THEN req' = [req EXCEPT
                             ![r].pc = IF req[r].kind = "BOUND" THEN "bound" ELSE "claims",
                             ![r].nonce = n]
             ELSE Drop(r)
    /\ UNCHANGED <<now, rtDB, builder, issued, seen, minted, delivered>>

\* The profile service has recorded the second wallet.
Bound(r) ==
    /\ req[r].pc = "bound"
    /\ req' = [req EXCEPT ![r].pc = "claims"]
    /\ UNCHANGED <<now, nonceDB, rtDB, builder, issued, seen, minted, delivered>>

\* Mutant: the refresh token itself is not compared.
RtValid_HashOnly(w, rt, jwtHash) ==
    rtDB[w].rt # 0 /\ jwtHash = rtDB[w].jwtHash /\ now < rtDB[w].updatedAt + RtLifetime

\* checkIsValid: the record exists, was stored with this JWT, is not outdated
\* and holds this very token.
RtValid(w, rt, jwtHash) ==
    /\ rtDB[w].rt # 0
    /\ jwtHash = rtDB[w].jwtHash
    /\ now < rtDB[w].updatedAt + RtLifetime
    /\ rt = rtDB[w].rt

\* The JWT may be expired but must name the wallet; the record is only read.
PairAccepted(rq) ==
    rq.jwt.currentWallet = rq.wallet /\ RtValid(rq.wallet, rq.rt, JwtHash(rq.jwt))

\* Mutant: a refused pair leaves the chain without an answer.
Refresh_Silent(r) ==
    /\ req[r].pc = "refresh"
    /\ HasBody(req[r])
    /\ PairAccepted(req[r])
    /\ req' = [req EXCEPT ![r].pc = "claims"]
    /\ UNCHANGED <<now, nonceDB, rtDB, builder, issued, seen, minted, delivered>>

Refresh(r) ==
    /\ req[r].pc = "refresh"
    /\ HasBody(req[r])
    /\ IF PairAccepted(req[r])
       THEN req' = [req EXCEPT ![r].pc = "claims"]
       ELSE Drop(r)
    /\ UNCHANGED <<now, nonceDB, rtDB, builder, issued, seen, minted, delivered>>

\* The wallet list has arrived; this request's claims go into the one builder
\* every request shares ...
Claims(r) ==
    /\ req[r].pc = "claims"
    /\ builder' = req[r].wallet
    /\ req' = [req EXCEPT ![r].pc = "compact"]
    /\ UNCHANGED <<now, nonceDB, rtDB, issued, seen, minted, delivered>>

\* ... and compact() signs whatever the builder holds by then.
Compact(r) ==
    /\ req[r].pc = "compact"
    /\ req' = [req EXCEPT ![r].pc = "saveRt",
                          ![r].newJwt = [currentWallet |-> builder, stamp |-> now]]
    /\ UNCHANGED <<now, nonceDB, rtDB, builder, issued, seen, minted, delivered>>

ViaOf(rq) == CASE rq.kind = "PUT" -> [how |-> "rt", id |-> rq.rt]
               [] rq.nonce # 0 -> [how |-> "nonce", id |-> rq.nonce]
               [] OTHER -> [how |-> "none", id |-> 0]

\* SET the wallet's only record, without looking at the one it replaces.
SaveRt(r) ==
    /\ req[r].pc = "saveRt"
    /\ LET w == req[r].wallet
           jwt == req[r].newJwt
           new == Len(minted) + 1
       IN /\ minted' = Append(minted, [wallet |-> w, jwt |-> jwt, via |-> ViaOf(req[r]),
                                       signer |-> req[r].signer])
          /\ rtDB' = [rtDB EXCEPT ![w] = [rt |-> new, jwtHash |-> JwtHash(jwt),
                                          updatedAt |-> now]]
          /\ req' = [req EXCEPT ![r].pc = "after", ![r].out = new]
    /\ UNCHANGED <<now, nonceDB, builder, issued, seen, delivered>>

\* Mutant: BOUND answers with the profile service's status only.
Answer_BoundStatus(rq) == IF rq.kind \in {"GET", "BOUND"} THEN {} ELSE {rq.out}

\* The token pairs a response carries.
Answer(rq) == IF rq.kind = "GET" THEN {} ELSE {rq.out}

\* The AFTER processors have answered 2xx and the response is written.
After(r) ==
    /\ req[r].pc = "after"
    /\ seen' = IF req[r].kind = "GET" THEN seen \cup {req[r].nonce} ELSE seen
    /\ delivered' = delivered \cup Answer(req[r])
    /\ Drop(r)
    /\ UNCHANGED <<now, nonceDB, rtDB, builder, issued, minted>>

\* A processor, the profile service, the wallet list service or Redis fails,
\* or the client is gone when the answer is written: what the request has
\* already done stays done.
Fail(r) ==
    /\ Faulty
    /\ req[r].pc # "idle"
    /\ Drop(r)
    /\ UNCHANGED <<now, nonceDB, rtDB, builder, issued, seen, minted, delivered>>

Tick ==
    /\ now < MaxTime
    /\ now' = now + 1
    /\ UNCHANGED <<nonceDB, rtDB, builder, req, issued, seen, minted, delivered>>

Serve(r) ==
    \/ Before(r) \/ NewNonce(r) \/ SaveNonce(r) \/ EmptyBody(r) \/ Signature(r)
    \/ Bound(r) \/ Refresh(r) \/ Claims(r) \/ Compact(r) \/ SaveRt(r) \/ After(r)

Next == Tick \/ \E r \in Requests : Arrive(r) \/ Serve(r) \/ Fail(r)

Spec == Init /\ [][Next]_vars

\* Reactor never parks a request that has its answer: every request that can
\* take a step takes it.  Clients and the clock owe nothing.
FairSpec == Spec /\ \A r \in Requests : WF_vars(Serve(r))

-----------------------------------------------------------------------------
(* Properties.                                                              *)

StoreOK ==
    /\ now \in 0..MaxTime
    /\ nonceDB \in [Wallets -> [id : Nat, expires : Nat]]
    /\ rtDB \in [Wallets -> [rt : Nat, jwtHash : Int, updatedAt : Nat]]
    /\ \A w \in Wallets : nonceDB[w].id <= Len(issued) /\ rtDB[w].rt <= Len(minted)
    /\ builder \in Wallets \cup {NoWallet}

HistoryOK ==
    /\ issued \in Seq(Wallets)
    /\ minted \in Seq([wallet : Wallets, jwt : Jwt, via : Via,
                       signer : Wallets \cup {NoWallet}])
    /\ seen \subseteq 1..Len(issued)
    /\ delivered \subseteq 1..Len(minted)

RequestsOK ==
    /\ req \in [Requests -> Request]
    /\ \A r \in Requests :
          /\ req[r].nonce <= Len(issued)
          /\ req[r].out <= Len(minted)
          /\ req[r].pc # "idle" => req[r].wallet \in Wallets

\* Types, and no reference to a nonce or a session that was never made.
TypeOK == StoreOK /\ HistoryOK /\ RequestsOK

\* A nonce buys at most one session, whatever POST and BOUND requests race for
\* it and whatever is replayed: GETDEL hands it to one of them only.
NonceSingleUse ==
    \A i, j \in 1..Len(minted) :
        minted[i].via.how = "nonce" /\ minted[i].via = minted[j].via => i = j

\* A session for a wallet comes from a nonce made for that wallet and signed
\* by it, or from an earlier session of the same wallet: no path through
\* POST, PUT and BOUND moves a login from one wallet to another.  (The third
\* origin, a bodiless BOUND, needs no signature at all.)
SessionLineage ==
    \A i \in 1..Len(minted) :
        LET s == minted[i] IN
        CASE s.via.how = "nonce" -> /\ s.via.id \in 1..Len(issued)
                                    /\ issued[s.via.id] = s.wallet
                                    /\ s.signer = s.wallet
          [] s.via.how = "rt" -> s.via.id \in 1..(i - 1) /\ minted[s.via.id].wallet = s.wallet
          [] OTHER -> TRUE

\* A refresh token is retired when its wallet has stored a later session.
Retired(rt) ==
    \E i \in (rt + 1)..Len(minted) : minted[i].wallet = minted[rt].wallet

\* From the moment a wallet stores its next session its older refresh tokens
\* pass no check any more, in whatever order the requests that carry them
\* arrived (RefreshTokenDBComponent.checkIsValid against saveNew).
RetiredRtRefused ==
    [][\A r \in Requests :
          req[r].pc = "refresh" /\ req'[r].pc = "claims" => ~Retired(req[r].rt)]_vars

\* While nothing fails, the session a wallet has stored is one its client
\* holds or is about to be sent: an honest client is never locked out by the
\* requests it raced against itself.
StoredPairReachesClient ==
    \A w \in Wallets :
        rtDB[w].rt # 0 => \/ rtDB[w].rt \in delivered
                          \/ \E r \in Requests : req[r].pc = "after" /\ req[r].out = rtDB[w].rt

\* Every request is answered: each refusal on the way (no nonce, bad
\* signature, wrong wallet, stale token), and a body that never comes, ends the
\* chain instead of leaving the client waiting.
EveryRequestAnswered ==
    \A r \in Requests : req[r].pc # "idle" ~> req[r].pc = "idle"

\* The promise of the protocol (LoginLedger), under the mapping from the Redis
\* records and the requests between their check and their save.
PermitOf(rq) == IF rq.pc \in {"bound", "claims", "compact", "saveRt"} THEN rq.wallet ELSE NoWallet

NoVisit == [wallet |-> NoWallet, how |-> "none", session |-> 0]

\* What a request comes with, until it has stored its session.
VisitOf(rq) ==
    IF rq.kind = "GET" \/ rq.pc = "after" THEN NoVisit
    ELSE [wallet |-> rq.wallet,
          how |-> CASE rq.kind = "PUT" -> "show"
                    [] rq.kind = "BOUND" /\ ~HasBody(rq) -> "vouched"
                    [] OTHER -> "redeem",
          session |-> IF rq.kind = "PUT" THEN rq.rt ELSE rq.client]

OpenChallenges == [w \in Wallets |-> SavedNonce(w)]

\* Nonces that are no longer on their way to Redis for the first time.
PlacedNonces == (1..Len(issued)) \ {req[r].nonce : r \in {q \in Requests : req[q].pc = "saveNonce"}}
Visits == [r \in Requests |-> VisitOf(req[r])]
Permits == [r \in Requests |-> PermitOf(req[r])]
CurrentSessions == [w \in Wallets |-> rtDB[w].rt]

Ledger == INSTANCE LoginLedger WITH
    Holders <- Requests,
    challenge <- OpenChallenges,
    placed <- PlacedNonces,
    visit <- Visits,
    permit <- Permits,
    current <- CurrentSessions,
    last <- Len(minted)

\* Sessions change hands only as the ledger allows.
ImplementsLedger == Ledger!Spec
=============================================================================
