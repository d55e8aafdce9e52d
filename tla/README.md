# A verification project for the Alcosi blockchain API gateway

The gateway is a Spring Cloud Gateway application in Kotlin
(`src/src/main/kotlin/com/alcosi/nft/apigateway`, below `.../`). It logs wallets
in, authenticates and validates requests, and forwards them to microservices.
This directory holds TLA+ models of its core, the TLC configurations that check
them, and TLAPS proofs of what matters most for every number of wallets and
requests.

    tlc -workers 2 -config WalletAuth_one.cfg MCWalletAuth     (a run of PROJECT.json)
    tlapm WalletAuthProofs.tla                                 (the proofs)

## 1. The system

The code runs on Reactor. A request is a chain of operators; between two that
wait (for Redis, for an HTTP service, for another thread) every other request may
run. There is no transaction anywhere, and two pieces of memory are shared by
all requests without one: the JWT builder and the map of used tokens. That is
where the hard behaviours come from.

| Component (`.../`) | State | Operations | Hard behaviour | Correct when | Module |
|---|---|---|---|---|---|
| Wallet login `service/gateway/filter/ethLogin`, `auth/service` | none of its own | GET (nonce), POST (sign in), PUT (renew), BOUND (second wallet) | interleaving of requests for one wallet; lost responses; failing processors | a session is earned, for the right wallet, once | `WalletAuth`, `LoginLedger` |
| Redis records `auth/service/db` | per wallet one nonce with TTL and one refresh token record | GETDEL, SET, GET | check and replace are apart; TTL and `validUntil` are two clocks | a nonce is used once, an old refresh token never | `WalletAuth` |
| JWT creation `auth/service/CreateJWTService.kt` | one `JwtBuilder` | createJWT | many threads, one builder, never cleared | a JWT carries its wallet's claims | `JwtBuilder` |
| Request validation `service/gateway/filter/security/validation` | `tokenMap` hash -> date, locks per hash | filter, check, isNotUnique, cleaner | data race on a LinkedHashMap (its table and its list), cleaner, two checks by one request | nothing unverified is forwarded, used tokens are refused | `TokenValidation` |
| Security filters `service/gateway/filter/security`, `.../eth`, `.../oath2/Oath2GatewayFilter.kt` | exchange attributes, headers | authenticate, authorise, set context headers | the order of the filters; attributes left behind | no guarded path without its authorities | `AccessChain`, `AccessPolicy` |
| Paths and routes `config/path`, `service/predicate`, `service/DynamicRouteLocator.kt` | configuration, attributes | match a route, find its authorities | predicates with side effects on the exchange | a request meets the authorities of its own path | `PathRules`, `AccessChain`, `AccessPolicy` |
| OAuth2 and Apple tokens `.../oath2`, `.../iosDeviceCheck/IOSDeviceCheckJWTComponent.kt` | cached tokens | get, scheduled refresh, double-checked renewal | refresh races with use, expiry while refreshing | a token in use is not expired; one renewal at a time | `TokenCaches`; user lookups: `AccessChain` |
| Request history `service/requestHistory` | rows in Postgres | saveRequest, saveAuth, saveRs | rows written beside the request in an order of their own; failing writes | rows refer to their request; the request does not wait for ever | `RequestHistory` |
| Partitions `service/requestHistory/partitions` | tables | create this month's and the next ones | gateways that create the same tables at once, in one schema or two; statements that break off | a row finds its partition | `HistoryPartitions` |
| Body filters `service/gateway/filter` | the parts of a form and their buffers, in the exchange | encrypt, decrypt, multipart to JSON, log | two readers of one form and of its buffers, nesting of arrays | what must be encrypted is, and nothing else | `BodyFilters` (partly) |
| Errors `service/error`, `service/exception` | none | code to status | | a failure is never a 2xx | `ApiDocs` (partly) |
| OpenAPI and Swagger `service/gateway/filter/openapi`, `GatewayOpenApiRoutesConfig` | files; a browser's page and cache | serve the page, its scripts and the document | lost connections, a document replaced while it is read, cached copies, paths configured apart | the page finds the document, and not an old one | `ApiDocs` |
| CORS, base path and wiring; database, Redis and Jackson configuration | none | wire beans, add headers, parse settings | | | not modelled: no state, no protocol |

How they interact. A request passes the filters in the order of their numbers:
request history (first, by default), JWT or OAuth2 (10), the history's client
(11), security (20), validation (21), context headers (30), bound wallets (39),
login (40). `ethLogin` calls `NonceComponent` and
`RefreshTokenService`, these call `auth/service/db` (Redis) and
`CreateJWTService`, which asks `service/multiWallet` (HTTP) for the wallet's
profile. Login processors (HTTP) run before and after each login step.
`ValidationGatewayFilter` asks `FilterValidationService`, which picks a
`RequestValidator`, whose component asks the `ValidationUniqueTokenChecker` and
then Google, Apple or Huawei.

## 2. What is modelled

### WalletAuth: the login protocol

One slot of `req` is one request being served; one action is the code between
two waits. State and actions, with the code they stand for:

| TLA+ | Code |
|---|---|
| `nonceDB[w]` | Redis `LOGIN_NONCE_<wallet>` with the end of its TTL (`NonceDBComponent`) |
| `rtDB[w]` | Redis `REFRESH_TOKEN_<wallet>` (`LoginRefreshToken`; it has no TTL) |
| `builder` | the wallet claim of `CreateJWTService.builder` |
| `req[r].pc` | the operator the request's chain has reached |
| `issued`, `minted`, `seen`, `delivered` | history: nonces made, sessions stored, and what of them reached a client |
| `Before` | `LoginAbstractGatewayFilter.filter`: the BEFORE processors have answered |
| `NewNonce`, `SaveNonce` | `NonceComponent.getNewNonce`; `NonceDBComponent.saveNew` |
| `Signature` | `NonceDBComponent.get` (GETDEL), then `CheckAuthSignatureService.check` |
| `EmptyBody` | `GatewayFilterResponseWriter.readBody` is empty, and so is what is mapped over it |
| `Bound` | `DefaultBoundWalletsService.bound` |
| `Refresh` | `RefreshTokenService.refresh`: the JWT's wallet and `checkIsValid` |
| `Claims`, `Compact` | `CreateJWTService.createJWT` around the profile lookup |
| `SaveRt` | `RefreshTokenDBComponent.saveNew` |
| `After` | the AFTER processors and the response |
| `Fail` | any of these fails, or the client is gone: what was done stays done |

A nonce is its number in `issued`; a signature is the pair of who signed and
what; a JWT is its wallet claim and the second it was made in, and `JwtHash` may
map different JWTs to one hash, as `String.hashCode` does. Clients present any
nonce and any token pair they were ever given, in any combination and as often
as they like. An expired JWT is accepted by `refresh`, so the JWT's own lifetime
is not modelled. `CheckAuthSignatureService.disable` (a switch that turns the
check off) is left at its default, off.

A body may be missing. POST and PUT then end with a 200 and no content, since
everything is mapped over the empty body, and the AFTER processors are left out.
BOUND goes on: what follows its check is chained with `then`.

`LoginLedger` is the abstract specification. A holder comes for one wallet
(`visit`) and says with what: it earns a permit for that wallet, in that way only, by
redeeming the wallet's open challenge, by showing its present session, or, if it
is logged in, by its own word; and it spends the permit on storing a session.
`WalletAuth` implements it (`ImplementsLedger`): a visit is a request until its
session is stored, a permit a request between its check and its save. The way is
fixed by the request (`VisitOf`): PUT shows, POST and a BOUND with a body redeem, and
only a BOUND without a body is taken at its word, as weak as the code is there
(section 3). A POST that went on without its check, or a BOUND that did so with a body,
would be no step of the ledger.

### JwtBuilder: one builder for every call

`CreateJWTService.createJWT` claim by claim. Claims are set on the thread on
which the profile lookup completes, so several calls may be between two claims.
A claim's value is the wallet whose call set it; the six claims that differ from
call to call are kept, in the code's order.

### TokenValidation: validators, used tokens and the cleaner

`Filter` is the path from `ValidationGatewayFilter.filter` to the first look at
`tokenMap`; `Read`, `Write` and `Decide` are the three lines of `isNotUnique`,
with the lock of the hash held from `Read` to `Decide` (`Locked`); Huawei tokens
go round twice. `Verify` is the verdict of Google, Apple or Huawei, any of which
may fail. `Scan` and `Remove` are the scheduled cleaner, which takes no lock.
`tokenMap` is a LinkedHashMap without synchronisation, hence two things: a table
(`tokenMap`), which `get` and `remove` search, and a linked list (`listed`), which alone
the cleaner walks. While another thread is in `put`, a read may miss an entry, a put
may lose entries, a removal may be undone (`PutUnderWay`, `MayVanish`). Once two
changes have overlapped (`torn`) the list can be any part of the table (`Relinked`),
for good, and may lead to nodes that the table has lost (`Stale`): an entry can be found
by `get` and never be cleared. A scan that meets an insertion throws
ConcurrentModificationException and changes nothing, so that a scan is owed only
while no put is under way (`Undisturbed`). The lock and the scheduler are library code
(`com.alcosi.lib`) and are modelled from how they are used here.

### PathRules, AccessPolicy, AccessChain: who may pass

`PathRules` is the path configuration as pure operators: which entry of a list
catches a request (`Found`: `HttpFilterMatcher` in the order of `sortedBy`),
whether the list's predicate passes (`Passes`), what it asks for, and whether a
client holds that (`Holds`, groups with a mode of groups with a mode). A path
pattern is the set of paths it covers; parsing patterns is not modelled.

`AccessChain` follows one exchange, since exchanges share nothing.

| TLA+ | Code |
|---|---|
| `authorities` | the attribute `ATTRIBUTE_REQ_AUTHORITIES_FIELD` |
| `client` | `SECURITY_CLIENT_ATTRIBUTE` |
| `header` | the `X-Client-...` headers: as the caller sent them, cleared, or the client's |
| `Noted` | `FilterMatchPredicate.setMatcherAttribute`: a side effect of testing a predicate |
| `TryRoute`, `NoRoute` | the routes of `DynamicRouteLocator` and of `LoginRoutesConfig`, in order |
| `Jwt`, `UserInfo`, `ApiUser` | `JwtGatewayFilter` with `EthJwtGatewayFilter` or `Oath2GatewayFilter` and its two lookups |
| `SecurityFilter`, `ProcessAuth` | `SecurityGatewayFilter` |
| `Serve` | the proxied service, or an endpoint of the gateway (`AuthoritiesGetGatewayFilter`) |

Both security filters ask "does this request need a client?" by looking at the
attribute first and testing the security predicate, which writes the attribute,
only when it is empty. So the answer may depend on routes that were tried in
vain and on which filter asked before. `AccessPolicy` is the abstract
specification, told from the configuration alone, without attributes or order of
filters: `Demand` is what the serving route asks for (`Asks`), or else the entry of the
security list, or else its base authorities; routes that reject the request have no
say, and an exception of the security list is open. An outcome is forwarded, refused,
failed or not found for stated reasons.

The code does not follow this policy everywhere, and the properties say where it does,
by premises about the configuration and the request:

* `Unclaimed`: no route that leaves the request to a later one asks for authorities in
  an entry that catches it. A `MATCH_IF_NOT_CONTAINS_IN_LIST` route can: it rejects the
  request because of the entry and leaves the entry's authorities on the exchange
  (`FilterMatchPredicate.kt:82-83`), where both security filters take them for the
  demand (`SecurityGatewayFilter.kt:96-99`). If they are weaker than what the security
  list asks for, a client without the latter is forwarded; if they are stronger, one that
  has it is refused.
* `Unexempted`: no exception of a `MATCH_IF_NOT_CONTAINS_IN_LIST` security list that
  catches the request has authorities, its own or the base ones. If it has, the JWT
  filter's test finds the request open and leaves the authorities behind, and
  the security filter refuses it with 4012, against `PredicateMatcherType.kt:23` and
  `docker-compose/dev/docker-compose.yml:95`.

`FollowsPolicy` (every step is the policy's) has both premises, `ForwardedIsEntitled`
(what is forwarded is entitled to it) only the first, `ForwardedIdentity` none. Without
either premise TLC finds the counterexamples described.

Seen in the code and not in the model: `ATTRIBUTE_ALLOWED_HTTP_METHODS_SET` is
written and read by nobody; `baseAuthoritiesCheckType`
(`SecurityRoutesProperties.kt:121-127`) is read by nobody, so that base
authorities are always checked as "ALL" of their groups.

### RequestHistory: rows beside the request

| TLA+ | Code |
|---|---|
| `req[r].info` | the attribute `ATTRIBUTES_REQUEST_HISTORY_INFO`, a future |
| `saves[i]` | one `saveRequest`: starting, inserting, saved, failed, broken (threw), dropped (cancelled before a thread took it) |
| `saves[i].asked`, `.row` | updates that wait for the row's id, and what is written |
| `RqFilter`, `RqSaved` | `RequestHistoryGatewayFilterRq.filter`; the request waits for `saveRequest` to return, not for the insert |
| `AuthFilter` | `RequestHistoryGatewayFilterSecurity` and `saveAuth` |
| `Proxy` | the response, recorded by `RequestHistoryResponseDecorator` when its body completes |
| `ErrorHandler`, `ErrorAnswer` | `RequestHistoryExceptionHandler` |
| `StartSave`, `Insert`, `Update`, `Forget` | the executor's threads and the statements |
| `Leave` | the client goes: the chain is cancelled, a save no thread has begun with it |

The place of the saving filter is configurable
(`spring.r2dbc.request-history-filter-order`), hence `RqOrders`. What the model
shows beyond its properties: a filter placed after 11 gives a request two rows,
because `saveAuth` does not put the save it starts into the attribute; a streamed
response (`writeAndFlushWith`) is never recorded; at the default place
`RouteDetails.securityConfig` is always null, since no security predicate has been
tested yet.

### TokenCaches: tokens the gateway keeps for itself

| TLA+ | Code |
|---|---|
| `token` | `Oath2AuthComponent.token`, with the time until which the server accepts it, which the code does not know |
| `task`, `RunTask`, `Issue`, `Answer`, `AskFailed` | the scheduled task and the request it makes; one run at a time (`VIRTUAL_WAIT`) |
| `CheckToken`, `TakeToken` | the two reads of `token` in `getAccessToken` |
| `jwt`, `permit` | `atomicJWT` and `jwtSemaphore` of `IOSDeviceCheckJWTComponent` |
| `GetJwt`, `Enter` | `getJWTString`; `getJWTSynchronized`, which looks again inside the semaphore |
| `Create`, `SetJwt`, `CreateFailed` | signing; storing; an exception, with the release in `finally` |

The answer's lifetime counts from before the request (`rqTime`), so that the
gateway gives a token up before the server does, however long the answer takes:
`TakenIsAccepted`. `timely` tells two worlds apart: in one the scheduler keeps
its second and the server its `MaxDelay`, and then nobody ever finds the token
expired (`AlwaysServed`); in the other anything may be late or fail, and the
token only comes back in the end (`RefreshGoesOn`). Assumed of
the scheduler (library code): a task that throws is run again. A token's lifetime
is the same each time.

### HistoryPartitions: a partition for every row

| TLA+ | Code |
|---|---|
| `Begin`, `Check`, `Create`, `CreateFailed`, `Commit` | the statement of `createPartitions`: `generate_series` of months, and for each `create_partition_by_interval` of migration V1_4 |
| `Exists` | the look into `pg_class`, by name, in all schemas |
| `run[r].made` | partitions of a transaction that has not committed |
| `Break` | the connection or the gateway fails, at the commit perhaps with only the answer lost |
| `promised` | history: what was logged as created |
| `Save`, `Insert` | a row of `RequestHistory`: its `rq_time`, and its arrival in the table |

Of Postgres it is assumed: read committed; `CREATE TABLE ... PARTITION OF` locks
the parent until the transaction's end; creating a table that exists is an error,
which undoes the whole statement; its clock is in the same month as the gateway's.
The table's rows are not composed with `RequestHistory`: a missing partition is
that module's failing `Insert`. The two properties have the code's own exception
in them: the look at `pg_class` compares names only, so a second schema in one
database gets no partitions for months that the first has (`Taken`). With
`partitions-init-month-delta` at 0 the rows of a new month fail until the next
run; only rows of a month that a run has dealt with are `sure`.

### ApiDocs: the documentation page

| TLA+ | Code |
|---|---|
| `Answer` | the routes `swagger` and `openApi` in the order of `GatewayOpenApiRoutesConfig` |
| `SwaggerFile`, `DocFile`, `Named` | `SwaggerApiGatewayFilter`, `OpenApiDocGatewayFilter` and their `FileGatewayFilter`, with the pattern for file names |
| `Failed` | `GlobalErrorAttributes`: the status of an exception |
| `Open`, `Load`, `OnLoad`, `FetchDoc`, ... | a browser with `index.html`, the scripts it links and `swagger-initializer.js` |
| `cache` | the browser's copy under `Cache-Control: max-age` |
| `Overwrite`, `Written` | an operator copies a new document over the old one |

A URI is a sequence of names, a name a sequence of what is between its dots, so
that prefixes and patterns are those of the code without characters. The settings
of `MCApiDocs` place the page below the documents (as by default), beside them,
without a base path, and with a JSON document.

### BodyFilters: what is encrypted

`EncryptPath` is the recursion of `EncryptResponseDecorator.encryptPath` through
objects and nested arrays; `Look` and `Put` are the two halves of
`encodeMultiPart` on the exchange's one map of parts; `ToJson` is
`MultipartToJsonRequestDecorator` and `ToLog` what `LoggingFilter` gets. A route with
`convertMultipartToJson` off passes the form on as it came (`PassForm`), and only
the log reads its parts. `Open` and `Close` are a reader in the buffer of a part, whose
read position both readers move and which both release: what a reader gets of a buffer
that the other has touched (`touched`) may be cut off, and it may fail. Texts are
atoms, so that a property can say which of the client's texts arrive sealed and
which in plain. What ought to be sealed is told from `encryptFields` alone
(`ToBeSealed`: whatever is in a configured field), and `BodiesAreSealed` names the two
gaps that the code has against it: values that are arrays or objects (`Composite`) and
forms that are not converted. The log stands behind the encryption (its order is the highest
plus one, `GatewayFiltersConfig.kt:83-91`), so it sees the request's fields
encrypted, and the response's before they are decrypted.

## 3. What the runs check

| Run | Expect | Shows |
|---|---|---|
| `login_one_wallet` | pass | `TypeOK`, `NonceSingleUse`, `RetiredRtRefused`, `ImplementsLedger`, `EveryRequestAnswered` |
| `login_two_wallets` | pass | `SessionLineage`, `StoredPairReachesClient` (no failures) |
| `jwt_claims` | pass | `TypeOK`, `ClaimsFromOverlappingCalls`, `SetClaimsAreRecent` |
| `jwt_names` | violation | `JwtNamesItsWallet`: overlapping calls sign each other's claims |
| `validation` | pass | `TypeOK`, `VerifiedBeforeForward`, `RefusedOnlyAfterExpiry`, `OverdueEventuallyCleared`, `EveryRequestDecided` |
| `validation_replay` | violation | `ReplayRefused`: an unexpired registration means "go on", not "refuse" |
| `access` | pass | `TypeOK`, `ForwardedIsEntitled`, `ForwardedIdentity`, `FollowsPolicy` |
| `history` | pass | `TypeOK`, `SavesPerRequest`, `RowsTellTheTruth`, `RowBeforeUpdate`, `NeverRewritten`, `EveryRequestEnds`, `UpdatesEnd` |
| `token_caches` | pass | `TypeOK`, `TakenIsAccepted`, `AlwaysServed`, `OneRenewalPerLifetime`, `RefreshGoesOn`, `EveryCallerServed` |
| `partitions` | pass | `TypeOK`, `RowsAreKept`, `MonthIsServed` |
| `api_docs` | pass | `TypeOK`, `AsksWhereItIs`, `ShownIsRecent`, `PageRecovers` |
| `bodies` | pass | `BodiesAreSealed` |

Each violation is a disagreement between the code and a sentence of its own
documentation; PROJECT.json quotes both.

What the code does otherwise than it says, without a run (paths below
`src/src/main/kotlin/com/alcosi/nft/apigateway` unless they say more):

* Login: two concurrent renewals may both pass with one refresh token
  (`RefreshTokenDBComponent.kt:74`), against `NotValidRTException.kt:29`; that is
  why `RetiredRtRefused` is about tokens already replaced when the check begins.
  BOUND without a body skips the signature
  (`AuthBoundWalletsPutGatewayFilter.kt:124`, against line 38). Nothing compares a nonce's
  `validUntil`; its lifetime is the TTL in Redis, which starts when the SET arrives.
  The repository's README documents error codes 401110 and 401120 for tokens of
  the wrong wallet or type, while `WrongWalletException` has 40110 and
  `WrongTokenTypeException` is never thrown.
* Validation: always-passed refuses (`FilterValidationService.kt:46`, against line
  29). An entry that concurrent changes have put off the list of `tokenMap` is never
  cleared, though lines 55-58 of `ValidationUniqueTokenChecker.kt` promise to clear
  expired tokens; `OverdueEventuallyCleared` is about what is on the list. The cleaner removes by key what it found expired earlier, so a
  registration renewed in between goes too (`ValidationUniqueTokenChecker.kt:57`
  says it clears the expired ones). `IOSDeviceCheckRequestValidationComponent.kt:91`
  makes headers and discards them.
* Security: the authorities of a rejected route are taken for the demand of a request,
  and the exceptions of a `MATCH_IF_NOT_CONTAINS_IN_LIST` security list are refused with
  4012 if it has base authorities (`Unclaimed`, `Unexempted` in section 2).
* Documentation page: a missing file is never a 404, since `write404`
  (`FileGatewayFilter.kt:42-46`) is unreachable: it is a 500, as are a bad name and the
  page's own directory. `swaggerFilePath` is read by nobody, and the files' streams
  are never closed. A document read while it is written over may be cached for a
  day.
* Bodies: names of parts are compared whatever their case, JSON paths are not.
  A configured field whose value is an array of plain values or an object goes on in
  plain, to the microservice and to the log (`EncryptGatewayFilter.kt:362` and `371`,
  against `ProxyRouteConfigDTO.kt:38`). Nested paths are not applied to JSON inside a form. An encrypted number comes
  back as text. With `convertMultipartToJson` off, a form is passed on in plain
  (`EncryptGatewayFilter.kt:310`), as are bodies of other types. The log and the conversion
  read the same buffers (`MultipartToJsonGatewayFilter.kt:144-151`), and each may find
  them read or released by the other. Several numeric
  texts of one name become a JSON array.

Bounds. Two request slots are enough for every race here, since each of them is
between two requests, or one request and the cleaner, over one record; more than two
matter only as history, which `MaxNonces` = 2 and `MaxSessions` = 3 allow (a
session, the one that replaces it, and a replay). `MaxTime` = 2 with lifetimes of
one tick lets a nonce or a token expire and its wallet start again. Two wallets
are enough for one to be taken for the other. `JwtBuilder` needs two calls that
overlap and a third wallet for what an earlier call left behind. In
`TokenValidation` two requests with two tokens (sent twice or once each; the super
user token shares a hash with one of them), and registrations of one and two ticks give
every order of read, write, scan and removal, and every way in which table and list can
part. `Access.cfg` enumerates every configuration of up to three
routes (contains or not, entries that overlap, with and without authorities, and
the gateway's own endpoints) and a security list of up to two entries, with every
request to it; three routes are what it takes for one tried in vain to
shadow another. `History.cfg` follows one request, with every failure and every order
of its threads and statements, for a saving filter before the client's filter,
between it and the security filter, and after both: requests share only the
table, where no two touch one row, and the proofs hold for any number of them.
`TokenCaches.cfg` has one lookup (lookups do not affect each other or the task),
two checks that find the JWT expired at once, one failure, and six ticks, in which
a token of four expires unless it is renewed. `Partitions.cfg` has two gateways,
sharing a schema or not, two failures, and two months with a horizon of one, so
that a statement finds some of its partitions made, in the making, and missing.
`ApiDocs.cfg` has two documents, a lost connection, and five ticks with copies that
are kept for two, enough for a copy of a torn document to be kept, to grow old, and to
be asked for anew. `Bodies.cfg` takes all JSON trees of two names and four
levels up to some width, with up to two paths in either order, and forms of
one or two names that may differ in case only, each of one or two parts.
Idle states with all bounds used up and requests that are answered are the only
deadlocks, hence CHECK_DEADLOCK FALSE in the runs of `WalletAuth`,
`TokenValidation`, `AccessChain`, `RequestHistory` and the four modules after
it. Symmetry
(wallets and slots) is used only for safety.

Fairness. `WalletAuth`: every request that can take a step takes it (Reactor
schedules every ready operator); nothing is assumed of clients or the clock.
`TokenValidation`: the same for requests; the scheduler runs the cleaner again
and again, but a scan gets through for sure only while no put is under way. No strong fairness: a lock is handed on in a `finally`, and a weakly
fair request finds it free because its holders always return. `RequestHistory`:
requests and the executor's threads go on, and nothing is assumed of the database;
`UpdatesEnd` alone adds, as its premise, that the database answers. `TokenCaches`:
the task is run again and again and its request ends (the HTTP client has a
timeout), and a request inside the semaphore goes on; for one that waits at it
weak fairness is enough, since whoever else gets in leaves a JWT that is valid for
a while or fails, and time and failures are bounded here: that an unfair semaphore
lets others in first for ever is not excluded by the code, and not shown.
`HistoryPartitions`: the scheduler runs the task again and the database goes on
with a statement. `ApiDocs`: a browser loads what is open, and `PageRecovers` has
as its premise a user who tries again. `AccessChain` has no liveness property: it
has no loop and waits for nothing but the two lookups, which have timeouts.

## 4. What is proved

`WalletAuthProofs`, for any set of wallets, any number of concurrent requests, any
lifetimes and bounds, any `JwtHash` into the integers, with failures:

* `TypeCorrect`: `Spec => []TypeOK`.
* `LineageCorrect`: `Spec => []SessionLineage`.
* `RetiredRefused`: `Spec => RetiredRtRefused`.
* `SingleUseCorrect`: `Spec => []NonceSingleUse`.
* `LedgerImplemented`: `Spec => ImplementsLedger`, the refinement of `LoginLedger`.
* `PairReaches`: `Spec => []StoredPairReachesClient` if `~Faulty`.
* `WalletsStayApart`: `Spec => []Apart`, also of the ledger by itself.
* `RequestsGoOnward`: `Spec => Onward`, a request is over after seven steps.

None of the properties is inductive. `TypeInv` adds to `TypeOK` what a request
holds at each step (a request that saves a nonce has one, only PUT reaches
`Refresh`, and so on). `Ownership` follows the wallet of a nonce from `issued`
into Redis, into the request that redeems it and into the session
(`NonceOwner`, `RtOwner`), and says that a wallet's record is its newest session
(`NewestStored`): this is why a token that passes the check is not retired.
`OnePlace` says that a nonce is carried by one request, or in Redis for one
wallet, or spent, and never two of these at a time: this is what GETDEL buys.

The refinement maps what is in Redis to challenges and current sessions
(`OpenChallenges`, `CurrentSessions`), the nonces no request has still to save to
those placed (`PlacedNonces`), a request to its visit (`Visits`), and its program
counter to its permit (`Permits`). Each action is a step of the ledger or a stutter (`LedgerNext`, one
lemma per action: `SignatureLedger` redeems, `RefreshLedger` shows, `SaveRtLedger`
stores). It needs the invariants: `OnePlace`, since a nonce that is saved must never
have been a challenge before; `Ownership`, since a token that passes the check is the
wallet's current session, and one that a client has was stored, so that it can come.

`PairReaches` has a hypothesis because the code needs it: with a failure
between the SET of a record and the answer (`Fail`), the record is replaced and
nobody holds the new token, and the wallet must sign in again. Without failures
`HeldByClient` is inductive: a stored session has reached a client, or is in the
answer that a request is about to give. The run has `Faulty = FALSE` likewise.

`WalletsStayApart` says that no two wallets have the same open nonce or the same current
session (`Apart`). It is proved where it is easy, on `LoginLedger`, with the invariant
`Accounted`: a nonce that is open was placed, a session that is current was counted.
The protocol inherits it through `LedgerImplemented`, without a look at its actions.

`JwtBuilderProofs`, for any number of wallets and calls: `TypeCorrect`,
`ClaimsCorrect`, `RecentCorrect`. The invariant adds that calls under way know
each other (`ActiveOverlap`), so that what any of them writes is, for every
other one, a claim of an overlapping call.

`AccessChainProofs`, for every configuration, request and set of clients:
`TypeCorrect`, `EntitledCorrect`, `IdentityCorrect` and `FiltersFollowPolicy` (the
refinement of `AccessPolicy`). After routes 1..k were tried, the attribute holds the authorities
of the last of them that asks for some (`RouteNote`); the security predicate
writes only when there are none, and a second test writes what the first did
(`SecurityNote`). That says, leftovers included, what `SecurityFilter` compares with the
client (`Compared`, operators of the proof module), whatever the policy says. The premises
come in last: under `Unclaimed` the authorities left by the routes are what the serving
route asks for (`ServedAsks`), so that what is compared is what `AccessPolicy`
demands, and under `Unexempted`, too, the security filter guards nothing that the policy
leaves open (`PlainTerms`). What the policy secures is guarded with or without them
(`SecuredIsScreened`), and the JWT filter cleared the headers of whatever the security
filter will guard: hence `IdentityCorrect` needs no premise. `FoundIsFirst` says what all of this takes for granted of
a list of entries of any length: the entry found catches the request and stands
before every other that does, by `order` and then by place, and none is found only
if none catches it. Induction over the list is out of reach; instead, among the
entries that catch, one with the fewest before it exists (`WFMin`), and it has none
before it, since a predecessor would have fewer (`FirstOfOrder`).

`VerdictIsFixed` is about the filters as they are, leftovers included: `Verdict` is the
one outcome that a configuration and a request can have, and an exchange that has
ended has it, unless the identity server failed (with `ETH_JWT` nothing can turn out
otherwise). It rests on the invariant before it, together with what is known of the
client at each filter (`Judging`). `MoreAuthorities`: a client that holds more is
refused no more, in any mode and with any groups.

`RequestHistoryProofs`, for any number of requests and any place of the filter:
`TypeCorrect`, `SavesCorrect`, `RowsCorrect`, `UpdatesCorrect`, `RewriteCorrect`.
`InfoInv` says where the attribute is set, given the filters' order
(`FilterOrder`); `CountInv`, how many saves a request has while somebody may still
start one; `RowsInv`, that of each value of a row at most one is asked for or
written, none before the request got that far. `NeverRewritten` follows because an
update that waits has an empty column to write. `RequestsGoOnward`: at every place
of the filter a request is over nine steps after it came in. `WaitsAreServed`: a save
is dropped only when the request it belongs to is gone (`Dropped`), so that
nobody waits for a save that no thread will make.

`TokenValidationProofs`, for any tokens, hash function, types and number of
requests: `TypeCorrect`, `VerifiedCorrect`, `RefusedCorrect`. `Good` says how many
checks a request has behind it at each step; `MapInv` and `ReadInv`, that a date in the
map or read from it was registered: races may lose entries, or keep them off the list, but nothing invents a date.
`HashesAreExclusive` says that of the requests with one hash at most one has read and
not yet returned, and `ReadNotStale` that what it read is still what the map has when it
replaces it: the semaphores serialise by hash, although the map itself is not safe.
`RequestsGoOnward`: nine steps at most, both checks of Huawei included.

`TokenCachesProofs`, for any number of requests and every lifetime and delay:
`TypeCorrect`, `TakenCorrect`, `ServedCorrect`, `RenewalCorrect`. `TaskInv` says that
the gateway's reckoning is never longer than the server's and that tokens only get
better, so that the second read of `token` is no worse than the first
(`LookupInv`). `TimelyInv` follows how much of a lifetime is left at each step of
the task: half of it when the task asks, less the delay while it waits.
`RenewalInv` says that one request holds the semaphore, and that meanwhile the JWT
it found expired stays. `MarginKept` makes a number of `TimelyInv`: a token that the
gateway has is good for half its lifetime, less the delay of an answer and the tick
by which the task may be late. `PermitNeverLost`: a semaphore that is taken has
one holder, whatever fails while it is held.

`HistoryPartitionsProofs`, for any gateways, schemas, horizon and length of a month:
`TypeCorrect` and `RowsKept`. A statement has created or seen a table for each
month behind it (`RunInv`); as tables are never dropped, this becomes a promise at
its commit (`PromiseInv`) and holds for the rows that rely on it (`RowInv`).
Postgres's lock on the parent table is taken in the middle of a statement and kept to
its end. `LockInv` says what this buys: a table that a statement has made is not there
for others, and no other has made it too (`PartitionsMadeOnce`). A statement that holds
the lock needs no other, so that whoever waits, a row's insert too, waits for a statement
that can go on (`NoDeadlock`), and each is over after two steps a month and a commit (`StatementsEnd`).

`ApiDocsProofs`, for all settings and ages: `TypeCorrect`, `ShownRecent` and
`AsksCorrect`. A content's last time on the disk only grows (`LaterOnDisk`), and the
gateway sends only what is there now (`AnswerIs`), so that the bound on a copy
(`CacheInv`) carries over to the page. A page that ran its initializer has the URL
written there (`PageInv`), whatever was lost. Whether the gateway serves the document
there depends on settings that nothing compares, so that `AsksCorrect` is about those
that fit together (`FitTogether`: the document right below its route, with a
name of the pattern, and not below the page, whose route is tried first); the
default settings do, and TLC checks that all settings of the run do. Then neither
the base path nor the depth or names of the paths matter (`BaseOnBoth`). `DefaultsAsk`
is the case of an operator who sets no path but the base: the values in
`OpenApiProperties` fit together.

Several of these theorems are about formulas that no run lists: `Onward`,
`VerdictReached`, `MadeOnce`, `NobodyIsStuck`, `NobodyWaitsInVain`, `Margin`,
`PermitIsHeld`, `OneInside`, `ReadIsCurrent`, `Apart`. They stand in the proof modules,
beside the invariants they follow from, and TLC found no state of the runs'
instances that violates them.

The `Onward` formulas are the part of termination that is safety. Each says that a
step of a request, or of a statement, makes a natural number smaller
(`Left`), and that the others' steps leave it alone. Where the next step cannot be withheld for
ever, which is what the fairness of the specification and `NoDeadlock`, `PermitNeverLost` and
`WaitsAreServed` are about, the request ends. This last inference, and with it
`EveryRequestAnswered`, `EveryRequestDecided`, `EveryRequestEnds`,
`EveryCallerServed` and `MonthIsServed` as they are stated, stays with TLC.

The assumptions are the named ASSUMEs of the modules: `NoWallet` is no wallet,
lifetimes are positive, bounds are natural numbers, hashes are integers,
configurations and settings are well-typed, tokens that are no token have no owner, and the
history filter shares no place with another filter, and half of a token's lifetime
is longer than the identity server's delay.

Only model-checked: liveness (`EveryRequestAnswered`, `OverdueEventuallyCleared`,
`EveryRequestDecided`, `EveryRequestEnds`, `UpdatesEnd`, `RefreshGoesOn`,
`EveryCallerServed`, `PageRecovers`, `MonthIsServed`), which is out of TLAPS's reach
here, and `BodiesAreSealed`, since what `BodyFilters`' recursive operators do to a
tree of any depth would take induction over data.

## 5. Not modelled

* Database, Redis and Jackson configuration, CORS, the base path and the wiring
  of filters: settings and headers, without a state or a protocol.
* Decryption of responses and encryption itself: a library does them in one step
  (`com.alcosi.lib`). Of headers only what `AccessChain` says of them.
* Messages and codes of exceptions, other than the status where it matters
  (`ApiDocs`).
* Libraries: Reactor, Spring Cloud Gateway, the scheduler, Redis and Postgres are
  modelled as far as the code relies on them; Swagger UI's scripts, which the
  repository ships, are either there or not.
* Proxied routes are assumed not to cover the documentation's paths.

What is left to do: a composition of `WalletAuth` behind `AccessChain`, so that
BOUND's client is the one the JWT filter found.
