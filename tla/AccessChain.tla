---------------------------- MODULE AccessChain -----------------------------
(***************************************************************************)
(* How the gateway decides about a request: the routes are tried one after *)
(* the other (DynamicRouteLocator and the routes of the gateway itself),   *)
(* then the filters of the chosen route run in their order: JWT (10),      *)
(* security (20), and at the end the proxy or an endpoint of the gateway.  *)
(*                                                                         *)
(* They talk through attributes of the exchange.  Testing a predicate      *)
(* leaves the authorities it asks for on the exchange whether it passes or *)
(* not, and both security filters first look at what is already there:     *)
(* that is the state that AccessPolicy does not have.  This module follows *)
(* AccessPolicy except where such a leftover is taken for the demand of    *)
(* another: FollowsPolicy names the two cases as its premises.             *)
(* Exchanges share nothing, so the model follows one.                      *)
(*                                                                         *)
(* Not here: ATTRIBUTE_ALLOWED_HTTP_METHODS_SET and the security config    *)
(* attribute, which nobody reads; the validation filter (21), which is     *)
(* TokenValidation; headers that do not depend on the client.              *)
(***************************************************************************)
EXTENDS PathRules

CONSTANTS Configs, Inputs, Clients, AuthoritiesOf(_), ErrorPath,
          NoToken,     \* no Authorization header
          Malformed,   \* one with "Bearer" and no space after it
          NoClient,    \* no client attribute, or no client headers
          Sent         \* client headers as the caller sent them

ASSUME NoClientAssumption == NoClient \notin Clients /\ Sent \notin Clients \cup {NoClient}
ASSUME ConfigAssumption == Configs \subseteq Config
ASSUME TokenAssumption == {NoToken, Malformed} \cap Clients = {}

VARIABLES
    config,       \* the configuration, fixed
    rq,           \* the request as received, fixed
    pc,
    next,         \* the route to try
    authorities,  \* ATTRIBUTE_REQ_AUTHORITIES_FIELD
    client,       \* SECURITY_CLIENT_ATTRIBUTE
    header        \* the X-Client-... headers the upstream service gets

vars == <<config, rq, pc, next, authorities, client, header>>

Steps == {"route", "jwt", "userInfo", "apiUser", "security", "serve"}
Ends == {"forwarded", "refused", "failed", "notFound"}

Init ==
    /\ config \in Configs
    /\ rq \in Inputs
    /\ pc = "route"
    /\ next = 1
    /\ authorities = NoAuthorities
    /\ client = NoClient
    /\ header = Sent

-----------------------------------------------------------------------------

\* Mutant: the base authorities of the security list are forgotten.
Noted_NoBase(list, secured) ==
    IF HaveAuth(Asked(list, rq)) THEN Asked(list, rq) ELSE authorities

\* FilterMatchPredicate.setMatcherAttribute: what a test leaves behind.
Noted(list, secured) ==
    IF HaveAuth(Asked(list, rq)) THEN Asked(list, rq)
    ELSE IF secured /\ (Found(list.matches, rq) # 0 \/ ~list.contains) THEN list.base
    ELSE authorities

\* Mutant: the chosen route is skipped.
TryRoute_Past ==
    /\ pc = "route"
    /\ next \in DOMAIN config.routes
    /\ LET route == config.routes[next]
       IN /\ authorities' = IF route.own THEN authorities ELSE Noted(route, FALSE)
          /\ pc' = IF Passes(route, rq) THEN "jwt" ELSE pc
          /\ next' = next + 1
    /\ UNCHANGED <<config, rq, client, header>>

\* RoutePredicateHandlerMapping tries the next route.  The predicates of the
\* gateway's own endpoints only look at method and path.
TryRoute ==
    /\ pc = "route"
    /\ next \in DOMAIN config.routes
    /\ LET route == config.routes[next]
       IN /\ authorities' = IF route.own THEN authorities ELSE Noted(route, FALSE)
          /\ IF Passes(route, rq)
             THEN pc' = "jwt" /\ next' = next
             ELSE pc' = pc /\ next' = next + 1
    /\ UNCHANGED <<config, rq, client, header>>

NoRoute ==
    /\ pc = "route"
    /\ next \notin DOMAIN config.routes
    /\ pc' = "notFound"
    /\ UNCHANGED <<config, rq, next, authorities, client, header>>

-----------------------------------------------------------------------------

Security == SecurityList(config.security)

\* getIsSecurityRequest, the same in both filters: authorities on the exchange
\* settle it, otherwise the security predicate is tested.
IsSecurityRequest == HaveAuth(authorities) \/ Passes(Security, rq)

\* What getIsSecurityRequest leaves on the exchange.
Tested == IF HaveAuth(authorities) THEN authorities ELSE Noted(Security, TRUE)

\* JwtGatewayFilter.filter, which clears the client headers (clearExchange) of
\* every request that may need a client; EthJwtGatewayFilter.mutateExchange for ETH_JWT.
Jwt ==
    /\ pc = "jwt"
    /\ IF rq.method = "OPTIONS"
       THEN pc' = "security" /\ UNCHANGED <<authorities, client, header>>
       ELSE /\ authorities' = Tested
            /\ \/ /\ ~IsSecurityRequest
                  /\ pc' = "security"
                  /\ UNCHANGED <<client, header>>
               \/ /\ IsSecurityRequest
                  /\ rq.token = NoToken
                  /\ pc' = "security" /\ header' = NoClient
                  /\ UNCHANGED client
               \/ /\ IsSecurityRequest
                  /\ rq.token # NoToken
                  /\ config.method = "ETH_JWT" /\ rq.token \in Clients
                  /\ pc' = "security" /\ client' = rq.token /\ header' = rq.token
               \/ /\ IsSecurityRequest
                  /\ rq.token = Malformed \/ (config.method = "ETH_JWT" /\ rq.token \notin Clients)
                  /\ rq.token # NoToken
                  /\ pc' = "refused"
                  /\ UNCHANGED <<client, header>>
               \/ /\ IsSecurityRequest
                  /\ config.method = "IDENTITY_SERVER" /\ rq.token \notin {NoToken, Malformed}
                  /\ pc' = "userInfo" /\ header' = NoClient
                  /\ UNCHANGED client
    /\ UNCHANGED <<config, rq, next>>

\* /connect/userinfo knows the token's owner, refuses the token, or fails.
UserInfo ==
    /\ pc = "userInfo"
    /\ \/ rq.token \in Clients /\ pc' = "apiUser"
       \/ rq.token \notin Clients /\ pc' = "refused"
       \/ pc' = "failed"
    /\ UNCHANGED <<config, rq, next, authorities, client, header>>

\* Mutant: the client's headers are left cleared.
ApiUser_NoHeaders ==
    /\ pc = "apiUser"
    /\ \/ pc' = "security" /\ client' = rq.token
       \/ pc' = "failed" /\ UNCHANGED client
    /\ UNCHANGED <<config, rq, next, authorities, header>>

\* /api/user/{id}, asked with the gateway's own token, which may have expired.
ApiUser ==
    /\ pc = "apiUser"
    /\ \/ pc' = "security" /\ client' = rq.token /\ header' = rq.token
       \/ pc' = "failed" /\ UNCHANGED <<client, header>>
    /\ UNCHANGED <<config, rq, next, authorities>>

-----------------------------------------------------------------------------

\* Mutant: a client without the authorities is let through.
ProcessAuth_AnyClient(asked) == IF client = NoClient THEN "refused" ELSE "serve"

\* processAuth: 4012 without a client, 4014 without the authorities.
ProcessAuth(asked) ==
    IF client # NoClient /\ Holds(asked, AuthoritiesOf(client)) THEN "serve" ELSE "refused"

\* SecurityGatewayFilter.filter
SecurityFilter ==
    /\ pc = "security"
    /\ IF rq.method = "OPTIONS" \/ rq.path = ErrorPath
       THEN pc' = "serve" /\ UNCHANGED authorities
       ELSE /\ authorities' = Tested
            /\ pc' = IF IsSecurityRequest THEN ProcessAuth(Tested) ELSE "serve"
    /\ UNCHANGED <<config, rq, next, client, header>>

\* The proxied service is called, or the gateway's own endpoint answers; the
\* one that lists the client's authorities refuses (4017) without a client.
Serve ==
    /\ pc = "serve"
    /\ LET route == config.routes[next]
       IN pc' = IF route.own /\ route.authorities /\ client = NoClient
                THEN "refused" ELSE "forwarded"
    /\ UNCHANGED <<config, rq, next, authorities, client, header>>

Next == TryRoute \/ NoRoute \/ Jwt \/ UserInfo \/ ApiUser \/ SecurityFilter \/ Serve

Spec == Init /\ [][Next]_vars

-----------------------------------------------------------------------------
(* Properties.                                                              *)

TypeOK ==
    /\ pc \in Steps \cup Ends
    /\ next \in 1..(Len(config.routes) + 1)
    /\ pc \notin {"route", "notFound"} => next \in DOMAIN config.routes
    /\ authorities \in PathAuthorities
    /\ client \in Clients \cup {NoClient}
    /\ header \in Clients \cup {NoClient, Sent}

Policy == INSTANCE AccessPolicy WITH
    outcome <- IF pc \in Ends THEN pc ELSE "pending"

\* Two premises, both told from the configuration and the request, under which
\* nothing that a test leaves on the exchange is taken for something else.
\*
\* No route that leaves the request to a later one asks for authorities in an
\* entry that catches it: a MATCH_IF_NOT_CONTAINS_IN_LIST route can.
Unclaimed ==
    \A i \in DOMAIN config.routes :
        /\ \A j \in 1..i : ~Passes(config.routes[j], rq)
        /\ ~config.routes[i].own
        => ~HaveAuth(Asked(config.routes[i], rq))

\* No exception of a MATCH_IF_NOT_CONTAINS_IN_LIST security list that catches
\* the request asks for authorities, its own or the base authorities.
Unexempted == ~Security.contains => ~HaveAuth(Asked(Security, rq))

\* The filters do what the configuration says, under the two premises: a
\* request is forwarded only when its client holds what the serving route or
\* else the security list demands, and it is refused only for a reason that
\* the configuration gives.
FollowsPolicy ==
    Policy!Init /\ [][Unclaimed /\ Unexempted => Policy!Next]_(Policy!vars)

\* No path through the filters forwards a request that the configuration
\* secures without a client who holds what it demands, unless a route that
\* rejected the request had claimed it: what the test of the serving route or
\* of the security list left stands in for nothing else.
ForwardedIsEntitled == pc = "forwarded" /\ Unclaimed => Policy!Entitled

\* A service behind the gateway never gets client headers made by the caller
\* for a request the configuration secures: they name the owner of its token.
ForwardedIdentity == pc = "forwarded" /\ Policy!Secured => header = rq.token
=============================================================================
