---------------------------- MODULE AccessPolicy ----------------------------
(***************************************************************************)
(* What the path configuration promises about a request, told from the     *)
(* configuration alone: the route that serves the request and the security *)
(* list decide, and no route that leaves it to another has a say.  Nothing *)
(* here knows of filters, of their order, or of the attributes they leave  *)
(* on the exchange for each other.                                         *)
(*                                                                         *)
(* config.routes    the routes in the order they are tried                 *)
(* config.security  the list of filter.config.path.security                *)
(***************************************************************************)
EXTENDS PathRules

CONSTANTS
    Configs,            \* configurations
    Inputs,             \* requests: method, path, token
    Clients,            \* owners of valid tokens
    AuthoritiesOf(_),   \* what a client holds
    ErrorPath           \* /error

VARIABLES config, rq, outcome

vars == <<config, rq, outcome>>

ServingRoutes == {i \in DOMAIN config.routes : Passes(config.routes[i], rq)}

Serving == CHOOSE i \in ServingRoutes : \A j \in ServingRoutes : i <= j

\* What the serving route asks for.  The gateway's own endpoints ask for nothing.
Asks == IF config.routes[Serving].own THEN NoAuthorities ELSE Asked(config.routes[Serving], rq)

Security == SecurityList(config.security)

\* The authorities of the route go before those of the security list, and those
\* of an entry of the list before its base authorities.
Demand ==
    IF HaveAuth(Asks) THEN Asks
    ELSE IF HaveAuth(Asked(Security, rq)) THEN Asked(Security, rq)
    ELSE Security.base

Secured ==
    /\ rq.method # "OPTIONS"
    /\ rq.path # ErrorPath
    /\ HaveAuth(Asks) \/ Passes(Security, rq)

Identified == rq.token \in Clients

Entitled == Secured => Identified /\ Holds(Demand, AuthoritiesOf(rq.token))

\* The endpoint that lists the authorities of its client.
NeedsClient == config.routes[Serving].own /\ config.routes[Serving].authorities

Init ==
    /\ config \in Configs
    /\ rq \in Inputs
    /\ outcome = "pending"

Forward ==
    /\ ServingRoutes # {}
    /\ Entitled
    /\ NeedsClient => Identified /\ (Secured \/ rq.path = ErrorPath)
    /\ outcome' = "forwarded"

Refuse ==
    /\ ServingRoutes # {}
    /\ \/ ~Entitled
       \/ NeedsClient /\ ~Secured
       \/ rq.path = ErrorPath /\ ~Identified
    /\ outcome' = "refused"

\* The identity server does not answer, or not with an account.
Break ==
    /\ ServingRoutes # {}
    /\ config.method = "IDENTITY_SERVER"
    /\ Secured \/ rq.path = ErrorPath
    /\ outcome' = "failed"

NotFound == ServingRoutes = {} /\ outcome' = "notFound"

Next ==
    /\ outcome = "pending"
    /\ Forward \/ Refuse \/ Break \/ NotFound
    /\ UNCHANGED <<config, rq>>

Spec == Init /\ [][Next]_vars
=============================================================================
