------------------------- MODULE AccessChainProofs --------------------------
(***************************************************************************)
(* Proofs about AccessChain, for every configuration and request.          *)
(*                                                                         *)
(* The argument: after routes 1..k were tried, the exchange carries the    *)
(* authorities of the last of them that asks for some (RouteNote).  The    *)
(* security predicate writes only when there are none, and a second test   *)
(* of it writes what the first did (SecurityNote).  That fixes what        *)
(* SecurityFilter compares with the client (Compared).  It is what         *)
(* AccessPolicy demands when no route that rejected the request left       *)
(* authorities behind (PlainTerms), and with that premise a forwarded      *)
(* request is entitled and the filters follow the policy.                  *)
(*                                                                         *)
(* Without the premises the outcome is still a function of the             *)
(* configuration and the request (Judging, Verdict), leftovers included.   *)
(*                                                                         *)
(* What is found in a list of entries is settled apart (FoundIsFirst): a   *)
(* finite set with a total order has a first element, because one with the *)
(* fewest elements before it has none.                                     *)
(***************************************************************************)
EXTENDS AccessChain, FiniteSetTheorems, TLAPS

Noting(i) == ~config.routes[i].own /\ HaveAuth(Asked(config.routes[i], rq))

NotingUpTo(k) == {i \in 1..k : Noting(i)}

RouteNote(k) ==
    \/ NotingUpTo(k) = {} /\ authorities = NoAuthorities
    \/ \E m \in NotingUpTo(k) :
          (\A j \in NotingUpTo(k) : j <= m) /\ authorities = Asked(config.routes[m], rq)

-----------------------------------------------------------------------------
(* What the filters go by: the authorities that are on the exchange, not    *)
(* those of the serving route.                                              *)

Binding == {i \in 1..Policy!Serving : Noting(i)}

Compared ==
    IF Binding # {}
    THEN Asked(config.routes[CHOOSE i \in Binding : \A j \in Binding : j <= i], rq)
    ELSE IF HaveAuth(Asked(Security, rq)) THEN Asked(Security, rq) ELSE Security.base

Screened ==
    /\ rq.method # "OPTIONS"
    /\ rq.path # ErrorPath
    /\ Binding # {} \/ Passes(Security, rq)

Admitted == Screened => Policy!Identified /\ Holds(Compared, AuthoritiesOf(rq.token))

\* An exception of the security list that asks for authorities is refused.
Excepted ==
    /\ Binding = {}
    /\ ~Security.contains
    /\ ~Passes(Security, rq)
    /\ HaveAuth(Compared)

\* What a first test of the security predicate leaves.
SecurityNote ==
    IF HaveAuth(Asked(Security, rq)) THEN Asked(Security, rq)
    ELSE IF Found(Security.matches, rq) # 0 \/ ~Security.contains THEN Security.base
    ELSE NoAuthorities

Note ==
    \/ RouteNote(next)
    \/ NotingUpTo(next) = {} /\ authorities = SecurityNote

\* The filters treat the request as one that needs a client.
Guarded == NotingUpTo(next) # {} \/ Passes(Security, rq)

Routing ==
    /\ config \in Config
    /\ next \in Nat /\ next >= 1 /\ next <= Len(config.routes) + 1
    /\ \A j \in 1..(next - 1) : ~Passes(config.routes[j], rq)
    /\ pc = "route" => RouteNote(next - 1) /\ client = NoClient
    /\ pc = "jwt" => RouteNote(next) /\ client = NoClient
    /\ pc \notin {"route", "notFound"} =>
          next \in 1..Len(config.routes) /\ Passes(config.routes[next], rq)
    /\ pc = "notFound" => next = Len(config.routes) + 1

Filtering ==
    /\ client # NoClient => rq.token \in Clients /\ client = rq.token /\ header = rq.token
    /\ pc \in {"userInfo", "apiUser"} =>
          /\ config.method = "IDENTITY_SERVER"
          /\ rq.method # "OPTIONS" /\ Guarded /\ Note /\ client = NoClient
          /\ pc = "apiUser" => rq.token \in Clients
    /\ pc = "security" =>
          /\ Note
          /\ client # NoClient => rq.method # "OPTIONS" /\ Guarded
          /\ rq.method # "OPTIONS" /\ Guarded /\ client = NoClient => rq.token = NoToken

Deciding ==
    pc \in {"serve", "forwarded"} =>
        /\ Admitted
        /\ Screened => client # NoClient
        /\ client # NoClient => rq.method # "OPTIONS" /\ Guarded

IInv == Routing /\ Filtering /\ Deciding

-----------------------------------------------------------------------------
(* The policy's words in terms of the chain's.                              *)

LEMMA SameRules ==
    /\ \A l : Policy!Passes(l, rq) = Passes(l, rq)
    /\ \A l : Policy!Asked(l, rq) = Asked(l, rq)
    /\ \A pa : Policy!HaveAuth(pa) = HaveAuth(pa)
    /\ \A pa, h : Policy!Holds(pa, h) = Holds(pa, h)
    /\ Policy!Security = Security
<1>1. \A pa : Policy!HaveAuth(pa) = HaveAuth(pa)
  BY DEF Policy!HaveAuth, HaveAuth
<1>2. \A l : Policy!Found(l, rq) = Found(l, rq)
  BY DEF Policy!Found, Found, Policy!Catches, Catches
<1>3. \A l : Policy!Passes(l, rq) = Passes(l, rq)
  BY <1>2 DEF Policy!Passes, Passes
<1>4. Policy!NoAuthorities = NoAuthorities
  BY DEF Policy!NoAuthorities, NoAuthorities
<1>5. \A l : Policy!Asked(l, rq) = Asked(l, rq)
  BY <1>2, <1>4 DEF Policy!Asked, Asked
<1>6. \A g, h : Policy!GroupHeld(g, h) = GroupHeld(g, h)
  BY DEF Policy!GroupHeld, GroupHeld
<1>7. \A pa, h : Policy!Holds(pa, h) = Holds(pa, h)
  BY <1>1, <1>6 DEF Policy!Holds, Holds
<1>8. \A raw : Policy!SecurityList(raw) = SecurityList(raw)
  BY <1>1 DEF Policy!SecurityList, SecurityList
<1>9. Policy!Security = Security
  BY <1>8 DEF Policy!Security, Security
<1>. QED BY <1>1, <1>3, <1>5, <1>7, <1>9

LEMMA NoAuth == ~HaveAuth(NoAuthorities)
  BY DEF HaveAuth, NoAuthorities

\* A set of numbers has one largest element, and one smallest.
LEMMA OneExtreme ==
  ASSUME NEW S \in SUBSET Nat, NEW m \in S
  PROVE  /\ (\A j \in S : j <= m) => m = CHOOSE i \in S : \A j \in S : j <= i
         /\ (\A j \in S : m <= j) => m = CHOOSE i \in S : \A j \in S : i <= j
<1>1. \A i \in S : (\A j \in S : j <= i) /\ (\A j \in S : j <= m) => i = m
  OBVIOUS
<1>2. \A i \in S : (\A j \in S : i <= j) /\ (\A j \in S : m <= j) => i = m
  OBVIOUS
<1>. QED BY <1>1, <1>2

Chosen == pc \notin {"route", "notFound"}

LEMMA PolicyTerms ==
  ASSUME Routing, Chosen
  PROVE  /\ Policy!ServingRoutes # {}
         /\ Policy!Serving = next
         /\ Binding = NotingUpTo(next)
         /\ Screened <=> rq.method # "OPTIONS" /\ rq.path # ErrorPath /\ Guarded
<1>1. DOMAIN config.routes = 1..Len(config.routes) /\ Len(config.routes) \in Nat
  BY DEF Routing, Config
<1>2. next \in Policy!ServingRoutes
  BY <1>1, SameRules DEF Routing, Chosen, Policy!ServingRoutes
<1>3. \A j \in Policy!ServingRoutes : next <= j
  BY <1>1, SameRules DEF Routing, Policy!ServingRoutes
<1>4. Policy!ServingRoutes \in SUBSET Nat
  BY <1>1 DEF Policy!ServingRoutes
<1>5. Policy!Serving = next
  BY <1>2, <1>3, <1>4, OneExtreme DEF Policy!Serving
<1>6. Binding = NotingUpTo(next)
  BY <1>5 DEF Binding, NotingUpTo
<1>. QED BY <1>2, <1>5, <1>6 DEF Screened, Guarded

LEMMA DemandTerms ==
  ASSUME Routing, Chosen
  PROVE  /\ RouteNote(next) /\ NotingUpTo(next) # {} =>
               authorities = Compared /\ HaveAuth(authorities)
         /\ NotingUpTo(next) = {} =>
               Compared = IF HaveAuth(Asked(Security, rq)) THEN Asked(Security, rq)
                               ELSE Security.base
<1>1. Binding = NotingUpTo(next)
  BY PolicyTerms
<1>2. ASSUME RouteNote(next), NotingUpTo(next) # {}
      PROVE  authorities = Compared /\ HaveAuth(authorities)
  <2>1. PICK m \in NotingUpTo(next) :
           (\A j \in NotingUpTo(next) : j <= m) /\ authorities = Asked(config.routes[m], rq)
    BY <1>2 DEF RouteNote
  <2>2. NotingUpTo(next) \in SUBSET Nat
    BY DEF NotingUpTo, Routing
  <2>3. m = CHOOSE i \in NotingUpTo(next) : \A j \in NotingUpTo(next) : j <= i
    BY <2>1, <2>2, OneExtreme
  <2>4. Compared = Asked(config.routes[m], rq)
    BY <1>1, <1>2, <2>3 DEF Compared
  <2>. QED BY <2>1, <2>4 DEF NotingUpTo, Noting
<1>3. NotingUpTo(next) = {} =>
         Compared = IF HaveAuth(Asked(Security, rq)) THEN Asked(Security, rq)
                         ELSE Security.base
  BY <1>1 DEF Compared
<1>. QED BY <1>2, <1>3

LEMMA ServedAsks ==
  ASSUME Routing, Chosen
  PROVE  /\ HaveAuth(Policy!Asks) <=> next \in Binding
         /\ HaveAuth(Policy!Asks) => Policy!Asks = Asked(config.routes[next], rq)
<1>1. Policy!Serving = next /\ next \in 1..next
  BY PolicyTerms DEF Routing, Chosen
<1>2. ~HaveAuth(Policy!NoAuthorities)
  BY DEF HaveAuth, Policy!NoAuthorities
<1>3. Policy!Asks = IF config.routes[next].own THEN Policy!NoAuthorities ELSE Asked(config.routes[next], rq)
  BY <1>1, SameRules DEF Policy!Asks
<1>. QED BY <1>1, <1>2, <1>3 DEF Binding, Noting

\* Without a claim of a route that rejected the request the filters go by what
\* the policy goes by.
LEMMA PlainTerms ==
  ASSUME Routing, Chosen, Unclaimed
  PROVE  /\ Policy!Secured <=> Screened
         /\ Policy!Demand = Compared
         /\ Policy!Entitled <=> Admitted
<1>1. Policy!Serving = next /\ next \in Nat /\ DOMAIN config.routes = 1..Len(config.routes)
      /\ next \in 1..Len(config.routes)
  BY PolicyTerms DEF Routing, Chosen, Config
<1>2. \A i \in 1..next : i # next => ~Noting(i)
  <2> SUFFICES ASSUME NEW i \in 1..next, i # next PROVE ~Noting(i)
    OBVIOUS
  <2>1. i \in DOMAIN config.routes /\ \A j \in 1..i : ~Passes(config.routes[j], rq)
    BY <1>1 DEF Routing
  <2>. QED BY <2>1 DEF Unclaimed, Noting
<1>3. \A i \in Binding : i = next
  BY <1>1, <1>2 DEF Binding
<1>4. HaveAuth(Policy!Asks) <=> Binding # {}
  BY <1>3, ServedAsks
<1>5. Binding # {} => (CHOOSE i \in Binding : \A j \in Binding : j <= i) = next
  BY <1>1, <1>3
<1>6. Policy!Secured <=> Screened
  BY <1>4, SameRules DEF Policy!Secured, Screened
<1>7. Policy!Demand = Compared
  BY <1>4, <1>5, ServedAsks, SameRules DEF Policy!Demand, Compared
<1>. QED BY <1>6, <1>7, SameRules DEF Policy!Entitled, Admitted

\* What the policy secures the filters treat as secured, whoever claims it.
LEMMA SecuredIsScreened ==
  ASSUME Routing, Chosen PROVE Policy!Secured => Screened
  BY ServedAsks, SameRules DEF Policy!Secured, Screened

LEMMA TestedTerms ==
  ASSUME Routing, Chosen, Note
  PROVE  /\ Tested = IF NotingUpTo(next) # {} THEN authorities ELSE SecurityNote
         /\ Guarded => IsSecurityRequest /\ Tested = Compared
         /\ IsSecurityRequest /\ ~Guarded => HaveAuth(authorities) /\ HaveAuth(SecurityNote)
         /\ RouteNote(next) /\ IsSecurityRequest => Guarded
<1>1. NotingUpTo(next) # {} => HaveAuth(authorities) /\ authorities = Compared
  BY DemandTerms DEF Note
<1>2. NotingUpTo(next) = {} => authorities \in {NoAuthorities, SecurityNote}
  BY DEF Note, RouteNote
<1>3. Tested = IF NotingUpTo(next) # {} THEN authorities ELSE SecurityNote
  <2>1. CASE NotingUpTo(next) # {}
    BY <1>1, <2>1 DEF Tested
  <2>2. CASE NotingUpTo(next) = {}
    BY <1>2, <2>2, NoAuth DEF Tested, Noted, SecurityNote
  <2>. QED BY <2>1, <2>2
<1>4. NotingUpTo(next) = {} /\ Passes(Security, rq) => SecurityNote = Compared
  BY DemandTerms DEF SecurityNote, Passes
<1>5. IsSecurityRequest /\ ~Guarded => HaveAuth(authorities) /\ HaveAuth(SecurityNote)
  BY <1>2, NoAuth DEF IsSecurityRequest, Guarded
<1>6. RouteNote(next) /\ IsSecurityRequest => Guarded
  BY NoAuth DEF RouteNote, IsSecurityRequest, Guarded
<1>. QED BY <1>1, <1>3, <1>4, <1>5, <1>6 DEF Guarded, IsSecurityRequest

-----------------------------------------------------------------------------
(* What a step that keeps the configuration and the request keeps.          *)

LEMMA PolicyFixed ==
  ASSUME UNCHANGED <<config, rq>>
  PROVE  /\ Admitted' = Admitted /\ Screened' = Screened
         /\ SecurityNote' = SecurityNote /\ Security' = Security
         /\ \A k : NotingUpTo(k)' = NotingUpTo(k)
<1>1. /\ Security' = Security /\ Binding' = Binding
      /\ Policy!Identified' = Policy!Identified
  BY DEF Security, Binding, Noting, Policy!Serving, Policy!ServingRoutes, Policy!Identified
<1>2. Compared' = Compared /\ Screened' = Screened
  BY <1>1 DEF Compared, Screened
<1>3. Admitted' = Admitted
  BY <1>1, <1>2 DEF Admitted
<1>4. SecurityNote' = SecurityNote /\ Security' = Security
  BY DEF SecurityNote, Security
<1>5. \A k : NotingUpTo(k)' = NotingUpTo(k)
  BY DEF NotingUpTo, Noting
<1>. QED BY <1>2, <1>3, <1>4, <1>5

LEMMA NoteFixed ==
  ASSUME UNCHANGED <<config, rq, next, authorities>>
  PROVE  RouteNote(next)' = RouteNote(next) /\ Note' = Note /\ Guarded' = Guarded
<1>1. NotingUpTo(next)' = NotingUpTo(next) /\ SecurityNote' = SecurityNote /\ Security' = Security
  BY PolicyFixed
<1>2. RouteNote(next)' = RouteNote(next)
  BY <1>1 DEF RouteNote, NotingUpTo, Noting
<1>. QED BY <1>1, <1>2 DEF Note, Guarded

\* Once a route is chosen nothing changes it.
LEMMA RoutingFixed ==
  ASSUME Routing, Chosen, UNCHANGED <<config, rq, next>>, pc' \notin {"route", "jwt", "notFound"}
  PROVE  Routing'
  BY DEF Routing, Chosen

LEMMA InitOK == Init => IInv
<1> SUFFICES ASSUME Init PROVE IInv
  OBVIOUS
<1>1. config \in Config
  BY ConfigAssumption DEF Init
<1>2. Len(config.routes) \in Nat
  BY <1>1 DEF Config
<1>3. NotingUpTo(next - 1) = {}
  BY DEF Init, NotingUpTo
<1>4. Routing
  BY <1>1, <1>2, <1>3 DEF Init, Routing, RouteNote
<1>. QED BY <1>4 DEF Init, IInv, Filtering, Deciding

LEMMA TryRouteOK ==
  ASSUME IInv, TryRoute PROVE IInv'
<1> USE DEF IInv
<1>1. /\ pc = "route" /\ next \in 1..Len(config.routes) /\ UNCHANGED <<config, rq, client, header>>
      /\ Len(config.routes) \in Nat
      /\ authorities' = IF Noting(next) THEN Asked(config.routes[next], rq) ELSE authorities
      /\ \/ Passes(config.routes[next], rq) /\ pc' = "jwt" /\ next' = next
         \/ ~Passes(config.routes[next], rq) /\ pc' = "route" /\ next' = next + 1
  BY DEF TryRoute, Routing, Config, Noting, Noted
<1>2. RouteNote(next - 1)
  BY <1>1 DEF Routing
<1> DEFINE S == NotingUpTo(next)
<1>3. S = NotingUpTo(next - 1) \cup (IF Noting(next) THEN {next} ELSE {})
  BY <1>1 DEF NotingUpTo
<1>4. \/ S = {} /\ authorities' = NoAuthorities
      \/ \E m \in S : (\A j \in S : j <= m) /\ authorities' = Asked(config.routes[m], rq)
  <2>1. CASE Noting(next)
    <3>1. next \in S /\ (\A j \in S : j <= next)
      BY <1>1, <1>3, <2>1 DEF NotingUpTo
    <3>. QED BY <1>1, <2>1, <3>1
  <2>2. CASE ~Noting(next)
    <3>1. S = NotingUpTo(next - 1)
      BY <1>3, <2>2
    <3>. QED BY <1>1, <1>2, <2>2, <3>1 DEF RouteNote
  <2>. QED BY <2>1, <2>2
<1>5. NotingUpTo(next)' = IF pc' = "jwt" THEN S ELSE NotingUpTo(next + 1)
  BY <1>1 DEF NotingUpTo, Noting
<1>6. CASE pc' = "jwt"
  <2>1. RouteNote(next)'
    BY <1>1, <1>4, <1>5, <1>6 DEF RouteNote
  <2>2. Routing'
    BY <1>1, <1>6, <2>1 DEF Routing
  <2>. QED BY <1>1, <1>6, <2>2 DEF Filtering, Deciding
<1>7. CASE pc' = "route"
  <2>1. next' = next + 1 /\ next' - 1 = next
    BY <1>1, <1>7
  <2>2. NotingUpTo(next - 1)' = S
    BY <1>1, <2>1 DEF NotingUpTo, Noting
  <2>3. RouteNote(next - 1)'
    BY <1>1, <1>4, <2>2 DEF RouteNote
  <2>4. \A j \in 1..next : ~Passes(config.routes[j], rq)
    BY <1>1, <1>7 DEF Routing
  <2>5. Routing'
    BY <1>1, <1>7, <2>1, <2>3, <2>4 DEF Routing
  <2>. QED BY <1>1, <1>7, <2>5 DEF Filtering, Deciding
<1>. QED BY <1>1, <1>6, <1>7

LEMMA NoRouteOK ==
  ASSUME IInv, NoRoute PROVE IInv'
<1>1. /\ pc = "route" /\ pc' = "notFound" /\ next = Len(config.routes) + 1
      /\ UNCHANGED <<config, rq, next, authorities, client, header>>
  BY DEF NoRoute, IInv, Routing, Config
<1>. QED BY <1>1 DEF IInv, Routing, Filtering, Deciding

\* The exchange after a test of the security predicate.
LEMMA TestedNote ==
  ASSUME Routing, Chosen, Note, UNCHANGED <<config, rq, next>>, authorities' = Tested
  PROVE  Note' /\ Guarded' = Guarded
<1>1. NotingUpTo(next)' = NotingUpTo(next) /\ SecurityNote' = SecurityNote /\ Security' = Security
  BY PolicyFixed
<1>2. CASE NotingUpTo(next) # {}
  <2>1. authorities' = authorities
    BY <1>2, TestedTerms
  <2>. QED BY <2>1, NoteFixed
<1>3. CASE NotingUpTo(next) = {}
  BY <1>1, <1>3, TestedTerms DEF Note, Guarded
<1>. QED BY <1>2, <1>3

LEMMA JwtOK ==
  ASSUME IInv, Jwt PROVE IInv'
<1> USE DEF IInv
<1>1. pc = "jwt" /\ Chosen /\ RouteNote(next) /\ Note /\ client = NoClient
  BY DEF Jwt, Routing, Chosen, Note
<1>2. /\ UNCHANGED <<config, rq, next>>
      /\ pc' \in {"security", "refused", "userInfo"}
  BY DEF Jwt
<1>3. Routing'
  BY <1>1, <1>2, RoutingFixed
<1>4. Note' /\ Guarded' = Guarded
  BY <1>1, <1>2, TestedNote, NoteFixed DEF Jwt
<1>5. IsSecurityRequest <=> Guarded
  BY <1>1, TestedTerms
<1>6. Filtering'
  <2>1. client' # NoClient => rq.token \in Clients /\ client' = rq.token /\ header' = rq.token
    BY <1>1 DEF Jwt
  <2>2. pc' = "userInfo" => /\ config.method = "IDENTITY_SERVER" /\ rq.method # "OPTIONS"
                            /\ Guarded /\ client' = NoClient
    BY <1>1, <1>5 DEF Jwt
  <2>3. pc' = "security" =>
           /\ client' # NoClient => rq.method # "OPTIONS" /\ Guarded
           /\ rq.method # "OPTIONS" /\ Guarded /\ client' = NoClient => rq.token = NoToken
    BY <1>1, <1>5, NoClientAssumption DEF Jwt
  <2>. QED BY <1>2, <1>4, <2>1, <2>2, <2>3 DEF Filtering
<1>7. Deciding'
  BY <1>2 DEF Deciding
<1>. QED BY <1>3, <1>6, <1>7

LEMMA UserInfoOK ==
  ASSUME IInv, UserInfo PROVE IInv'
<1> USE DEF IInv
<1>1. /\ pc = "userInfo" /\ pc' \in {"apiUser", "refused", "failed"} /\ Chosen
      /\ pc' = "apiUser" => rq.token \in Clients
      /\ UNCHANGED <<config, rq, next, authorities, client, header>>
  BY DEF UserInfo, Chosen
<1>2. Routing'
  BY <1>1, RoutingFixed
<1>3. Note' = Note /\ Guarded' = Guarded
  BY <1>1, NoteFixed
<1>. QED BY <1>1, <1>2, <1>3 DEF Filtering, Deciding

LEMMA ApiUserOK ==
  ASSUME IInv, ApiUser PROVE IInv'
<1> USE DEF IInv
<1>1. /\ pc = "apiUser" /\ pc' \in {"security", "failed"} /\ Chosen /\ rq.token \in Clients
      /\ pc' = "security" => client' = rq.token /\ header' = rq.token
      /\ pc' = "failed" => UNCHANGED <<client, header>>
      /\ UNCHANGED <<config, rq, next, authorities>>
  BY DEF ApiUser, Chosen, Filtering
<1>2. Routing'
  BY <1>1, RoutingFixed
<1>3. Note' = Note /\ Guarded' = Guarded
  BY <1>1, NoteFixed
<1>. QED BY <1>1, <1>2, <1>3, NoClientAssumption DEF Filtering, Deciding

LEMMA SecurityFilterOK ==
  ASSUME IInv, SecurityFilter PROVE IInv'
<1> USE DEF IInv
<1>1. pc = "security" /\ Chosen /\ Note /\ UNCHANGED <<config, rq, next, client, header>>
  BY DEF SecurityFilter, Chosen, Filtering
<1>2. pc' \in {"serve", "refused"}
  BY DEF SecurityFilter, ProcessAuth
<1>3. Routing'
  BY <1>1, <1>2, RoutingFixed
<1>4. Guarded' = Guarded /\ Admitted' = Admitted /\ Screened' = Screened
  BY <1>1, TestedNote, NoteFixed, PolicyFixed DEF SecurityFilter
<1>5. Filtering'
  BY <1>1, <1>2 DEF Filtering
<1>6. ASSUME pc' = "serve", Screened
      PROVE  client # NoClient /\ Policy!Identified /\ Holds(Compared, AuthoritiesOf(rq.token))
  <2>1. rq.method # "OPTIONS" /\ rq.path # ErrorPath /\ Guarded
    BY <1>1, <1>6, PolicyTerms
  <2>2. IsSecurityRequest /\ Tested = Compared
    BY <1>1, <2>1, TestedTerms
  <2>3. client # NoClient /\ Holds(Compared, AuthoritiesOf(client))
    BY <1>6, <2>1, <2>2 DEF SecurityFilter, ProcessAuth
  <2>4. client = rq.token /\ rq.token \in Clients
    BY <2>3 DEF Filtering
  <2>. QED BY <2>3, <2>4 DEF Policy!Identified
<1>7. Deciding'
  BY <1>1, <1>2, <1>4, <1>6 DEF Deciding, Filtering, Admitted
<1>. QED BY <1>3, <1>5, <1>7

LEMMA ServeOK ==
  ASSUME IInv, Serve PROVE IInv'
<1> USE DEF IInv
<1>1. /\ pc = "serve" /\ pc' \in {"refused", "forwarded"} /\ Chosen
      /\ UNCHANGED <<config, rq, next, authorities, client, header>>
  BY DEF Serve, Chosen
<1>2. Routing'
  BY <1>1, RoutingFixed
<1>3. Guarded' = Guarded /\ Admitted' = Admitted /\ Screened' = Screened
  BY <1>1, NoteFixed, PolicyFixed
<1>. QED BY <1>1, <1>2, <1>3 DEF Filtering, Deciding

LEMMA NextOK == IInv /\ [Next]_vars => IInv'
<1> SUFFICES ASSUME IInv, [Next]_vars PROVE IInv'
  OBVIOUS
<1>1. CASE TryRoute
  BY <1>1, TryRouteOK
<1>2. CASE NoRoute
  BY <1>2, NoRouteOK
<1>3. CASE Jwt
  BY <1>3, JwtOK
<1>4. CASE UserInfo
  BY <1>4, UserInfoOK
<1>5. CASE ApiUser
  BY <1>5, ApiUserOK
<1>6. CASE SecurityFilter
  BY <1>6, SecurityFilterOK
<1>7. CASE Serve
  BY <1>7, ServeOK
<1>8. CASE UNCHANGED vars
  <2>1. UNCHANGED <<config, rq, next, authorities, client, header, pc>>
    BY <1>8 DEF vars
  <2>2. /\ Guarded' = Guarded /\ Note' = Note /\ RouteNote(next)' = RouteNote(next)
        /\ Admitted' = Admitted /\ Screened' = Screened
    BY <2>1, NoteFixed, PolicyFixed
  <2>3. RouteNote(next - 1)' = RouteNote(next - 1)
    BY <2>1 DEF RouteNote, NotingUpTo, Noting
  <2>. QED BY <2>1, <2>2, <2>3 DEF IInv, Routing, Filtering, Deciding
<1>. QED BY <1>1, <1>2, <1>3, <1>4, <1>5, <1>6, <1>7, <1>8 DEF Next

LEMMA Invariant == Spec => []IInv
  BY InitOK, NextOK, PTL DEF Spec

\* No configuration, request or failure of the identity server lets a request
\* through the filters whose client does not hold what the serving route or
\* else the security list demands for it, as long as no route that rejected
\* the request claims it with authorities of its own.
THEOREM EntitledCorrect == Spec => []ForwardedIsEntitled
<1>1. IInv => ForwardedIsEntitled
  BY PlainTerms DEF IInv, Deciding, ForwardedIsEntitled, Chosen
<1>. QED BY <1>1, Invariant, PTL

\* A forwarded request that the configuration secures carries the headers of
\* the owner of its token, whatever headers it came with and whichever routes
\* rejected it before.
THEOREM IdentityCorrect == Spec => []ForwardedIdentity
<1>1. IInv => ForwardedIdentity
  BY SecuredIsScreened DEF IInv, Deciding, Filtering, ForwardedIdentity, Chosen
<1>. QED BY <1>1, Invariant, PTL

-----------------------------------------------------------------------------
(* Which entry of a list catches a request.                                 *)

LEMMA LeastOfNats ==
  ASSUME NEW N \in SUBSET Nat, N # {} PROVE \E n \in N : \A m \in N : n <= m
<1>1. PICK n \in N : \A m \in N : ~(<<m, n>> \in OpToRel(<, Nat))
  BY NatLessThanWellFounded, WFMin
<1>2. \A m \in N : ~(m < n)
  BY <1>1 DEF OpToRel
<1>. QED BY <1>2

\* A finite set has a first element in any total order.
LEMMA FirstOfOrder ==
  ASSUME NEW S, IsFiniteSet(S), S # {}, NEW R,
         \A i \in S : <<i, i>> \notin R,
         \A i, j, k \in S : <<i, j>> \in R /\ <<j, k>> \in R => <<i, k>> \in R,
         \A i, j \in S : i # j => <<i, j>> \in R \/ <<j, i>> \in R
  PROVE  \E i \in S : \A j \in S \ {i} : <<i, j>> \in R
<1> DEFINE before(i) == {j \in S : <<j, i>> \in R}
           count(i) == Cardinality(before(i))
           N == {count(i) : i \in S}
<1>1. \A i \in S : IsFiniteSet(before(i)) /\ count(i) \in Nat
  <2> SUFFICES ASSUME NEW i \in S PROVE IsFiniteSet(before(i)) /\ count(i) \in Nat
    OBVIOUS
  <2>1. before(i) \in SUBSET S
    OBVIOUS
  <2>2. IsFiniteSet(before(i))
    BY <2>1, FS_Subset
  <2>. QED BY <2>2, FS_CardinalityType
<1>2. N \in SUBSET Nat /\ N # {}
  <2>1. \A i \in S : count(i) \in Nat
    BY <1>1
  <2> HIDE DEF count
  <2>2. \A n \in N : n \in Nat
    BY <2>1
  <2>. QED BY <2>2
<1>3. PICK n \in N : \A m \in N : n <= m
  <2> HIDE DEF N
  <2>. QED BY <1>2, LeastOfNats
<1>4. PICK i \in S : n = count(i)
  BY <1>3
<1>5. ASSUME NEW j \in before(i) PROVE FALSE
  <2>1. j \in S /\ before(j) \subseteq before(i) /\ j \notin before(j)
    OBVIOUS
  <2>2. IsFiniteSet(before(i)) /\ before(j) \in SUBSET before(i) /\ before(j) # before(i)
    BY <1>1, <1>5, <2>1
  <2>3. count(j) <= count(i) /\ count(j) # count(i)
    <3> HIDE DEF before
    <3>. QED BY <2>2, FS_Subset
  <2>4. count(i) <= count(j)
    <3> HIDE DEF count
    <3>. QED BY <1>3, <1>4, <2>1
  <2>5. count(i) \in Nat /\ count(j) \in Nat
    BY <1>1, <2>1
  <2> HIDE DEF count, before
  <2>. QED BY <2>3, <2>4, <2>5
<1>. QED BY <1>5

\* FilterMatchPredicate.findMatcher, which the predicates and the authorities
\* rest on: in a list of any length the entry found is one that catches the
\* request, and it stands before every other such entry, by `order` and then
\* by its place; nothing is found only when nothing catches the request.
THEOREM FoundIsFirst ==
  ASSUME NEW matches \in Seq(Entry), NEW r
  PROVE  LET i == Found(matches, r)
             hits == {j \in DOMAIN matches : Catches(matches[j], r)}
         IN  /\ i = 0 <=> hits = {}
             /\ i # 0 => /\ i \in hits
                         /\ \A j \in hits \ {i} :
                               \/ matches[i].order < matches[j].order
                               \/ matches[i].order = matches[j].order /\ i < j
<1> DEFINE hits == {j \in DOMAIN matches : Catches(matches[j], r)}
           Precedes(i, j) == \/ matches[i].order < matches[j].order
                             \/ matches[i].order = matches[j].order /\ i < j
           R == {p \in hits \X hits : Precedes(p[1], p[2])}
<1>1. DOMAIN matches = 1..Len(matches) /\ Len(matches) \in Nat
  OBVIOUS
<1>2. \A i \in hits : i \in 1..Len(matches) /\ matches[i].order \in Int
  <2>1. \A i \in 1..Len(matches) : matches[i] \in Entry
    BY <1>1
  <2>2. \A i \in 1..Len(matches) : matches[i].order \in Int
    BY <2>1 DEF Entry
  <2>. QED BY <1>1, <2>2
<1>3. IsFiniteSet(hits)
  <2>1. IsFiniteSet(1..Len(matches)) /\ hits \in SUBSET (1..Len(matches))
    BY <1>1, FS_Interval
  <2> HIDE DEF hits
  <2>. QED BY <2>1, FS_Subset
<1> HIDE DEF hits
<1>4. \A i, j \in hits : <<i, j>> \in R <=> Precedes(i, j)
  OBVIOUS
<1>5. hits # {} => \E i \in hits : \A j \in hits \ {i} : Precedes(i, j)
  <2>1. \A i \in hits : <<i, i>> \notin R
    BY <1>2, <1>4
  <2>2. \A i, j, k \in hits : <<i, j>> \in R /\ <<j, k>> \in R => <<i, k>> \in R
    BY <1>2, <1>4
  <2>3. \A i, j \in hits : i # j => <<i, j>> \in R \/ <<j, i>> \in R
    BY <1>2, <1>4
  <2> HIDE DEF R, Precedes
  <2>4. hits # {} => \E i \in hits : \A j \in hits \ {i} : <<i, j>> \in R
    BY <1>3, <2>1, <2>2, <2>3, FirstOfOrder
  <2>. QED BY <1>4, <2>4
<1>6. Found(matches, r) = IF hits = {} THEN 0 ELSE CHOOSE i \in hits : \A j \in hits \ {i} : Precedes(i, j)
  BY DEF Found, hits
<1>7. CASE hits = {}
  BY <1>6, <1>7 DEF hits
<1>8. CASE hits # {}
  <2> DEFINE i == Found(matches, r)
  <2> HIDE DEF Precedes
  <2>1. i \in hits /\ \A j \in hits \ {i} : Precedes(i, j)
    BY <1>5, <1>6, <1>8
  <2>2. i # 0
    BY <1>2, <2>1
  <2>. QED BY <2>1, <2>2, <1>8 DEF hits, Precedes
<1>. QED BY <1>7, <1>8

LEMMA AskedType ==
  ASSUME NEW list, list.matches \in Seq(Entry), NEW r
  PROVE  Asked(list, r) \in PathAuthorities
<1> DEFINE i == Found(list.matches, r)
<1>1. CASE i = 0
  BY <1>1 DEF Asked, NoAuthorities, PathAuthorities, Modes
<1>2. CASE i # 0
  <2>1. i \in DOMAIN list.matches
    BY <1>2, FoundIsFirst
  <2> HIDE DEF i
  <2>2. list.matches[i] \in Entry
    BY <2>1
  <2>. QED BY <1>2, <2>2 DEF Asked, Entry, i
<1>. QED BY <1>1, <1>2

LEMMA SecurityType ==
  ASSUME config \in Config PROVE Security.matches \in Seq(Entry) /\ Security.base \in PathAuthorities
<1> DEFINE raw == config.security
           WithBase(entry) == IF HaveAuth(entry.authorities) THEN entry
                              ELSE [entry EXCEPT !.authorities.groups = raw.base.groups]
<1>1. /\ raw \in RawList
      /\ Security.base = raw.base
      /\ Security.matches = IF raw.typed THEN [i \in DOMAIN raw.matches |-> WithBase(raw.matches[i])] ELSE <<>>
  BY DEF Config, Security, SecurityList
<1> HIDE DEF raw
<1>2. raw.base \in PathAuthorities /\ raw.matches \in Seq(Entry) /\ raw.base.groups \in SUBSET Group
  BY <1>1 DEF RawList, PathAuthorities
<1>3. ASSUME NEW entry \in Entry PROVE WithBase(entry) \in Entry
  <2> DEFINE pa == [entry.authorities EXCEPT !.groups = raw.base.groups]
  <2>1. pa \in PathAuthorities
    BY <1>2 DEF Entry, PathAuthorities
  <2>2. [entry EXCEPT !.authorities.groups = raw.base.groups] = [entry EXCEPT !.authorities = pa]
    OBVIOUS
  <2> HIDE DEF pa
  <2>3. [entry EXCEPT !.authorities = pa] \in Entry
    BY <2>1 DEF Entry
  <2>. QED BY <2>2, <2>3
<1> HIDE DEF WithBase
<1>4. [i \in DOMAIN raw.matches |-> WithBase(raw.matches[i])] \in Seq(Entry)
  BY <1>2, <1>3
<1>5. <<>> \in Seq(Entry)
  OBVIOUS
<1>. QED BY <1>1, <1>2, <1>4, <1>5

-----------------------------------------------------------------------------
(* The filters implement the policy, under the two premises.                *)

\* An exception that the base authorities reach asks for them.
LEMMA BaseAsked ==
  ASSUME config \in Config, Found(Security.matches, rq) # 0, HaveAuth(Security.base)
  PROVE  HaveAuth(Asked(Security, rq))
<1> DEFINE raw == config.security
           i == Found(Security.matches, rq)
           WithBase(entry) == IF HaveAuth(entry.authorities) THEN entry
                              ELSE [entry EXCEPT !.authorities.groups = raw.base.groups]
<1>1. /\ raw \in RawList
      /\ Security.base = raw.base
      /\ Security.matches = IF raw.typed THEN [n \in DOMAIN raw.matches |-> WithBase(raw.matches[n])] ELSE <<>>
  BY DEF Config, Security, SecurityList
<1>2. Security.matches \in Seq(Entry)
  BY SecurityType
<1>3. i \in DOMAIN Security.matches
  BY <1>2, FoundIsFirst
<1>4. Security.matches[i].authorities = Asked(Security, rq)
  BY DEF Asked
<1> HIDE DEF i, raw
<1>5. i \in DOMAIN raw.matches /\ Security.matches[i] = WithBase(raw.matches[i]) /\ raw.matches[i] \in Entry
  BY <1>1, <1>3 DEF RawList
<1>6. HaveAuth(raw.base)
  BY <1>1
<1>7. CASE HaveAuth(raw.matches[i].authorities)
  BY <1>4, <1>5, <1>7
<1>8. CASE ~HaveAuth(raw.matches[i].authorities)
  <2>1. WithBase(raw.matches[i]).authorities.groups = raw.base.groups
    BY <1>5, <1>8 DEF Entry, PathAuthorities
  <2>. QED BY <1>4, <1>5, <1>6, <2>1 DEF HaveAuth
<1>. QED BY <1>7, <1>8

LEMMA RefusedAtJwt ==
  ASSUME IInv, Unclaimed, Jwt, pc' = "refused" PROVE Policy!Refuse
<1>1. pc = "jwt" /\ Chosen /\ RouteNote(next) /\ Note /\ rq.method # "OPTIONS"
  BY DEF IInv, Jwt, Routing, Chosen, Note
<1>2. IsSecurityRequest /\ rq.token \notin Clients
  BY <1>1, TokenAssumption DEF Jwt
<1>3. Guarded
  BY <1>1, <1>2, TestedTerms DEF IInv
<1>4. Policy!ServingRoutes # {} /\ (rq.path = ErrorPath \/ Policy!Secured) /\ ~Policy!Identified
  BY <1>1, <1>2, <1>3, PolicyTerms, PlainTerms DEF IInv, Policy!Identified
<1>5. Policy!Secured => ~Policy!Entitled
  BY <1>4 DEF Policy!Entitled
<1>. QED BY <1>4, <1>5 DEF Policy!Refuse, Ends

LEMMA RefusedAtSecurity ==
  ASSUME IInv, Unclaimed, Unexempted, SecurityFilter, pc' = "refused" PROVE Policy!Refuse
<1>1. pc = "security" /\ Chosen /\ Note
  BY DEF IInv, SecurityFilter, Chosen, Filtering
<1>2. /\ rq.method # "OPTIONS" /\ rq.path # ErrorPath /\ IsSecurityRequest
      /\ client = NoClient \/ ~Holds(Tested, AuthoritiesOf(client))
  BY DEF SecurityFilter, ProcessAuth
<1>3. Policy!ServingRoutes # {} /\ (Policy!Secured <=> Guarded) /\ Policy!Demand = Compared
  BY <1>1, <1>2, PolicyTerms, PlainTerms DEF IInv
<1>4. CASE Guarded
  <2>1. Tested = Policy!Demand
    BY <1>1, <1>3, <1>4, TestedTerms DEF IInv
  <2>2. CASE client = NoClient
    BY <1>1, <1>2, <1>3, <1>4, <2>2, TokenAssumption
       DEF IInv, Filtering, Policy!Refuse, Policy!Entitled, Policy!Identified, Ends
  <2>3. CASE client # NoClient
    <3>1. client = rq.token /\ ~Policy!Holds(Policy!Demand, AuthoritiesOf(client))
      BY <1>2, <2>1, <2>3, SameRules DEF IInv, Filtering
    <3>. QED BY <1>3, <1>4, <3>1 DEF Policy!Refuse, Policy!Entitled, Ends
  <2>. QED BY <2>2, <2>3
<1>5. CASE ~Guarded
  <2>1. NotingUpTo(next) = {} /\ ~Passes(Security, rq)
    BY <1>5 DEF Guarded
  <2>2. HaveAuth(SecurityNote)
    BY <1>1, <1>2, <1>5, TestedTerms DEF IInv
  <2>3. Found(Security.matches, rq) # 0 /\ ~Security.contains
    <3>1. Found(Security.matches, rq) # 0 \/ ~Security.contains
      BY <2>2, NoAuth DEF SecurityNote, Asked
    <3>. QED BY <2>1, <3>1 DEF Passes
  <2>4. ~HaveAuth(Asked(Security, rq))
    BY <2>3 DEF Unexempted
  <2>5. HaveAuth(Security.base)
    BY <2>2, <2>3, <2>4 DEF SecurityNote
  <2>. QED BY <2>3, <2>4, <2>5, BaseAsked DEF IInv, Routing
<1>. QED BY <1>4, <1>5

LEMMA ServeFollows ==
  ASSUME IInv, Unclaimed, Serve PROVE Policy!Forward \/ Policy!Refuse
<1>1. /\ pc = "serve" /\ Chosen /\ Policy!Entitled
      /\ Policy!Secured => client # NoClient
      /\ client # NoClient => rq.token \in Clients /\ rq.method # "OPTIONS" /\ Guarded
  BY PlainTerms DEF IInv, Serve, Chosen, Deciding, Filtering
<1>2. /\ Policy!ServingRoutes # {} /\ Policy!Serving = next
      /\ Policy!Secured <=> rq.method # "OPTIONS" /\ rq.path # ErrorPath /\ Guarded
  BY <1>1, PolicyTerms, PlainTerms DEF IInv
<1> DEFINE lists == config.routes[next].own /\ config.routes[next].authorities
<1>3. Policy!NeedsClient <=> lists
  BY <1>2 DEF Policy!NeedsClient
<1>4. pc' = IF lists /\ client = NoClient THEN "refused" ELSE "forwarded"
  BY DEF Serve
<1> HIDE DEF lists
<1>5. CASE lists /\ client = NoClient
  BY <1>1, <1>2, <1>3, <1>4, <1>5 DEF Policy!Refuse, Ends
<1>6. CASE ~(lists /\ client = NoClient)
  BY <1>1, <1>2, <1>3, <1>4, <1>6 DEF Policy!Forward, Policy!Identified, Ends
<1>. QED BY <1>5, <1>6

LEMMA BrokenFollows ==
  ASSUME IInv, Unclaimed, pc \in {"userInfo", "apiUser"}, pc' = "failed" PROVE Policy!Break
<1>1. Chosen /\ config.method = "IDENTITY_SERVER" /\ rq.method # "OPTIONS" /\ Guarded
  BY DEF IInv, Filtering, Chosen
<1>. QED BY <1>1, PolicyTerms, PlainTerms DEF IInv, Policy!Break, Ends

LEMMA DeniedFollows ==
  ASSUME IInv, Unclaimed, UserInfo, pc' = "refused" PROVE Policy!Refuse
<1>1. pc = "userInfo" /\ Chosen /\ rq.method # "OPTIONS" /\ Guarded /\ rq.token \notin Clients
  BY DEF IInv, UserInfo, Filtering, Chosen
<1>2. Policy!ServingRoutes # {} /\ (rq.path = ErrorPath \/ Policy!Secured)
  BY <1>1, PolicyTerms, PlainTerms DEF IInv
<1>. QED BY <1>1, <1>2 DEF Policy!Refuse, Policy!Entitled, Policy!Identified, Ends

LEMMA NotFoundFollows ==
  ASSUME IInv, NoRoute PROVE Policy!NotFound
<1>1. DOMAIN config.routes = 1..Len(config.routes) /\ Len(config.routes) \in Nat
  BY DEF IInv, Routing, Config
<1>2. pc' = "notFound" /\ next = Len(config.routes) + 1
  BY <1>1 DEF IInv, NoRoute, Routing
<1>3. Policy!ServingRoutes = {}
  BY <1>1, <1>2, SameRules DEF IInv, Routing, Policy!ServingRoutes
<1>. QED BY <1>2, <1>3 DEF Policy!NotFound, Ends

LEMMA StepFollows ==
  ASSUME IInv, Unclaimed, Unexempted, [Next]_vars PROVE [Policy!Next]_(Policy!vars)
<1>1. ASSUME pc \in Steps, UNCHANGED <<config, rq>>,
             Policy!Forward \/ Policy!Refuse \/ Policy!Break \/ Policy!NotFound
      PROVE  Policy!Next
  BY <1>1 DEF Policy!Next, Steps, Ends
<1>2. ASSUME pc \in Steps, pc' \in Steps, UNCHANGED <<config, rq>>
      PROVE  UNCHANGED Policy!vars
  BY <1>2 DEF Policy!vars, Steps, Ends
<1>3. CASE TryRoute
  BY <1>2, <1>3 DEF TryRoute, Steps
<1>4. CASE NoRoute
  BY <1>1, <1>4, NotFoundFollows DEF NoRoute, Steps
<1>5. CASE Jwt
  <2>1. pc = "jwt" /\ pc' \in {"security", "userInfo", "refused"} /\ UNCHANGED <<config, rq>>
    BY <1>5 DEF Jwt
  <2>. QED BY <1>1, <1>2, <1>5, <2>1, RefusedAtJwt DEF Steps
<1>6. CASE UserInfo
  <2>1. pc = "userInfo" /\ pc' \in {"apiUser", "refused", "failed"} /\ UNCHANGED <<config, rq>>
    BY <1>6 DEF UserInfo
  <2>. QED BY <1>1, <1>2, <1>6, <2>1, BrokenFollows, DeniedFollows DEF Steps
<1>7. CASE ApiUser
  <2>1. pc = "apiUser" /\ pc' \in {"security", "failed"} /\ UNCHANGED <<config, rq>>
    BY <1>7 DEF ApiUser
  <2>. QED BY <1>1, <1>2, <2>1, BrokenFollows DEF Steps
<1>8. CASE SecurityFilter
  <2>1. pc = "security" /\ pc' \in {"serve", "refused"} /\ UNCHANGED <<config, rq>>
    BY <1>8 DEF SecurityFilter, ProcessAuth
  <2>. QED BY <1>1, <1>2, <1>8, <2>1, RefusedAtSecurity DEF Steps
<1>9. CASE Serve
  BY <1>1, <1>9, ServeFollows DEF Serve, Steps
<1>10. CASE UNCHANGED vars
  BY <1>10 DEF vars, Policy!vars
<1>. QED BY <1>3, <1>4, <1>5, <1>6, <1>7, <1>8, <1>9, <1>10 DEF Next

\* The routes and filters, with all they leave on the exchange for each other,
\* decide about a request as the configuration says, in every configuration
\* with any number of routes and entries, if no route that rejects the request
\* claims it and no exception of the security list asks for authorities.
THEOREM FiltersFollowPolicy == Spec => FollowsPolicy
<1>1. Init => Policy!Init
  BY DEF Init, Policy!Init, Ends
<1>2. IInv /\ [Next]_vars => [Unclaimed /\ Unexempted => Policy!Next]_(Policy!vars)
  BY StepFollows
<1>. QED BY <1>1, <1>2, Invariant, PTL DEF Spec, FollowsPolicy

-----------------------------------------------------------------------------
(* Type correctness.                                                        *)

\* What a test leaves on the exchange is authorities of the configuration.
LEMMA NotedType ==
  ASSUME authorities \in PathAuthorities, NEW list, list.matches \in Seq(Entry), NEW secured \in BOOLEAN,
         secured => list.base \in PathAuthorities
  PROVE  Noted(list, secured) \in PathAuthorities
  BY AskedType DEF Noted

LEMMA TestedType ==
  ASSUME config \in Config, authorities \in PathAuthorities PROVE Tested \in PathAuthorities
  BY SecurityType, NotedType DEF Tested

LEMMA TypeInit == Init => TypeOK
<1> SUFFICES ASSUME Init PROVE TypeOK
  OBVIOUS
<1>1. Len(config.routes) \in Nat
  BY ConfigAssumption DEF Init, Config
<1>. QED BY <1>1 DEF Init, TypeOK, Steps, NoAuthorities, PathAuthorities, Modes

LEMMA TypeStep == IInv /\ TypeOK /\ [Next]_vars => TypeOK'
<1> SUFFICES ASSUME IInv, TypeOK, [Next]_vars PROVE TypeOK'
  OBVIOUS
<1>1. config \in Config /\ DOMAIN config.routes = 1..Len(config.routes) /\ Len(config.routes) \in Nat
  BY DEF IInv, Routing, Config
<1>2. CASE TryRoute
  <2>1. next \in DOMAIN config.routes
    BY <1>2 DEF TryRoute
  <2>2. config.routes[next] \in Route
    BY <1>1, <2>1 DEF Config
  <2>3. Noted(config.routes[next], FALSE) \in PathAuthorities
    BY <2>2, NotedType DEF TypeOK, Route
  <2>4. authorities' \in PathAuthorities
    BY <1>2, <2>3 DEF TryRoute, TypeOK
  <2>5. /\ UNCHANGED <<config, client, header>>
        /\ (pc' = "jwt" /\ next' = next) \/ (pc' = "route" /\ next' = next + 1)
    BY <1>2 DEF TryRoute
  <2>. QED BY <1>1, <2>1, <2>4, <2>5 DEF TypeOK, Steps
<1>3. CASE NoRoute
  BY <1>1, <1>3 DEF NoRoute, TypeOK, Steps, Ends
<1>4. CASE Jwt
  <2>1. authorities' \in PathAuthorities
    BY <1>1, <1>4, TestedType DEF Jwt, TypeOK
  <2>2. /\ pc = "jwt" /\ pc' \in {"security", "refused", "userInfo"} /\ UNCHANGED <<config, next>>
        /\ client' \in Clients \cup {NoClient} /\ header' \in Clients \cup {NoClient, Sent}
    BY <1>4 DEF Jwt, TypeOK
  <2>. QED BY <2>1, <2>2 DEF TypeOK, Steps, Ends
<1>5. CASE UserInfo
  BY <1>5 DEF UserInfo, TypeOK, Steps, Ends
<1>6. CASE ApiUser
  BY <1>6 DEF ApiUser, TypeOK, Steps, Ends, IInv, Filtering
<1>7. CASE SecurityFilter
  <2>1. authorities' \in PathAuthorities
    BY <1>1, <1>7, TestedType DEF SecurityFilter, TypeOK
  <2>2. pc = "security" /\ pc' \in {"serve", "refused"} /\ UNCHANGED <<config, next, client, header>>
    BY <1>7 DEF SecurityFilter, ProcessAuth
  <2>. QED BY <2>1, <2>2 DEF TypeOK, Steps, Ends
<1>8. CASE Serve
  BY <1>8 DEF Serve, TypeOK, Steps, Ends
<1>9. CASE UNCHANGED vars
  BY <1>9 DEF vars, TypeOK
<1>. QED BY <1>2, <1>3, <1>4, <1>5, <1>6, <1>7, <1>8, <1>9 DEF Next

\* In every state the exchange carries authorities that stand in the
\* configuration, the client headers name a client, nobody or what the caller
\* sent, and a route is chosen from the jwt filter on: findMatcher never
\* answers with an entry that the list does not have.
THEOREM TypeCorrect == Spec => []TypeOK
<1>1. IInv /\ TypeOK /\ [Next]_vars => TypeOK'
  BY TypeStep
<1>. QED BY <1>1, TypeInit, Invariant, PTL DEF Spec
-----------------------------------------------------------------------------
(* What the outcome is, exactly.  AccessPolicy says what should happen to a *)
(* request; Verdict says what does, from the configuration and the request, *)
(* also where the two differ.                                               *)

AsksForClient == rq.method # "OPTIONS" /\ (Binding # {} \/ Passes(Security, rq))

\* Refused on the way to the route: without the client whom the authorities on
\* the exchange ask for, as an exception of the security list that asks for
\* authorities, or with a bad token on the error page.
Denied ==
    \/ ~Admitted
    \/ Excepted /\ rq.method # "OPTIONS" /\ rq.path # ErrorPath
    \/ AsksForClient /\ rq.path = ErrorPath /\ rq.token \notin Clients \cup {NoToken}

\* Refused by the endpoint that lists the authorities of its client.
Lacking == Policy!NeedsClient /\ ~(AsksForClient /\ Policy!Identified)

Verdict ==
    IF Policy!ServingRoutes = {} THEN "notFound"
    ELSE IF Denied \/ Lacking THEN "refused" ELSE "forwarded"

\* The identity server was asked and did not answer.
Broken ==
    /\ pc = "failed"
    /\ config.method = "IDENTITY_SERVER"
    /\ AsksForClient
    /\ rq.token \notin {NoToken, Malformed}

VerdictReached == pc \in Ends => pc = Verdict \/ Broken

Judging ==
    /\ pc = "security" /\ rq.method # "OPTIONS" /\ ~Guarded => authorities = SecurityNote
    /\ pc \in {"userInfo", "apiUser"} => rq.token \notin {NoToken, Malformed}
    /\ pc = "serve" => ~Denied /\ (client # NoClient <=> AsksForClient /\ Policy!Identified)
    /\ VerdictReached

LEMMA JudgedTerms ==
  ASSUME Routing, Chosen
  PROVE  /\ Policy!ServingRoutes # {}
         /\ AsksForClient <=> rq.method # "OPTIONS" /\ Guarded
         /\ Policy!NeedsClient <=> config.routes[next].own /\ config.routes[next].authorities
         /\ Excepted <=> ~Guarded /\ HaveAuth(SecurityNote)
<1>1. /\ Policy!ServingRoutes # {} /\ Policy!Serving = next
      /\ Binding = NotingUpTo(next)
  BY PolicyTerms
<1>2. Excepted <=> ~Guarded /\ ~Security.contains /\ HaveAuth(Compared)
  BY <1>1 DEF Excepted, Guarded
<1>3. ASSUME ~Guarded
      PROVE  HaveAuth(SecurityNote) <=> ~Security.contains /\ HaveAuth(Compared)
  <2>1. NotingUpTo(next) = {} /\ ~Passes(Security, rq)
    BY <1>3 DEF Guarded
  <2>2. CASE Security.contains
    <3>1. Found(Security.matches, rq) = 0
      BY <2>1, <2>2 DEF Passes
    <3>2. Asked(Security, rq) = NoAuthorities
      BY <3>1 DEF Asked
    <3>. QED BY <2>2, <3>1, <3>2, NoAuth DEF SecurityNote
  <2>3. CASE ~Security.contains
    <3>1. Compared = SecurityNote
      BY <2>1, <2>3, DemandTerms DEF SecurityNote
    <3>. QED BY <2>3, <3>1
  <2>. QED BY <2>2, <2>3
<1>. QED BY <1>1, <1>2, <1>3 DEF AsksForClient, Guarded, Policy!NeedsClient

LEMMA VerdictFixed ==
  ASSUME UNCHANGED <<config, rq>>
  PROVE  /\ AsksForClient' = AsksForClient /\ Denied' = Denied /\ Lacking' = Lacking
         /\ Verdict' = Verdict /\ Policy!Identified' = Policy!Identified
<1>1. /\ Binding' = Binding
      /\ Policy!Identified' = Policy!Identified /\ Policy!NeedsClient' = Policy!NeedsClient
      /\ Policy!ServingRoutes' = Policy!ServingRoutes /\ Security' = Security
  BY DEF Binding, Noting, Policy!Serving, Policy!ServingRoutes, Policy!Identified,
         Policy!NeedsClient, Security
<1>2. Compared' = Compared /\ Admitted' = Admitted
  BY <1>1, PolicyFixed DEF Compared
<1>3. Excepted' = Excepted
  BY <1>1, <1>2 DEF Excepted
<1>4. AsksForClient' = AsksForClient
  BY <1>1 DEF AsksForClient
<1>5. Denied' = Denied /\ Lacking' = Lacking
  BY <1>1, <1>2, <1>3, <1>4 DEF Denied, Lacking
<1>. QED BY <1>1, <1>4, <1>5 DEF Verdict

\* A step that ends nothing, before the security filter, keeps Judging.
LEMMA JudgingFixed ==
  ASSUME pc' \in {"route", "jwt"} PROVE Judging'
  BY DEF Judging, VerdictReached, Ends

LEMMA JwtJudges ==
  ASSUME IInv, Jwt PROVE Judging'
<1>1. pc = "jwt" /\ Chosen /\ RouteNote(next) /\ Note /\ client = NoClient /\ Routing
  BY DEF Jwt, IInv, Routing, Chosen, Note
<1>2. /\ UNCHANGED <<config, rq, next>>
      /\ pc' \in {"security", "refused", "userInfo"}
  BY DEF Jwt
<1>3. IsSecurityRequest <=> Guarded
  BY <1>1, TestedTerms
<1>4. CASE pc' = "security"
  <2>1. SecurityNote' = SecurityNote /\ Guarded' = Guarded
    BY <1>1, <1>2, PolicyFixed, TestedNote, NoteFixed DEF Jwt
  <2>2. ASSUME rq.method # "OPTIONS", ~Guarded PROVE authorities' = SecurityNote
    <3>1. authorities' = Tested
      BY <2>2 DEF Jwt
    <3>. QED BY <1>1, <2>2, <3>1, TestedTerms DEF Guarded
  <2>. QED BY <1>2, <1>4, <2>1, <2>2 DEF Judging, VerdictReached, Ends
<1>5. CASE pc' = "userInfo"
  <2>1. rq.token \notin {NoToken, Malformed}
    BY <1>5 DEF Jwt
  <2>. QED BY <1>2, <1>5, <2>1 DEF Judging, VerdictReached, Ends
<1>6. CASE pc' = "refused"
  <2>1. /\ rq.method # "OPTIONS" /\ Guarded /\ rq.token # NoToken /\ rq.token \notin Clients
    BY <1>3, <1>6, TokenAssumption DEF Jwt
  <2>2. Policy!ServingRoutes # {} /\ (Screened <=> rq.path # ErrorPath)
    BY <1>1, <2>1, PolicyTerms
  <2>3. AsksForClient
    BY <1>1, <2>1, JudgedTerms
  <2>4. Denied
    BY <2>1, <2>2, <2>3 DEF Denied, Admitted, Policy!Identified
  <2>5. Verdict' = "refused"
    BY <1>2, <2>2, <2>4, VerdictFixed DEF Verdict
  <2>. QED BY <1>6, <2>5 DEF Judging, VerdictReached
<1>. QED BY <1>2, <1>4, <1>5, <1>6

LEMMA UserInfoJudges ==
  ASSUME IInv, Judging, UserInfo PROVE Judging'
<1>1. /\ pc = "userInfo" /\ Chosen /\ Routing /\ rq.method # "OPTIONS" /\ Guarded
      /\ config.method = "IDENTITY_SERVER" /\ rq.token \notin {NoToken, Malformed}
  BY DEF IInv, UserInfo, Filtering, Chosen, Judging
<1>2. UNCHANGED <<config, rq>> /\ pc' \in {"apiUser", "refused", "failed"}
  BY DEF UserInfo
<1>3. AsksForClient /\ Policy!ServingRoutes # {} /\ (Screened <=> rq.path # ErrorPath)
  BY <1>1, JudgedTerms, PolicyTerms
<1>4. CASE pc' = "apiUser"
  BY <1>1, <1>2, <1>4 DEF Judging, VerdictReached, Ends
<1>5. CASE pc' = "refused"
  <2>1. rq.token \notin Clients
    BY <1>5 DEF UserInfo
  <2>2. Denied
    BY <1>1, <1>3, <2>1 DEF Denied, Admitted, Policy!Identified
  <2>3. Verdict' = "refused"
    BY <1>2, <1>3, <2>2, VerdictFixed DEF Verdict
  <2>. QED BY <1>5, <2>3 DEF Judging, VerdictReached
<1>6. CASE pc' = "failed"
  <2>1. Broken'
    BY <1>1, <1>2, <1>3, <1>6, VerdictFixed DEF Broken
  <2>. QED BY <1>6, <2>1 DEF Judging, VerdictReached
<1>. QED BY <1>2, <1>4, <1>5, <1>6

LEMMA ApiUserJudges ==
  ASSUME IInv, Judging, ApiUser PROVE Judging'
<1>1. /\ pc = "apiUser" /\ Chosen /\ Routing /\ rq.method # "OPTIONS" /\ Guarded
      /\ config.method = "IDENTITY_SERVER" /\ rq.token \notin {NoToken, Malformed}
  BY DEF IInv, ApiUser, Filtering, Chosen, Judging
<1>2. UNCHANGED <<config, rq, next, authorities>> /\ pc' \in {"security", "failed"}
  BY DEF ApiUser
<1>3. AsksForClient
  BY <1>1, JudgedTerms
<1>4. CASE pc' = "security"
  BY <1>1, <1>2, <1>4, NoteFixed DEF Judging, VerdictReached, Ends
<1>5. CASE pc' = "failed"
  <2>1. Broken'
    BY <1>1, <1>2, <1>3, <1>5, VerdictFixed DEF Broken
  <2>. QED BY <1>5, <2>1 DEF Judging, VerdictReached
<1>. QED BY <1>2, <1>4, <1>5

\* The security filter denies exactly whom Denied says.
LEMMA SecurityJudges ==
  ASSUME IInv, Judging, SecurityFilter PROVE Judging'
<1>1. /\ pc = "security" /\ Chosen /\ Routing /\ Note
      /\ client # NoClient => rq.token \in Clients /\ client = rq.token
      /\ client # NoClient => rq.method # "OPTIONS" /\ Guarded
      /\ rq.method # "OPTIONS" /\ Guarded /\ client = NoClient => rq.token = NoToken
      /\ rq.method # "OPTIONS" /\ ~Guarded => authorities = SecurityNote
  BY DEF IInv, SecurityFilter, Filtering, Chosen, Judging
<1>2. UNCHANGED <<config, rq, client>> /\ pc' \in {"serve", "refused"}
  BY DEF SecurityFilter, ProcessAuth
<1>3. /\ Policy!ServingRoutes # {}
      /\ AsksForClient <=> rq.method # "OPTIONS" /\ Guarded
      /\ Screened <=> rq.method # "OPTIONS" /\ rq.path # ErrorPath /\ Guarded
      /\ Excepted <=> ~Guarded /\ HaveAuth(SecurityNote)
  BY <1>1, JudgedTerms, PolicyTerms
<1>4. client # NoClient <=> AsksForClient /\ Policy!Identified
  BY <1>1, <1>3, TokenAssumption DEF Policy!Identified
<1>5. pc' = "refused" <=> Denied
  <2>1. CASE rq.method = "OPTIONS" \/ rq.path = ErrorPath
    <3>1. pc' = "serve" /\ ~Screened
      BY <1>3, <2>1 DEF SecurityFilter
    <3>2. AsksForClient => rq.token \in Clients \cup {NoToken}
      BY <1>1, <1>3
    <3>. QED BY <2>1, <3>1, <3>2 DEF Denied, Admitted
  <2>2. CASE rq.method # "OPTIONS" /\ rq.path # ErrorPath /\ Guarded
    <3>1. IsSecurityRequest /\ Tested = Compared
      BY <1>1, <2>2, TestedTerms
    <3>2. pc' = ProcessAuth(Compared)
      BY <2>2, <3>1 DEF SecurityFilter
    <3>3. pc' = "refused" <=> ~(client # NoClient /\ Holds(Compared, AuthoritiesOf(client)))
      BY <3>2 DEF ProcessAuth
    <3>4. Admitted <=> client # NoClient /\ Holds(Compared, AuthoritiesOf(client))
      BY <1>1, <1>3, <1>4, <2>2, SameRules DEF Admitted
    <3>. QED BY <1>3, <2>2, <3>3, <3>4 DEF Denied
  <2>3. CASE rq.method # "OPTIONS" /\ rq.path # ErrorPath /\ ~Guarded
    <3>1. client = NoClient /\ authorities = SecurityNote
      BY <1>1, <2>3
    <3>2. IsSecurityRequest <=> HaveAuth(SecurityNote)
      BY <2>3, <3>1 DEF IsSecurityRequest, Guarded
    <3>3. pc' = "refused" <=> IsSecurityRequest
      BY <2>3, <3>1 DEF SecurityFilter, ProcessAuth
    <3>. QED BY <1>3, <2>3, <3>2, <3>3 DEF Denied, Admitted
  <2>. QED BY <2>1, <2>2, <2>3
<1>6. CASE pc' = "serve"
  BY <1>2, <1>4, <1>5, <1>6, VerdictFixed DEF Judging, VerdictReached, Ends
<1>7. CASE pc' = "refused"
  <2>1. Verdict' = "refused"
    BY <1>2, <1>3, <1>5, <1>7, VerdictFixed DEF Verdict
  <2>. QED BY <1>7, <2>1 DEF Judging, VerdictReached
<1>. QED BY <1>2, <1>6, <1>7

LEMMA ServeJudges ==
  ASSUME IInv, Judging, Serve PROVE Judging'
<1>1. /\ pc = "serve" /\ Chosen /\ Routing /\ ~Denied
      /\ client # NoClient <=> AsksForClient /\ Policy!Identified
  BY DEF IInv, Serve, Chosen, Judging
<1>2. /\ Policy!ServingRoutes # {}
      /\ Policy!NeedsClient <=> config.routes[next].own /\ config.routes[next].authorities
  BY <1>1, JudgedTerms
<1>3. /\ UNCHANGED <<config, rq>>
      /\ pc' = IF config.routes[next].own /\ config.routes[next].authorities /\ client = NoClient
               THEN "refused" ELSE "forwarded"
  BY DEF Serve
<1>4. pc' = Verdict
  BY <1>1, <1>2, <1>3 DEF Verdict, Lacking
<1>5. pc' = Verdict'
  BY <1>3, <1>4, VerdictFixed
<1>. QED BY <1>3, <1>5 DEF Judging, VerdictReached

LEMMA JudgingStep == IInv /\ Judging /\ [Next]_vars => Judging'
<1> SUFFICES ASSUME IInv, Judging, [Next]_vars PROVE Judging'
  OBVIOUS
<1>1. CASE TryRoute
  BY <1>1, JudgingFixed DEF TryRoute
<1>2. CASE NoRoute
  <2>1. Policy!ServingRoutes = {} /\ pc' = "notFound" /\ UNCHANGED <<config, rq>>
    BY <1>2, NotFoundFollows DEF NoRoute, Policy!NotFound
  <2>2. Verdict' = "notFound"
    BY <2>1, VerdictFixed DEF Verdict
  <2>. QED BY <2>1, <2>2 DEF Judging, VerdictReached
<1>3. CASE UNCHANGED vars
  <2>1. UNCHANGED <<config, rq, next, authorities, pc, client>>
    BY <1>3 DEF vars
  <2>. QED BY <2>1, VerdictFixed, NoteFixed, PolicyFixed DEF Judging, VerdictReached, Broken
<1>. QED BY <1>1, <1>2, <1>3, JwtJudges, UserInfoJudges, ApiUserJudges, SecurityJudges, ServeJudges DEF Next

\* What becomes of a request is a function of the configuration and the request
\* alone, Verdict, also where a leftover of a rejected route or of an exception
\* decides: the only thing that can turn out otherwise is a call of the identity
\* server that fails.  With ETH_JWT nothing can.
THEOREM VerdictIsFixed == Spec => []VerdictReached
<1>1. Init => Judging
  BY DEF Init, Judging, VerdictReached, Ends
<1>2. Judging => VerdictReached
  BY DEF Judging
<1>. QED BY <1>1, <1>2, JudgingStep, Invariant, PTL DEF Spec

\* authoritiesCheck of PathAuthorities: a client that holds more is refused no
\* more, in any mode and with any groups.
THEOREM MoreAuthorities ==
  ASSUME NEW pa, NEW held, NEW more, held \subseteq more, Holds(pa, held)
  PROVE  Holds(pa, more)
<1>1. \A g : GroupHeld(g, held) => GroupHeld(g, more)
  BY DEF GroupHeld
<1>. QED BY <1>1 DEF Holds
=============================================================================
