-------------------------- MODULE TokenValidation ---------------------------
(***************************************************************************)
(* Request validation: ValidationGatewayFilter asks FilterValidationService*)
(* for the validator of the request's type header, the validator's         *)
(* component looks the token up in ValidationUniqueTokenChecker and then   *)
(* has it verified (by Google, Apple, or its own signature check).         *)
(*                                                                         *)
(* The checker's tokenMap is a plain LinkedHashMap: a table that get and   *)
(* remove search, and a linked list of the entries, which alone the cleaner*)
(* walks.  Requests with the same hash exclude one another by a lock per   *)
(* hash; requests with different hashes, and the cleaner that runs every   *)
(* second, do not, and changes of the map that overlap may part the two.   *)
(***************************************************************************)
EXTENDS Integers, FiniteSets, Functions

CONSTANTS
    Requests,        \* slots for requests validated at the same time
    Tokens,          \* token texts
    Blank, Super,    \* two of them: no token, the configured super user token
    Hash(_),         \* String.hashCode of a token: not injective
    Types,           \* types some RequestValidator serves
    UnknownType,     \* any other value of the type header
    TwoChecks,       \* types whose checkInternal checks uniqueness again (Huawei)
    ServicePassed,   \* validation.always-passed
    ComponentPassed, \* types whose component is configured always-passed
    SuperEnabled,    \* super-token-enabled
    Ttl, ExpDelta,   \* uniqueTokenTTL and Huawei's expDelta, in ticks
    MaxTime, MaxCalls  \* bounds of the model

ASSUME TokenAssumption == {Blank, Super} \subseteq Tokens /\ Blank # Super
ASSUME TypeAssumption ==
    /\ UnknownType \notin Types
    /\ TwoChecks \subseteq Types
    /\ ComponentPassed \subseteq Types
ASSUME NumberAssumption == {Ttl, ExpDelta, MaxTime, MaxCalls} \subseteq Nat
ASSUME FlagAssumption == {ServicePassed, SuperEnabled} \subseteq BOOLEAN

VARIABLES
    now,       \* the clock
    tokenMap,  \* hash -> expiration, a partial function: what the table has
    listed,    \* those of its hashes that the linked list has, too
    torn,      \* changes of the map have overlapped: the list can be anything
    expired,   \* the cleaner's list of keys still to remove
    req,       \* the requests being validated
    calls,     \* requests so far
    put        \* history: every registration, [hash, until]

vars == <<now, tokenMap, listed, torn, expired, req, calls, put>>

Hashes == {Hash(t) : t \in Tokens}
\* LocalDateTime.MAX: after every date the model reaches.
MaxDate == MaxTime + Ttl + ExpDelta + 1
Dates == 0..MaxDate

Targets == {"OPTIONS", "open", "guarded"}
Steps == {"idle", "filter", "unique", "write", "decide", "verify", "forwarded", "refused"}

Request == [pc : Steps, target : Targets, type : Types \cup {UnknownType},
            token : Tokens, expDate : Dates, checks : 0..2, verified : BOOLEAN]

Idle == [pc |-> "idle", target |-> "open", type |-> UnknownType, token |-> Blank,
         expDate |-> 0, checks |-> 0, verified |-> FALSE]

TypeOK ==
    /\ now \in 0..MaxTime
    /\ DOMAIN tokenMap \subseteq Hashes
    /\ \A h \in DOMAIN tokenMap : tokenMap[h] \in Dates \ {MaxDate}
    /\ listed \subseteq DOMAIN tokenMap
    /\ torn \in BOOLEAN
    /\ ~torn => listed = DOMAIN tokenMap
    /\ expired \subseteq Hashes
    /\ req \in [Requests -> Request]
    /\ calls \in 0..MaxCalls
    /\ put \subseteq [hash : Hashes, until : Dates]

Init ==
    /\ now = 0
    /\ tokenMap = [h \in {} |-> 0]
    /\ listed = {}
    /\ torn = FALSE
    /\ expired = {}
    /\ req = [r \in Requests |-> Idle]
    /\ calls = 0
    /\ put = {}

Goto(r, step) == req' = [req EXCEPT ![r].pc = step]

-----------------------------------------------------------------------------
\* Of a request that is not guarded, type and token are never looked at.
Arrive(r, target, type, token) ==
    /\ calls < MaxCalls
    /\ req[r].pc = "idle"
    /\ target # "guarded" => type = UnknownType /\ token = Blank
    /\ calls' = calls + 1
    /\ req' = [req EXCEPT ![r] = [Idle EXCEPT !.pc = "filter", !.target = target,
                                              !.type = type, !.token = token]]
    /\ UNCHANGED <<now, tokenMap, listed, torn, expired, put>>

\* ValidationGatewayFilter.filter: OPTIONS and paths without validation go on.
NotGuarded(rq) == rq.target # "guarded"

\* FilterValidationService.check with alwaysPassed, then with no validator
\* for the type: both results say success = false.
Unserved(rq) == ServicePassed \/ rq.type = UnknownType

\* RequestValidationComponent.check before it looks at the token.
Waved(rq) ==
    \/ rq.type \in ComponentPassed
    \/ rq.token = Super /\ SuperEnabled

\* Mutant: a type nobody serves is let through.
Route_UnknownPasses(rq) ==
    IF NotGuarded(rq) \/ Unserved(rq) \/ Waved(rq) THEN "forwarded"
    ELSE IF rq.token = Blank THEN "refused" ELSE "unique"

Route(rq) ==
    IF NotGuarded(rq) THEN "forwarded"
    ELSE IF Unserved(rq) THEN "refused"
    ELSE IF Waved(rq) THEN "forwarded"
    ELSE IF rq.token = Blank THEN "refused"
    ELSE "unique"

Filter(r) ==
    /\ req[r].pc = "filter"
    /\ Goto(r, Route(req[r]))
    /\ UNCHANGED <<now, tokenMap, listed, torn, expired, calls, put>>

\* Mutant: the lock is kept between the two checks of one request.
Locked_WholeCheck(h) ==
    \E q \in Requests : /\ Hash(req[q].token) = h
                       /\ \/ req[q].pc \in {"write", "decide"}
                          \/ req[q].pc = "unique" /\ req[q].checks = 1

\* synchronizationService.before ... after: held from the read to the return.
Locked(h) == \E q \in Requests : req[q].pc \in {"write", "decide"} /\ Hash(req[q].token) = h

\* Mutant: an unknown hash counts as expired long ago.
ReadDate_Min(h) == IF h \in DOMAIN tokenMap THEN tokenMap[h] ELSE 0

\* isNotUnique: tokenMap[hashCode] ?: LocalDateTime.MAX
ReadDate(h) == IF h \in DOMAIN tokenMap THEN tokenMap[h] ELSE MaxDate

\* Another thread is in tokenMap.put, and may be resizing the table.
PutUnderWay(r) == \E q \in Requests \ {r} : req[q].pc = "write"

\* A read of a table that is being resized can miss the entry.
Read(r) ==
    /\ req[r].pc = "unique"
    /\ ~Locked(Hash(req[r].token))
    /\ LET date == ReadDate(Hash(req[r].token)) IN
       \E seen \in {date} \cup (IF PutUnderWay(r) THEN {MaxDate} ELSE {}) :
          req' = [req EXCEPT ![r].pc = "write", ![r].expDate = seen]
    /\ UNCHANGED <<now, tokenMap, listed, torn, expired, calls, put>>

\* Mutant: a registration never ends.
Lifetime_Unbounded(rq) == MaxDate

\* The second check of a Huawei token registers it for a little longer.
Lifetime(rq) == IF rq.checks = 1 THEN Ttl + ExpDelta ELSE Ttl

\* What a put can lose: two puts that resize the table at the same time, any
\* entry; one that races with a removal, its own.
MayVanish(r, h) == IF PutUnderWay(r) THEN DOMAIN tokenMap \cup {h}
                   ELSE IF expired # {} THEN {h} ELSE {}

\* Two insertions that read the same tail leave one entry, or with the wrong
\* tail every later one, out of the list, and removals from such a list can cut
\* off or bring back others.
Relinked == listed' \in IF torn' THEN SUBSET DOMAIN tokenMap' ELSE {DOMAIN tokenMap'}

\* tokenMap[hashCode] = now + ttl.  A put that finds its key leaves the list alone.
Write(r) ==
    /\ req[r].pc = "write"
    /\ LET h == Hash(req[r].token)
           until == now + Lifetime(req[r])
           overlaps == PutUnderWay(r) \/ expired # {}
       IN /\ put' = put \cup {[hash |-> h, until |-> until]}
          /\ \E lost \in SUBSET MayVanish(r, h) :
                tokenMap' = [k \in (DOMAIN tokenMap \cup {h}) \ lost |->
                                IF k = h THEN until ELSE tokenMap[k]]
          /\ torn' = (torn \/ overlaps)
          /\ IF h \in DOMAIN tokenMap /\ ~overlaps THEN UNCHANGED listed ELSE Relinked
    /\ Goto(r, "decide")
    /\ UNCHANGED <<now, expired, calls>>

\* "Unique" is answered when the date read lies in the future.
Accepts(expDate) == expDate > now

ChecksNeeded(type) == IF type \in TwoChecks THEN 2 ELSE 1

Decide(r) ==
    /\ req[r].pc = "decide"
    /\ IF Accepts(req[r].expDate)
       THEN req' = [req EXCEPT
                       ![r].pc = IF req[r].checks + 1 < ChecksNeeded(req[r].type)
                                 THEN "unique" ELSE "verify",
                       ![r].checks = @ + 1]
       ELSE Goto(r, "refused")
    /\ UNCHANGED <<now, tokenMap, listed, torn, expired, calls, put>>

\* The component's verdict on the token; an error counts as a failure.
Verify(r) ==
    /\ req[r].pc = "verify"
    /\ \E ok \in BOOLEAN :
          req' = [req EXCEPT ![r].pc = IF ok THEN "forwarded" ELSE "refused",
                             ![r].verified = ok]
    /\ UNCHANGED <<now, tokenMap, listed, torn, expired, calls, put>>

Finish(r) ==
    /\ req[r].pc \in {"forwarded", "refused"}
    /\ req' = [req EXCEPT ![r] = Idle]
    /\ UNCHANGED <<now, tokenMap, listed, torn, expired, calls, put>>

-----------------------------------------------------------------------------
(* The cleaner walks the list.  An insertion that it meets on its way makes *)
(* the scan throw and leave everything as it is: a stuttering step, so that *)
(* Undisturbed scans alone are sure to get through.                         *)

Overdue == {h \in DOMAIN tokenMap : tokenMap[h] < now}

\* On a torn list there can also be nodes of earlier puts that the table has
\* lost, with the dates they had.
Stale == SUBSET {p.hash : p \in {n \in put : torn /\ n.until < now}}

\* Mutant: the cleaner only works on a map of some size.
Scan_WhenLarge ==
    /\ expired = {}
    /\ Cardinality(DOMAIN tokenMap) > 1
    /\ \E stale \in Stale : expired' = (listed \cap Overdue) \cup stale
    /\ expired' # {}
    /\ UNCHANGED <<now, tokenMap, listed, torn, req, calls, put>>

Scan ==
    /\ expired = {}
    /\ \E stale \in Stale : expired' = (listed \cap Overdue) \cup stale
    /\ expired' # {}
    /\ UNCHANGED <<now, tokenMap, listed, torn, req, calls, put>>

Undisturbed == \A r \in Requests : req[r].pc # "write"

\* remove() by key, whatever its value is by now; a put that is resizing the
\* table can bring the entry back, on the list or off it.
Remove(h) ==
    /\ h \in expired
    /\ expired' = expired \ {h}
    /\ IF h \in DOMAIN tokenMap
       THEN /\ \/ tokenMap' = Restrict(tokenMap, DOMAIN tokenMap \ {h})
               \/ ~Undisturbed /\ UNCHANGED tokenMap
            /\ torn' = (torn \/ ~Undisturbed)
            /\ Relinked
       ELSE UNCHANGED <<tokenMap, listed, torn>>
    /\ UNCHANGED <<now, req, calls, put>>

Clean == Scan \/ \E h \in Hashes : Remove(h)

Tick ==
    /\ now < MaxTime
    /\ now' = now + 1
    /\ UNCHANGED <<tokenMap, listed, torn, expired, req, calls, put>>

Serve(r) == Filter(r) \/ Read(r) \/ Write(r) \/ Decide(r) \/ Verify(r) \/ Finish(r)

Next ==
    \/ Tick
    \/ Clean
    \/ \E r \in Requests :
          \/ Serve(r)
          \/ \E target \in Targets, type \in Types \cup {UnknownType}, token \in Tokens :
                Arrive(r, target, type, token)

Spec == Init /\ [][Next]_vars

\* The scheduler runs the cleaner every second, but a scan is owed only while
\* no put is under way; the removals of a scan go on.  Virtual threads run every
\* request; a lock is handed on when its holder returns (finally).
FairSpec ==
    /\ Spec
    /\ WF_vars((Undisturbed /\ Scan) \/ \E h \in Hashes : Remove(h))
    /\ \A r \in Requests : WF_vars(Serve(r))

-----------------------------------------------------------------------------
(* Properties.                                                              *)

\* A token is refused as "Not unique" only when its hash was registered before
\* and that registration is over: neither an unseen token nor, with two
\* requests, the cleaner and lost puts racing on the map, the second look of
\* the same request at a token it has just registered is turned away.
RefusedOnlyAfterExpiry ==
    [][\A r \in Requests :
          req[r].pc = "decide" /\ req'[r].pc = "refused"
             => \E p \in put : p.hash = Hash(req[r].token) /\ p.until <= now]_vars

\* A guarded request is forwarded only by configuration or after all its
\* uniqueness checks and a positive verdict.
VerifiedBeforeForward ==
    \A r \in Requests :
        req[r].pc = "forwarded" /\ req[r].target = "guarded" =>
            \/ Waved(req[r])
            \/ req[r].verified /\ req[r].checks = ChecksNeeded(req[r].type)

\* Entries the cleaner can see do not pile up: one that is overdue and on the
\* list is removed or renewed in the end, whatever removals and puts race with
\* the scan and whatever a torn list makes of it, unless it falls off the list.
\* What is off the list (only once changes have overlapped) has no such hope.
OverdueEventuallyCleared ==
    \A h \in Hashes : h \in listed \cap Overdue ~> h \notin listed \cap Overdue

\* Every request leaves the validation, whatever locks it waits for.
EveryRequestDecided ==
    \A r \in Requests : req[r].pc # "idle" ~> req[r].pc = "idle"

-----------------------------------------------------------------------------
(* What the documentation says and the code does not do.                    *)

\* "Not unique token": a token that was used and has not expired is refused.
ReplayRefused ==
    [][\A r \in Requests :
          /\ req[r].pc = "decide" /\ req[r].checks = 0 /\ req'[r].checks = 1
          => req[r].expDate = MaxDate]_vars
=============================================================================
