------------------------ MODULE TokenValidationProofs ------------------------
(***************************************************************************)
(* Proofs about TokenValidation, for any tokens, hash function, types and   *)
(* number of requests, and whatever the races on the map lose or bring      *)
(* back.                                                                    *)
(*                                                                          *)
(* Good says how far a request's checks are at each of its steps.  Dates    *)
(* come from registrations: those in the map (MapInv), and those a request  *)
(* has read from it (ReadInv).  The map may lose them, but nothing invents  *)
(* one.                                                                     *)
(*                                                                          *)
(* OneInside and ReadIsCurrent are about requests with one hash, which the  *)
(* semaphores serialise: at most one is past its read, and what it read is  *)
(* what the map has.  Left counts the steps of a request.                   *)
(***************************************************************************)
EXTENDS TokenValidation, TLAPS

Checked(q) == Waved(q) \/ (q.verified /\ q.checks = ChecksNeeded(q.type))

Good(q) ==
    /\ q.pc = "filter" => q.checks = 0
    /\ q.pc \in {"unique", "write", "decide"} => q.checks < ChecksNeeded(q.type)
    /\ q.pc = "verify" => q.checks = ChecksNeeded(q.type)
    /\ q.pc = "forwarded" /\ q.target = "guarded" => Checked(q)

\* Some registration in p, of the hash h, is until then.
Registered(p, h, until) == [hash |-> h, until |-> until] \in p

ReadFrom(p, q) ==
    q.pc \in {"write", "decide"} => q.expDate = MaxDate \/ Registered(p, Hash(q.token), q.expDate)

FlowInv == \A r \in Requests : Good(req[r])
MapInv == \A h \in DOMAIN tokenMap : Registered(put, h, tokenMap[h])
ReadInv == \A r \in Requests : ReadFrom(put, req[r])

IInv == TypeOK /\ FlowInv /\ MapInv /\ ReadInv

\* Until changes overlap, the list has what the table has.
ListOK ==
    /\ listed \subseteq DOMAIN tokenMap
    /\ torn \in BOOLEAN
    /\ ~torn => listed = DOMAIN tokenMap

LEMMA Constants ==
    /\ Blank \in Tokens /\ Super \in Tokens
    /\ Ttl \in Nat /\ ExpDelta \in Nat /\ MaxTime \in Nat /\ MaxCalls \in Nat
    /\ MaxDate \in Nat /\ MaxDate > MaxTime + Ttl + ExpDelta
    /\ \A t \in Tokens : Hash(t) \in Hashes
  BY TokenAssumption, NumberAssumption DEF MaxDate, Hashes

LEMMA IdleIsGood == Idle \in Request /\ Good(Idle) /\ Idle.pc = "idle"
  BY Constants DEF Idle, Request, Good, Targets, Steps, Dates

LEMMA InitIInv == Init => IInv
<1> SUFFICES ASSUME Init PROVE IInv
  OBVIOUS
<1>1. DOMAIN tokenMap = {}
  BY DEF Init
<1>2. \A r \in Requests : req[r] = Idle
  BY DEF Init
<1>3. TypeOK
  <2>1. ListOK
    BY <1>1, Zenon DEF Init, ListOK
  <2>2. now \in 0..MaxTime /\ calls \in 0..MaxCalls /\ req \in [Requests -> Request]
    BY Constants, IdleIsGood DEF Init
  <2>3. expired = {} /\ put = {}
    BY DEF Init
  <2> QED
    BY <1>1, <2>1, <2>2, <2>3 DEF TypeOK, ListOK
<1>4. FlowInv /\ ReadInv
  BY <1>2, IdleIsGood DEF FlowInv, ReadInv, ReadFrom
<1> QED
  BY <1>1, <1>3, <1>4 DEF IInv, MapInv

-----------------------------------------------------------------------------
(* One request's step.                                                      *)

LEMMA OneRequest ==
  ASSUME req \in [Requests -> Request], FlowInv, ReadInv, put \subseteq put',
         NEW r \in Requests, NEW q \in Request, req' = [req EXCEPT ![r] = q],
         Good(q), ReadFrom(put', q)
  PROVE  req' \in [Requests -> Request] /\ FlowInv' /\ ReadInv'
<1>1. /\ req' \in [Requests -> Request] /\ req'[r] = q
      /\ \A o \in Requests : o # r => req'[o] = req[o]
  OBVIOUS
<1>2. \A o \in Requests : ReadFrom(put', req[o])
  BY DEF ReadInv, ReadFrom, Registered
<1>3. \A o \in Requests : Good(req'[o]) /\ ReadFrom(put', req'[o])
  BY <1>1, <1>2 DEF FlowInv
<1>4. FlowInv' /\ ReadInv'
  BY <1>3 DEF FlowInv, ReadInv
<1> QED
  BY <1>1, <1>4

\* What a step keeps that only changes a request.
LEMMA RequestStep ==
  ASSUME IInv, NEW r \in Requests, NEW q \in Request, req' = [req EXCEPT ![r] = q],
         Good(q), ReadFrom(put, q), calls' \in 0..MaxCalls,
         UNCHANGED <<now, tokenMap, listed, torn, expired, put>>
  PROVE  IInv'
<1>1. req' \in [Requests -> Request] /\ FlowInv' /\ ReadInv'
  BY OneRequest DEF IInv, TypeOK
<1>2. TypeOK'
  BY <1>1 DEF IInv, TypeOK
<1>3. MapInv'
  BY DEF IInv, MapInv
<1> QED
  BY <1>1, <1>2, <1>3 DEF IInv

LEMMA RequestIs ==
  ASSUME IInv, NEW r \in Requests
  PROVE  /\ req[r] \in Request /\ req \in [Requests -> Request] /\ Good(req[r]) /\ ReadFrom(put, req[r])
         /\ now \in 0..MaxTime /\ calls \in 0..MaxCalls
         /\ req[r].checks \in 0..2 /\ req[r].token \in Tokens
  BY DEF IInv, TypeOK, FlowInv, ReadInv, Request

\* A request that goes on and changes nothing else.
LEMMA GotoStep ==
  ASSUME IInv, NEW r \in Requests, NEW step \in Steps, Goto(r, step),
         Good([req[r] EXCEPT !.pc = step]), step \notin {"write", "decide"},
         UNCHANGED <<now, tokenMap, listed, torn, expired, calls, put>>
  PROVE  IInv'
<1> DEFINE q == [req[r] EXCEPT !.pc = step]
<1>1. q \in Request /\ q.pc = step
  BY RequestIs DEF Request
<1>2. req' = [req EXCEPT ![r] = q]
  BY DEF Goto
<1>3. ReadFrom(put, q)
  BY <1>1 DEF ReadFrom
<1> HIDE DEF q
<1>4. calls' \in 0..MaxCalls
  BY RequestIs
<1> QED
  BY <1>1, <1>2, <1>3, <1>4, RequestStep DEF q

-----------------------------------------------------------------------------
(* The actions of a request.                                                *)

LEMMA ArriveOK ==
  ASSUME IInv, NEW r \in Requests, NEW target \in Targets,
         NEW type \in Types \cup {UnknownType}, NEW token \in Tokens,
         Arrive(r, target, type, token)
  PROVE  IInv'
<1> DEFINE q == [Idle EXCEPT !.pc = "filter", !.target = target, !.type = type, !.token = token]
<1>1. q \in Request /\ q.pc = "filter" /\ q.checks = 0
  BY IdleIsGood DEF Idle, Request, Steps
<1>2. Good(q) /\ ReadFrom(put, q)
  <2> HIDE DEF q
  <2> QED
    BY <1>1 DEF Good, ReadFrom
<1>3. /\ req' = [req EXCEPT ![r] = q]
      /\ UNCHANGED <<now, tokenMap, listed, torn, expired, put>>
  BY DEF Arrive
<1>4. calls' \in 0..MaxCalls
  BY RequestIs, Constants DEF Arrive
<1> HIDE DEF q
<1> QED
  BY <1>1, <1>2, <1>3, <1>4, RequestStep

LEMMA FilterOK == ASSUME IInv, NEW r \in Requests, Filter(r) PROVE IInv'
<1> DEFINE step == Route(req[r])
           q == [req[r] EXCEPT !.pc = step]
<1>1. req[r] \in Request /\ Good(req[r]) /\ req[r].pc = "filter"
  BY RequestIs DEF Filter
<1>2. step \in {"forwarded", "refused", "unique"} /\ step \in Steps
  BY DEF Route, Steps
<1>3. step = "forwarded" => req[r].target # "guarded" \/ Waved(req[r])
  BY DEF Route, NotGuarded
<1> HIDE DEF step
<1>4. /\ q.pc = step /\ q.checks = 0 /\ q.type = req[r].type
      /\ q.target = req[r].target /\ q.token = req[r].token
  BY <1>1 DEF Request, Good
<1>5. Waved(q) <=> Waved(req[r])
  BY <1>4 DEF Waved
<1> HIDE DEF q
<1>6. Good(q)
  <2>1. q.pc = "forwarded" /\ q.target = "guarded" => Checked(q)
    <3>1. q.pc = "forwarded" => step = "forwarded"
      BY <1>4
    <3>2. q.target = "guarded" => req[r].target = "guarded"
      BY <1>4
    <3> QED
      BY <1>3, <1>5, <3>1, <3>2, Zenon DEF Checked
  <2>2. 0 < ChecksNeeded(q.type)
    BY DEF ChecksNeeded
  <2>3. q.pc \notin {"filter", "write", "decide", "verify"}
    BY <1>2, <1>4
  <2> QED
    BY <1>4, <2>1, <2>2, <2>3 DEF Good
<1>7. Goto(r, step) /\ UNCHANGED <<now, tokenMap, listed, torn, expired, calls, put>>
  BY DEF Filter, step
<1> QED
  BY <1>2, <1>6, <1>7, GotoStep DEF q

LEMMA FinishOK == ASSUME IInv, NEW r \in Requests, Finish(r) PROVE IInv'
<1>1. ReadFrom(put, Idle) /\ calls' \in 0..MaxCalls
  BY IdleIsGood, RequestIs DEF ReadFrom, Finish
<1> QED
  BY <1>1, IdleIsGood, RequestStep DEF Finish

\* What is read is nothing, or was registered.
LEMMA ReadOK == ASSUME IInv, NEW r \in Requests, Read(r) PROVE IInv'
<1>1. PICK seen \in {ReadDate(Hash(req[r].token)), MaxDate} :
          req' = [req EXCEPT ![r].pc = "write", ![r].expDate = seen]
  BY DEF Read
<1>2. seen \in Dates /\ (seen = MaxDate \/ Registered(put, Hash(req[r].token), seen))
  BY <1>1, Constants DEF IInv, TypeOK, MapInv, ReadDate, Dates
<1> DEFINE q == [req[r] EXCEPT !.pc = "write", !.expDate = seen]
<1>3. req[r] \in Request /\ Good(req[r]) /\ req \in [Requests -> Request] /\ req[r].pc = "unique"
  BY RequestIs DEF Read
<1>4. /\ q \in Request /\ q.pc = "write" /\ q.expDate = seen /\ q.checks = req[r].checks
      /\ q.type = req[r].type /\ q.token = req[r].token
  BY <1>2, <1>3 DEF Request, Steps
<1>5. req' = [req EXCEPT ![r] = q]
  BY <1>1, <1>3
<1> HIDE DEF q
<1>6. Good(q) /\ ReadFrom(put, q)
  BY <1>2, <1>3, <1>4 DEF Good, ReadFrom
<1>7. calls' \in 0..MaxCalls /\ UNCHANGED <<now, tokenMap, listed, torn, expired, put>>
  BY RequestIs DEF Read
<1> QED
  BY <1>4, <1>5, <1>6, <1>7, RequestStep

LEMMA RelinkedOK ==
  ASSUME torn' \in BOOLEAN, Relinked PROVE ListOK'
  BY DEF Relinked, ListOK

LEMMA WriteKeepsList == ASSUME IInv, NEW r \in Requests, Write(r) PROVE ListOK'
<1> DEFINE h == Hash(req[r].token)
           until == now + Lifetime(req[r])
           overlaps == PutUnderWay(r) \/ expired # {}
<1>1. /\ \E lost \in SUBSET MayVanish(r, h) :
            tokenMap' = [k \in (DOMAIN tokenMap \cup {h}) \ lost |-> IF k = h THEN until ELSE tokenMap[k]]
      /\ torn' = (torn \/ overlaps)
      /\ IF h \in DOMAIN tokenMap /\ ~overlaps THEN UNCHANGED listed ELSE Relinked
  BY DEF Write
<1>2. ~overlaps => MayVanish(r, h) = {}
  BY DEF MayVanish
<1>3. ListOK
  BY DEF IInv, TypeOK, ListOK
<1>4. torn' \in BOOLEAN
  BY <1>1, <1>3, Zenon DEF ListOK
<1>5. CASE Relinked
  BY <1>4, <1>5, RelinkedOK
<1>6. CASE h \in DOMAIN tokenMap /\ ~overlaps /\ UNCHANGED listed
  <2>1. DOMAIN tokenMap' = DOMAIN tokenMap
    BY <1>1, <1>2, <1>6
  <2>2. torn' = torn
    BY <1>1, <1>3, <1>6, Zenon DEF ListOK
  <2> QED
    BY <1>3, <1>6, <2>1, <2>2 DEF ListOK
<1> QED
  BY <1>1, <1>5, <1>6

LEMMA WriteOK == ASSUME IInv, NEW r \in Requests, Write(r) PROVE IInv'
<1> DEFINE h == Hash(req[r].token)
           until == now + Lifetime(req[r])
           q == [req[r] EXCEPT !.pc = "decide"]
<1>1. /\ req[r] \in Request /\ req \in [Requests -> Request] /\ Good(req[r])
      /\ ReadFrom(put, req[r]) /\ req[r].pc = "write" /\ h \in Hashes
  BY RequestIs, Constants DEF Write
<1>2. until \in Dates \ {MaxDate}
  BY RequestIs, Constants DEF Lifetime, Dates
<1>3. PICK lost : tokenMap' = [k \in (DOMAIN tokenMap \cup {h}) \ lost |->
                                  IF k = h THEN until ELSE tokenMap[k]]
  BY DEF Write
<1>4. /\ put' = put \cup {[hash |-> h, until |-> until]}
      /\ UNCHANGED <<now, expired, calls>>
      /\ req' = [req EXCEPT ![r] = q]
  BY DEF Write, Goto
<1>5. /\ q \in Request /\ q.pc = "decide" /\ q.checks = req[r].checks
      /\ q.type = req[r].type /\ q.token = req[r].token /\ q.expDate = req[r].expDate
  BY <1>1 DEF Request, Steps
<1> HIDE DEF h, until, q
<1>6. Good(q) /\ ReadFrom(put', q) /\ put \subseteq put'
  BY <1>1, <1>4, <1>5 DEF Good, ReadFrom, Registered
<1>7. req' \in [Requests -> Request] /\ FlowInv' /\ ReadInv'
  BY <1>1, <1>4, <1>5, <1>6, OneRequest DEF IInv
<1>8. TypeOK'
  <2>1. /\ DOMAIN tokenMap' \subseteq Hashes
        /\ \A k \in DOMAIN tokenMap' : tokenMap'[k] \in Dates \ {MaxDate}
    BY <1>1, <1>2, <1>3 DEF IInv, TypeOK
  <2>2. put' \subseteq [hash : Hashes, until : Dates]
    BY <1>1, <1>2, <1>4 DEF IInv, TypeOK
  <2>3. ListOK'
    BY <1>1, WriteKeepsList
  <2> QED
    BY <1>4, <1>7, <2>1, <2>2, <2>3 DEF IInv, TypeOK, ListOK
<1>9. MapInv'
  BY <1>3, <1>4 DEF IInv, MapInv, Registered
<1> QED
  BY <1>7, <1>8, <1>9 DEF IInv

LEMMA DecideOK == ASSUME IInv, NEW r \in Requests, Decide(r) PROVE IInv'
<1> DEFINE n == req[r].checks + 1
           step == IF n < ChecksNeeded(req[r].type) THEN "unique" ELSE "verify"
<1>1. /\ req[r] \in Request /\ req \in [Requests -> Request] /\ Good(req[r]) /\ req[r].pc = "decide"
      /\ req[r].checks \in 0..2
      /\ UNCHANGED <<now, tokenMap, listed, torn, expired, calls, put>> /\ calls' \in 0..MaxCalls
  BY RequestIs DEF Decide
<1>2. CASE Accepts(req[r].expDate)
  <2> DEFINE q == [req[r] EXCEPT !.pc = step, !.checks = n]
  <2>1. ChecksNeeded(req[r].type) \in {1, 2} /\ req[r].checks < ChecksNeeded(req[r].type)
    BY <1>1 DEF ChecksNeeded, Good
  <2>2. n \in 0..2 /\ n <= ChecksNeeded(req[r].type) /\ step \in Steps
    BY <1>1, <2>1 DEF Steps
  <2>3. q \in Request /\ q.pc = step /\ q.checks = n /\ q.type = req[r].type
    BY <1>1, <2>2 DEF Request
  <2>4. Good(q) /\ ReadFrom(put, q)
    <3> HIDE DEF q
    <3> QED
      BY <2>1, <2>2, <2>3 DEF Good, ReadFrom
  <2>5. req' = [req EXCEPT ![r] = q]
    BY <1>1, <1>2 DEF Decide
  <2> HIDE DEF q
  <2> QED
    BY <1>1, <2>3, <2>4, <2>5, RequestStep
<1>3. CASE ~Accepts(req[r].expDate)
  <2> DEFINE q == [req[r] EXCEPT !.pc = "refused"]
  <2>1. q.pc = "refused"
    BY <1>1 DEF Request
  <2>2. Good(q)
    <3> HIDE DEF q
    <3> QED
      BY <2>1 DEF Good
  <2>3. Goto(r, "refused") /\ "refused" \in Steps
    BY <1>3 DEF Decide, Steps
  <2> QED
    BY <1>1, <2>2, <2>3, GotoStep
<1> QED
  BY <1>2, <1>3

LEMMA VerifyOK == ASSUME IInv, NEW r \in Requests, Verify(r) PROVE IInv'
<1>1. PICK ok \in BOOLEAN :
          req' = [req EXCEPT ![r].pc = IF ok THEN "forwarded" ELSE "refused", ![r].verified = ok]
  BY DEF Verify
<1> DEFINE q == [req[r] EXCEPT !.pc = IF ok THEN "forwarded" ELSE "refused", !.verified = ok]
<1>2. /\ req[r] \in Request /\ req \in [Requests -> Request] /\ Good(req[r]) /\ req[r].pc = "verify"
      /\ UNCHANGED <<now, tokenMap, listed, torn, expired, put>> /\ calls' \in 0..MaxCalls
  BY RequestIs DEF Verify
<1>3. /\ q \in Request /\ q.pc = (IF ok THEN "forwarded" ELSE "refused") /\ q.verified = ok
      /\ q.checks = req[r].checks /\ q.type = req[r].type
  BY <1>2 DEF Request, Steps
<1>4. req' = [req EXCEPT ![r] = q]
  BY <1>1, <1>2
<1> HIDE DEF q
<1>5. Good(q) /\ ReadFrom(put, q)
  BY <1>2, <1>3 DEF Good, Checked, ReadFrom
<1> QED
  BY <1>2, <1>3, <1>4, <1>5, RequestStep

-----------------------------------------------------------------------------
(* The cleaner and the clock.                                               *)

\* Entries only go away.
LEMMA CleanStep ==
  ASSUME IInv, UNCHANGED <<req, calls, put>>, now' \in 0..MaxTime, expired' \subseteq Hashes, ListOK',
         DOMAIN tokenMap' \subseteq DOMAIN tokenMap,
         \A h \in DOMAIN tokenMap' : tokenMap'[h] = tokenMap[h]
  PROVE  IInv'
<1>1. TypeOK'
  BY DEF IInv, TypeOK, ListOK
<1>2. FlowInv' /\ ReadInv'
  BY DEF IInv, FlowInv, ReadInv, ReadFrom
<1>3. MapInv'
  BY DEF IInv, MapInv
<1> QED
  BY <1>1, <1>2, <1>3 DEF IInv

LEMMA CleanOK == ASSUME IInv, Clean PROVE IInv'
<1>1. CASE Scan
  <2>1. PICK stale \in Stale : expired' = (listed \cap Overdue) \cup stale
    BY <1>1 DEF Scan
  <2>2. stale \subseteq Hashes
    BY DEF Stale, IInv, TypeOK
  <2>3. expired' \subseteq Hashes /\ now' \in 0..MaxTime
    BY <1>1, <2>1, <2>2 DEF Scan, Overdue, IInv, TypeOK
  <2>4. ListOK'
    BY <1>1 DEF Scan, ListOK, IInv, TypeOK
  <2> QED
    BY <1>1, <2>3, <2>4, CleanStep DEF Scan
<1>2. ASSUME NEW h \in Hashes, Remove(h) PROVE IInv'
  <2>1. expired' \subseteq Hashes /\ now' \in 0..MaxTime
    BY <1>2 DEF Remove, IInv, TypeOK
  <2>2. /\ DOMAIN tokenMap' \subseteq DOMAIN tokenMap
        /\ \A k \in DOMAIN tokenMap' : tokenMap'[k] = tokenMap[k]
    BY <1>2 DEF Remove, Restrict
  <2>3. ListOK'
    <3>1. ListOK
      BY DEF IInv, TypeOK, ListOK
    <3>2. CASE h \in DOMAIN tokenMap
      <4>1. torn' \in BOOLEAN
        BY <1>2, <3>1, <3>2, Zenon DEF Remove, ListOK
      <4> QED
        BY <1>2, <3>2, <4>1, RelinkedOK DEF Remove
    <3>3. CASE h \notin DOMAIN tokenMap
      BY <1>2, <3>1, <3>3 DEF Remove, ListOK
    <3> QED
      BY <3>2, <3>3
  <2> QED
    BY <1>2, <2>1, <2>2, <2>3, CleanStep DEF Remove
<1> QED
  BY <1>1, <1>2 DEF Clean

LEMMA TickOK == ASSUME IInv, Tick PROVE IInv'
<1>1. now' \in 0..MaxTime /\ expired' \subseteq Hashes /\ ListOK'
  BY Constants DEF Tick, IInv, TypeOK, ListOK
<1> QED
  BY <1>1, CleanStep DEF Tick

-----------------------------------------------------------------------------
(* The invariant, and what follows from it.                                 *)

LEMMA NextOK == IInv /\ [Next]_vars => IInv'
<1> SUFFICES ASSUME IInv, [Next]_vars PROVE IInv'
  OBVIOUS
<1>1. CASE Tick
  BY <1>1, TickOK
<1>2. CASE Clean
  BY <1>2, CleanOK
<1>3. ASSUME NEW r \in Requests, Serve(r) PROVE IInv'
  BY <1>3, FilterOK, ReadOK, WriteOK, DecideOK, VerifyOK, FinishOK DEF Serve
<1>4. ASSUME NEW r \in Requests, NEW target \in Targets, NEW type \in Types \cup {UnknownType},
             NEW token \in Tokens, Arrive(r, target, type, token)
      PROVE  IInv'
  BY <1>4, ArriveOK
<1>5. CASE UNCHANGED vars
  <2>1. now' \in 0..MaxTime /\ expired' \subseteq Hashes /\ ListOK'
    BY <1>5 DEF vars, IInv, TypeOK, ListOK
  <2> QED
    BY <1>5, <2>1, CleanStep DEF vars
<1> QED
  BY <1>1, <1>2, <1>3, <1>4, <1>5 DEF Next

LEMMA Invariant == Spec => []IInv
  BY InitIInv, NextOK, PTL DEF Spec

\* Whatever the races on tokenMap do, its entries are of known hashes and dates
\* that can come up, and requests are at known steps
\* (ValidationUniqueTokenChecker, RequestValidationComponent).
THEOREM TypeCorrect == Spec => []TypeOK
<1>1. IInv => TypeOK
  BY DEF IInv
<1> QED
  BY <1>1, Invariant, PTL

\* A guarded request is forwarded only by configuration, or after all the
\* uniqueness checks of its type and a positive verdict, for any number of
\* requests at a time (RequestValidationComponent.check).
THEOREM VerifiedCorrect == Spec => []VerifiedBeforeForward
<1>1. IInv => VerifiedBeforeForward
  BY DEF IInv, FlowInv, Good, Checked, VerifiedBeforeForward
<1> QED
  BY <1>1, Invariant, PTL

\* A token is refused as "Not unique" only if it, or another with its hash, was
\* registered and that registration is over, for any hash function and whatever
\* the map loses (ValidationUniqueTokenChecker.isNotUnique).
THEOREM RefusedCorrect == Spec => RefusedOnlyAfterExpiry
<1> DEFINE Refusal(r) == req[r].pc = "decide" /\ req'[r].pc = "refused"
           Over(r) == \E p \in put : p.hash = Hash(req[r].token) /\ p.until <= now
<1>1. IInv /\ [Next]_vars => [\A r \in Requests : Refusal(r) => Over(r)]_vars
  <2> SUFFICES ASSUME IInv, Next, NEW r \in Requests, Refusal(r) PROVE Over(r)
    OBVIOUS
  <2>1. /\ req[r] \in Request /\ req \in [Requests -> Request]
        /\ ReadFrom(put, req[r]) /\ now \in 0..MaxTime
        /\ req[r].expDate \in Nat
    BY RequestIs, Constants DEF Request, Dates
  <2>2. Decide(r)
    <3>1. req' # req
      OBVIOUS
    <3>2. ASSUME NEW o \in Requests, NEW rec, req' = [req EXCEPT ![o] = rec] PROVE o = r
      BY <2>1, <3>2
    <3>3. PICK o \in Requests : Serve(o) \/ \E target \in Targets, type \in Types \cup {UnknownType},
                                               token \in Tokens : Arrive(o, target, type, token)
      BY <3>1 DEF Next, Tick, Clean, Scan, Remove
    <3>4. \E rec : req' = [req EXCEPT ![o] = rec]
      BY <2>1, <3>3 DEF Serve, Filter, Read, Write, Decide, Verify, Finish, Arrive, Goto
    <3>5. o = r
      BY <3>2, <3>4
    <3>6. ~Write(r)
      BY <2>1 DEF Write
    <3> QED
      BY <3>3, <3>5, <3>6 DEF Serve, Filter, Read, Verify, Finish, Arrive
  <2>3. ~Accepts(req[r].expDate)
    <3>1. CASE Accepts(req[r].expDate)
      <4> DEFINE step == IF req[r].checks + 1 < ChecksNeeded(req[r].type) THEN "unique" ELSE "verify"
      <4>1. req' = [req EXCEPT ![r].pc = step, ![r].checks = @ + 1] /\ step # "refused"
        BY <2>2, <3>1 DEF Decide
      <4> HIDE DEF step
      <4>2. req'[r].pc = step
        BY <2>1, <4>1 DEF Request
      <4> QED
        BY <4>1, <4>2
    <3> QED
      BY <3>1
  <2>4. req[r].expDate <= now /\ req[r].expDate # MaxDate
    BY <2>1, <2>3, Constants DEF Accepts
  <2>5. Registered(put, Hash(req[r].token), req[r].expDate)
    BY <2>1, <2>4 DEF ReadFrom
  <2> QED
    BY <2>4, <2>5 DEF Registered
<1> QED
  BY <1>1, Invariant, PTL DEF Spec, RefusedOnlyAfterExpiry
-----------------------------------------------------------------------------
(* The lock of a hash, from the read to the return, and what it is good     *)
(* for: nobody else registers the hash in between.                          *)

Inside(r) == req[r].pc \in {"write", "decide"}

OneInside ==
    \A r, q \in Requests :
        Inside(r) /\ Inside(q) /\ Hash(req[r].token) = Hash(req[q].token) => r = q

\* The date a request has read and is about to replace is the one in the map.
\* (The entry may be lost or removed meanwhile; a read may have missed it.)
ReadIsCurrent ==
    \A r \in Requests :
        LET h == Hash(req[r].token) IN
        req[r].pc = "write" /\ h \in DOMAIN tokenMap =>
            req[r].expDate = tokenMap[h] \/ req[r].expDate = MaxDate

\* What a step of one request does to the others, and to its own place.
LEMMA OthersStay ==
  ASSUME IInv, NEW r \in Requests, Serve(r)
  PROVE  \A q \in Requests \ {r} : req'[q] = req[q]
<1>1. req \in [Requests -> Request]
  BY RequestIs
<1> QED
  BY <1>1 DEF Serve, Filter, Read, Write, Decide, Verify, Finish, Goto

\* A step by which no request comes in keeps the lock's promise.
LEMMA NobodyEnters ==
  ASSUME OneInside,
         \A r \in Requests : Inside(r)' => Inside(r) /\ req'[r].token = req[r].token
  PROVE  OneInside'
  BY DEF OneInside, Inside

LEMMA ReadEffect ==
  ASSUME IInv, NEW r \in Requests, Read(r)
  PROVE  /\ req'[r].pc = "write" /\ req'[r].token = req[r].token
         /\ \/ req'[r].expDate = ReadDate(Hash(req[r].token))
            \/ req'[r].expDate = MaxDate
         /\ \A q \in Requests : Inside(q) => Hash(req[q].token) # Hash(req[r].token)
         /\ UNCHANGED tokenMap
<1>1. req \in [Requests -> Request] /\ req[r] \in Request
  BY RequestIs
<1>2. PICK seen \in {ReadDate(Hash(req[r].token)), MaxDate} :
         req' = [req EXCEPT ![r].pc = "write", ![r].expDate = seen]
  BY DEF Read
<1> QED
  BY <1>1, <1>2 DEF Read, Locked, Inside, Request

\* How the other steps of a request leave or stay inside.
LEMMA Leaves ==
  ASSUME IInv, NEW r \in Requests, Serve(r), ~Read(r)
  PROVE  /\ Inside(r)' => Write(r) /\ req'[r].pc = "decide" /\ req'[r].token = req[r].token
         /\ ~Write(r) => UNCHANGED tokenMap
<1>1. req \in [Requests -> Request] /\ req[r] \in Request
  BY RequestIs
<1>2. CASE Filter(r)
  BY <1>1, <1>2 DEF Filter, Goto, Route, Inside, Request
<1>3. CASE Write(r)
  BY <1>1, <1>3 DEF Write, Goto, Inside, Request
<1>4. CASE Decide(r)
  <2>1. CASE Accepts(req[r].expDate)
    <3> DEFINE step == IF req[r].checks + 1 < ChecksNeeded(req[r].type) THEN "unique" ELSE "verify"
    <3>1. req' = [req EXCEPT ![r].pc = step, ![r].checks = @ + 1] /\ step \notin {"write", "decide"}
      BY <1>4, <2>1 DEF Decide
    <3> HIDE DEF step
    <3>2. req'[r].pc = step
      BY <1>1, <3>1 DEF Request
    <3> QED
      BY <1>4, <3>1, <3>2 DEF Inside, Decide
  <2>2. CASE ~Accepts(req[r].expDate)
    BY <1>1, <1>4, <2>2 DEF Decide, Goto, Inside, Request
  <2> QED
    BY <2>1, <2>2
<1>5. CASE Verify(r)
  BY <1>1, <1>5 DEF Verify, Inside, Request
<1>6. CASE Finish(r)
  BY <1>1, <1>6 DEF Finish, Idle, Inside, Request
<1> QED
  BY <1>2, <1>3, <1>4, <1>5, <1>6 DEF Serve

LEMMA ArriveOutside ==
  ASSUME IInv, NEW r \in Requests, NEW target, NEW type, NEW token, Arrive(r, target, type, token)
  PROVE  /\ ~Inside(r)' /\ \A q \in Requests \ {r} : req'[q] = req[q]
         /\ UNCHANGED tokenMap
<1>1. req \in [Requests -> Request]
  BY RequestIs
<1> QED
  BY <1>1 DEF Arrive, Inside, Idle

\* Dates of the map that a step leaves are those that were there.
Fewer == DOMAIN tokenMap' \subseteq DOMAIN tokenMap /\ \A h \in DOMAIN tokenMap' : tokenMap'[h] = tokenMap[h]

LEMMA InsideStep == IInv /\ OneInside /\ [Next]_vars => OneInside'
<1> SUFFICES ASSUME IInv, OneInside, [Next]_vars PROVE OneInside'
  OBVIOUS
<1>1. ASSUME NEW r \in Requests, Serve(r), ~Read(r) PROVE OneInside'
  <2>1. \A q \in Requests \ {r} : req'[q] = req[q]
    BY <1>1, OthersStay
  <2>2. Inside(r)' => Inside(r) /\ req'[r].token = req[r].token
    BY <1>1, Leaves DEF Inside, Write
  <2> QED
    BY <2>1, <2>2, NobodyEnters DEF Inside
<1>2. ASSUME NEW r \in Requests, Read(r) PROVE OneInside'
  <2>1. \A q \in Requests \ {r} : req'[q] = req[q]
    BY <1>2, OthersStay DEF Serve
  <2>2. /\ req'[r].token = req[r].token
        /\ \A q \in Requests : Inside(q) => Hash(req[q].token) # Hash(req[r].token)
    BY <1>2, ReadEffect
  <2> QED
    BY <2>1, <2>2 DEF OneInside, Inside
<1>3. ASSUME NEW r \in Requests, NEW target, NEW type, NEW token, Arrive(r, target, type, token)
      PROVE  OneInside'
  BY <1>3, ArriveOutside, NobodyEnters DEF Inside
<1>4. CASE UNCHANGED req
  BY <1>4 DEF OneInside, Inside
<1> QED
  BY <1>1, <1>2, <1>3, <1>4 DEF Next, Serve, Tick, Clean, Scan, Remove, vars

LEMMA CurrentStep == IInv /\ OneInside /\ ReadIsCurrent /\ [Next]_vars => ReadIsCurrent'
<1> SUFFICES ASSUME IInv, OneInside, ReadIsCurrent, [Next]_vars PROVE ReadIsCurrent'
  OBVIOUS
<1>1. ASSUME \A q \in Requests : req'[q].pc = "write" => req'[q] = req[q], Fewer PROVE ReadIsCurrent'
  BY <1>1 DEF ReadIsCurrent, Fewer
<1>2. ASSUME NEW r \in Requests, Serve(r), ~Read(r), ~Write(r) PROVE ReadIsCurrent'
  <2>1. \A q \in Requests : req'[q].pc = "write" => req'[q] = req[q]
    BY <1>2, OthersStay, Leaves DEF Inside
  <2>2. Fewer
    BY <1>2, Leaves DEF Fewer
  <2> QED
    BY <1>1, <2>1, <2>2
<1>3. ASSUME NEW r \in Requests, Read(r) PROVE ReadIsCurrent'
  <2>1. \A q \in Requests \ {r} : req'[q] = req[q]
    BY <1>3, OthersStay DEF Serve
  <2>2. /\ req'[r].token = req[r].token /\ UNCHANGED tokenMap
        /\ req'[r].expDate = ReadDate(Hash(req[r].token)) \/ req'[r].expDate = MaxDate
    BY <1>3, ReadEffect
  <2>3. Hash(req[r].token) \in DOMAIN tokenMap =>
           req'[r].expDate = tokenMap[Hash(req[r].token)] \/ req'[r].expDate = MaxDate
    BY <2>2 DEF ReadDate
  <2> QED
    BY <2>1, <2>2, <2>3 DEF ReadIsCurrent
<1>4. ASSUME NEW r \in Requests, Write(r) PROVE ReadIsCurrent'
  <2> DEFINE mine == Hash(req[r].token)
             until == now + Lifetime(req[r])
  <2>1. req'[r].pc = "decide" /\ \A q \in Requests \ {r} : req'[q] = req[q]
    BY <1>4, OthersStay, RequestIs DEF Serve, Write, Goto, Request
  <2>2. PICK lost : tokenMap' = [k \in (DOMAIN tokenMap \cup {mine}) \ lost |->
                                    IF k = mine THEN until ELSE tokenMap[k]]
    BY <1>4 DEF Write
  <2>3. \A h \in DOMAIN tokenMap' : h # mine => h \in DOMAIN tokenMap /\ tokenMap'[h] = tokenMap[h]
    BY <2>2
  <2>4. ASSUME NEW q \in Requests, req'[q].pc = "write"
        PROVE  req'[q] = req[q] /\ Hash(req[q].token) # mine
    <3>1. q # r /\ req'[q] = req[q] /\ Inside(q) /\ Inside(r)
      BY <1>4, <2>1, <2>4 DEF Inside, Write
    <3> QED
      BY <3>1 DEF OneInside
  <2> HIDE DEF mine
  <2> QED
    BY <2>3, <2>4 DEF ReadIsCurrent
<1>5. ASSUME NEW r \in Requests, NEW target, NEW type, NEW token, Arrive(r, target, type, token)
      PROVE  ReadIsCurrent'
  <2>1. \A q \in Requests : req'[q].pc = "write" => req'[q] = req[q]
    BY <1>5, ArriveOutside DEF Inside
  <2>2. Fewer
    BY <1>5, ArriveOutside DEF Fewer
  <2> QED
    BY <1>1, <2>1, <2>2
<1>6. CASE Clean
  <2>1. UNCHANGED req /\ Fewer
    <3>1. CASE Scan
      BY <3>1 DEF Scan, Fewer
    <3>2. ASSUME NEW h \in Hashes, Remove(h) PROVE UNCHANGED req /\ Fewer
      BY <3>2 DEF Remove, Fewer, Restrict
    <3> QED
      BY <1>6, <3>1, <3>2 DEF Clean
  <2> QED
    BY <1>1, <2>1
<1>7. CASE Tick \/ UNCHANGED vars
  BY <1>1, <1>7 DEF Tick, vars, Fewer
<1> QED
  BY <1>2, <1>3, <1>4, <1>5, <1>6, <1>7 DEF Next

LEMMA InsideInit == Init => OneInside /\ ReadIsCurrent
<1> SUFFICES ASSUME Init PROVE OneInside /\ ReadIsCurrent
  OBVIOUS
<1>1. \A r \in Requests : req[r].pc = "idle"
  BY DEF Init, Idle
<1> QED
  BY <1>1 DEF OneInside, Inside, ReadIsCurrent

\* Two requests whose tokens have the same hash never are between the read and
\* the return of isNotUnique at the same time, whatever their types and however
\* often each of them checks (SynchronizationService.before and after).
THEOREM HashesAreExclusive == Spec => []OneInside
  BY InsideStep, InsideInit, Invariant, PTL DEF Spec

\* What isNotUnique has read is not stale when it replaces it: until then the
\* map has that date for the hash, or none any more; no second request with the
\* hash, and neither the cleaner nor a put that races on the map, has put in
\* another.  (A read that a put disturbs may have missed it: LocalDateTime.MAX.)
THEOREM ReadNotStale == Spec => []ReadIsCurrent
  BY CurrentStep, InsideInit, HashesAreExclusive, Invariant, PTL DEF Spec
-----------------------------------------------------------------------------
(* How far a request has to go.                                             *)

\* How many steps a request has left at most; three for each check.
Left(q) ==
    CASE q.pc = "idle" -> 0
      [] q.pc \in {"forwarded", "refused"} -> 1
      [] q.pc = "verify" -> 2
      [] q.pc = "decide" -> 3 * (ChecksNeeded(q.type) - q.checks)
      [] q.pc = "write" -> 3 * (ChecksNeeded(q.type) - q.checks) + 1
      [] q.pc = "unique" -> 3 * (ChecksNeeded(q.type) - q.checks) + 2
      [] OTHER -> 9

\* No step leads a request back.
Onward ==
    [][\A r \in Requests :
          req[r].pc # "idle" =>
              req'[r] = req[r] \/ (Left(req'[r]) \in Nat /\ Left(req'[r]) < Left(req[r]))]_vars

LEMMA ChecksNumber == \A type : ChecksNeeded(type) \in {1, 2}
  BY DEF ChecksNeeded

LEMMA ServeOnward ==
  ASSUME IInv, NEW r \in Requests, Serve(r)
  PROVE  Left(req'[r]) \in Nat /\ Left(req'[r]) < Left(req[r])
<1> DEFINE need == ChecksNeeded(req[r].type)
<1>1. /\ req \in [Requests -> Request] /\ req[r] \in Request /\ Good(req[r])
      /\ req[r].checks \in 0..2
  BY RequestIs
<1>2. need \in {1, 2}
  BY ChecksNumber
<1>3. CASE Filter(r)
  <2>1. /\ req[r].pc = "filter" /\ req'[r].pc \in {"forwarded", "refused", "unique"}
        /\ req'[r].checks = 0 /\ req'[r].type = req[r].type
    BY <1>1, <1>3 DEF Filter, Goto, Route, Good, Request
  <2>2. Left(req[r]) = 9
    BY <2>1 DEF Left
  <2>3. Left(req'[r]) = 1 \/ Left(req'[r]) = 3 * (need - 0) + 2
    BY <2>1 DEF Left
  <2> HIDE DEF need
  <2> QED
    BY <1>2, <2>2, <2>3
<1>4. CASE Read(r)
  <2>1. /\ req[r].pc = "unique" /\ req'[r].pc = "write"
        /\ req'[r].checks = req[r].checks /\ req'[r].type = req[r].type
    BY <1>1, <1>4 DEF Read, Request
  <2>2. req[r].checks < need
    BY <1>1, <2>1 DEF Good
  <2>3. /\ Left(req[r]) = 3 * (need - req[r].checks) + 2
        /\ Left(req'[r]) = 3 * (need - req[r].checks) + 1
    BY <2>1 DEF Left
  <2> HIDE DEF need
  <2> QED
    BY <1>1, <1>2, <2>2, <2>3
<1>5. CASE Write(r)
  <2>1. /\ req[r].pc = "write" /\ req'[r].pc = "decide"
        /\ req'[r].checks = req[r].checks /\ req'[r].type = req[r].type
    BY <1>1, <1>5 DEF Write, Goto, Request
  <2>2. req[r].checks < need
    BY <1>1, <2>1 DEF Good
  <2>3. /\ Left(req[r]) = 3 * (need - req[r].checks) + 1
        /\ Left(req'[r]) = 3 * (need - req[r].checks)
    BY <2>1 DEF Left
  <2> HIDE DEF need
  <2> QED
    BY <1>1, <1>2, <2>2, <2>3
<1>6. CASE Decide(r)
  <2>1. req[r].pc = "decide" /\ req[r].checks < need
    BY <1>1, <1>6 DEF Decide, Good
  <2>2. Left(req[r]) = 3 * (need - req[r].checks)
    BY <2>1 DEF Left
  <2>3. CASE Accepts(req[r].expDate)
    <3> DEFINE step == IF req[r].checks + 1 < need THEN "unique" ELSE "verify"
    <3>1. req' = [req EXCEPT ![r].pc = step, ![r].checks = @ + 1]
      BY <1>6, <2>3 DEF Decide
    <3> HIDE DEF step
    <3>2. /\ req'[r].pc = step /\ req'[r].checks = req[r].checks + 1
          /\ req'[r].type = req[r].type
      BY <1>1, <3>1 DEF Request
    <3>3. CASE req[r].checks + 1 < need
      <4>1. Left(req'[r]) = 3 * (need - (req[r].checks + 1)) + 2
        BY <3>2, <3>3 DEF Left, step
      <4> HIDE DEF need
      <4> QED
        BY <1>1, <1>2, <2>1, <2>2, <4>1
    <3>4. CASE ~(req[r].checks + 1 < need)
      <4>1. Left(req'[r]) = 2
        BY <3>2, <3>4 DEF Left, step
      <4> HIDE DEF need
      <4> QED
        BY <1>1, <1>2, <2>1, <2>2, <4>1
    <3> QED
      BY <3>3, <3>4
  <2>4. CASE ~Accepts(req[r].expDate)
    <3>1. req'[r].pc = "refused"
      BY <1>1, <1>6, <2>4 DEF Decide, Goto, Request
    <3>2. Left(req'[r]) = 1
      BY <3>1 DEF Left
    <3> HIDE DEF need
    <3> QED
      BY <1>1, <1>2, <2>1, <2>2, <3>2
  <2> QED
    BY <2>3, <2>4
<1>7. CASE Verify(r)
  <2>1. req[r].pc = "verify" /\ req'[r].pc \in {"forwarded", "refused"}
    BY <1>1, <1>7 DEF Verify, Request
  <2> QED
    BY <2>1 DEF Left
<1>8. CASE Finish(r)
  BY <1>1, <1>8 DEF Finish, Idle, Left
<1> QED
  BY <1>3, <1>4, <1>5, <1>6, <1>7, <1>8 DEF Serve

\* However many requests are validated at once, none is ever led back, by a
\* second check (Huawei) or otherwise: after its arrival a request takes at most
\* nine steps of its own, and other requests, the cleaner and the clock only
\* leave it where it is (ValidationGatewayFilter.filter).
THEOREM RequestsGoOnward == Spec => Onward
<1> DEFINE Nearer(r) == req'[r] = req[r] \/ (Left(req'[r]) \in Nat /\ Left(req'[r]) < Left(req[r]))
<1>1. IInv /\ [Next]_vars => [\A r \in Requests : req[r].pc # "idle" => Nearer(r)]_vars
  <2> SUFFICES ASSUME IInv, Next, NEW r \in Requests, req[r].pc # "idle" PROVE Nearer(r)
    OBVIOUS
  <2>1. ASSUME NEW o \in Requests, Serve(o) PROVE Nearer(r)
    BY <2>1, ServeOnward, OthersStay
  <2>2. ASSUME NEW o \in Requests, NEW target, NEW type, NEW token, Arrive(o, target, type, token)
        PROVE  Nearer(r)
    BY <2>2, ArriveOutside DEF Arrive
  <2>3. CASE UNCHANGED req
    BY <2>3
  <2> QED
    BY <2>1, <2>2, <2>3 DEF Next, Tick, Clean, Scan, Remove
<1> QED
  BY <1>1, Invariant, PTL DEF Spec, Onward
=============================================================================
