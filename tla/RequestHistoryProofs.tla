------------------------ MODULE RequestHistoryProofs ------------------------
(***************************************************************************)
(* The history of requests, for any number of requests and clients and for *)
(* every place of the filter that saves them: the safety properties of     *)
(* RequestHistory are consequences of an inductive invariant of three      *)
(* parts.  InfoInv: when the attribute with the save is set.  CountInv:    *)
(* how many saves a request has, given that.  RowsInv: what waits to be    *)
(* written to a row and what is written, given where the request is.       *)
(*                                                                         *)
(* Two more results rest on it: a request has ever fewer steps before it   *)
(* (Left), and a save is dropped only with the request that waits for it   *)
(* (Dropped).                                                              *)
(***************************************************************************)
EXTENDS RequestHistory, TLAPS

\* The request is saved before its client is added.
Early(o) == o < 11

-----------------------------------------------------------------------------
(* The filters in their order.                                              *)

LEMMA Orders == rqOrder \in RqOrders => rqOrder \in Int \ {10, 11, 20} /\ rqOrder < 40
  BY OrderAssumption

LEMMA BehindIs ==
  ASSUME rqOrder \in RqOrders, NEW order \in Int, NEW f \in Filters,
         Place(f) > order,
         \A g \in Filters : Place(g) > order => g = f \/ Place(f) < Place(g)
  PROVE  Behind(order) = f
  <1> DEFINE B(h) == /\ h \in Filters
                     /\ Place(h) > order
                     /\ \A g \in Filters : Place(g) > order => Place(h) <= Place(g)
  <1>1. \A g \in Filters : Place(g) \in Int
    BY Orders DEF Filters, Place
  <1>2. B(f)
    BY <1>1
  <1>3. \A h : B(h) => h = f
    BY <1>1, <1>2
  <1>4. Behind(order) = CHOOSE h : B(h)
    BY DEF Behind
  <1> QED
    BY <1>2, <1>3, <1>4

LEMMA FirstIs ==
  ASSUME rqOrder \in RqOrders, NEW f \in Filters,
         \A g \in Filters : g = f \/ Place(f) < Place(g)
  PROVE  FirstFilter = f
  <1> DEFINE B(h) == h \in Filters /\ \A g \in Filters : Place(h) <= Place(g)
  <1>1. \A g \in Filters : Place(g) \in Int
    BY Orders DEF Filters, Place
  <1>2. B(f)
    BY <1>1
  <1>3. \A h : B(h) => h = f
    BY <1>1, <1>2
  <1>4. FirstFilter = CHOOSE h : B(h)
    BY DEF FirstFilter
  <1> QED
    BY <1>2, <1>3, <1>4

LEMMA FilterOrder ==
  ASSUME rqOrder \in RqOrders
  PROVE  /\ FirstFilter = IF Early(rqOrder) THEN "rq" ELSE "jwt"
         /\ Behind(rqOrder) = IF Early(rqOrder) THEN "jwt" ELSE IF rqOrder < 20 THEN "security" ELSE "proxy"
         /\ Behind(10) = "auth"
         /\ Behind(11) = IF ~Early(rqOrder) /\ rqOrder < 20 THEN "rq" ELSE "security"
         /\ Behind(20) = IF rqOrder > 20 THEN "rq" ELSE "proxy"
  <1>0. /\ rqOrder \in Int \ {10, 11, 20} /\ rqOrder < 40
        /\ Place("rq") = rqOrder /\ Place("jwt") = 10 /\ Place("auth") = 11
        /\ Place("security") = 20 /\ Place("proxy") = 40
    BY Orders DEF Place
  <1>1. CASE rqOrder < 11
    <2>1. FirstFilter = "rq"
      BY FirstIs, <1>0, <1>1 DEF Filters
    <2>2. Behind(rqOrder) = "jwt"
      BY BehindIs, <1>0, <1>1 DEF Filters
    <2>3. Behind(10) = "auth"
      BY BehindIs, <1>0, <1>1 DEF Filters
    <2>4. Behind(11) = "security"
      BY BehindIs, <1>0, <1>1 DEF Filters
    <2>5. Behind(20) = "proxy"
      BY BehindIs, <1>0, <1>1 DEF Filters
    <2> QED
      BY <1>0, <1>1, <2>1, <2>2, <2>3, <2>4, <2>5 DEF Early
  <1>2. CASE rqOrder > 11 /\ rqOrder < 20
    <2>1. FirstFilter = "jwt"
      BY FirstIs, <1>0, <1>2 DEF Filters
    <2>2. Behind(rqOrder) = "security"
      BY BehindIs, <1>0, <1>2 DEF Filters
    <2>3. Behind(10) = "auth"
      BY BehindIs, <1>0, <1>2 DEF Filters
    <2>4. Behind(11) = "rq"
      BY BehindIs, <1>0, <1>2 DEF Filters
    <2>5. Behind(20) = "proxy"
      BY BehindIs, <1>0, <1>2 DEF Filters
    <2> QED
      BY <1>0, <1>2, <2>1, <2>2, <2>3, <2>4, <2>5 DEF Early
  <1>3. CASE rqOrder > 20
    <2>1. FirstFilter = "jwt"
      BY FirstIs, <1>0, <1>3 DEF Filters
    <2>2. Behind(rqOrder) = "proxy"
      BY BehindIs, <1>0, <1>3 DEF Filters
    <2>3. Behind(10) = "auth"
      BY BehindIs, <1>0, <1>3 DEF Filters
    <2>4. Behind(11) = "security"
      BY BehindIs, <1>0, <1>3 DEF Filters
    <2>5. Behind(20) = "rq"
      BY BehindIs, <1>0, <1>3 DEF Filters
    <2> QED
      BY <1>0, <1>3, <2>1, <2>2, <2>3, <2>4, <2>5 DEF Early
  <1> QED
    BY <1>0, <1>1, <1>2, <1>3

-----------------------------------------------------------------------------
(* The invariant.                                                           *)

InfoFine(q, o) ==
    /\ q.pc \in {"idle", "rq"} => q.info = 0
    /\ q.pc = "proxy" => q.info # 0
    /\ q.pc \in {"jwt", "auth"} => (q.info # 0 <=> Early(o))
    /\ q.pc = "security" => (q.info # 0 <=> o < 20)

InfoInv == \A r \in Requests : InfoFine(req[r], rqOrder)

OwnedIn(some, r) == {i \in DOMAIN some : some[i].of = r}

\* Whoever asks for the save of such a request will have to start one.
Unsaved(q) == q.info = 0 /\ q.pc \notin {"waitError"} \cup Ends

CountFine(own, q, o) ==
    /\ Early(o) => /\ \A i, j \in own : i = j
                   /\ Unsaved(q) => own = {}
    /\ ~Early(o) => /\ \A i, j, k \in own : i = j \/ j = k \/ i = k
                    /\ Unsaved(q) => \A i, j \in own : i = j
                    /\ q.pc \in {"idle", "jwt", "auth"} => own = {}

CountInv == \A r \in Requests : CountFine(OwnedIn(saves, r), req[r], rqOrder)

BeforeAuth(q, o) ==
    q.pc \in {"idle", "jwt", "auth"} \/ (Early(o) /\ q.pc \in {"rq", "waitRq"})

\* Of each value at most one is asked for or written, and none too early.
AuthFine(s, q, o) ==
    /\ s.asked["auth"] # None => s.row["auth"] = None /\ s.asked["auth"] = q.client
    /\ s.row["auth"] # None => s.row["auth"] = q.client
    /\ BeforeAuth(q, o) => s.asked["auth"] = None /\ s.row["auth"] = None

RsFine(s, q) ==
    /\ s.asked["rs"] # None => s.row["rs"] = None /\ (s.asked["rs"] = q.code \/ q.pc = "gone")
    /\ s.row["rs"] # None => s.row["rs"] = q.code \/ q.pc = "gone"
    /\ q.pc \notin Ends => s.asked["rs"] = None /\ s.row["rs"] = None

RowFine(s, q, o) ==
    /\ s.row # Nothing => s.state = "saved"
    /\ AuthFine(s, q, o)
    /\ RsFine(s, q)

RowsInv == \A i \in DOMAIN saves : RowFine(saves[i], req[saves[i].of], rqOrder)

Inv == TypeOK /\ InfoInv /\ CountInv /\ RowsInv

USE DEF Columns, Codes, Value

LEMMA InitInv == Init => Inv
  <1> SUFFICES ASSUME Init PROVE Inv
    OBVIOUS
  <1>1. saves = <<>> /\ DOMAIN saves = {} /\ Len(saves) = 0
    BY DEF Init
  <1>2. \A r \in Requests : req[r].pc = "idle" /\ req[r].info = 0
    BY DEF Init
  <1>3. TypeOK
    BY <1>1 DEF Init, TypeOK, Request
  <1> QED
    BY <1>1, <1>2, <1>3 DEF Inv, InfoInv, CountInv, RowsInv, OwnedIn, InfoFine, CountFine

-----------------------------------------------------------------------------
(* What the operators make of the saves.                                    *)

USE DEF Ends, Filters

LEMMA WithAuthSaveFacts ==
  ASSUME TypeOK, NEW r \in Requests, NEW w, w = WithAuthSave(r)
  PROVE  /\ w \in Seq(Save) /\ Len(w) \in Nat /\ Len(w) >= Len(saves)
         /\ AuthSave(r) \in DOMAIN w /\ w[AuthSave(r)].of = r
         /\ DOMAIN saves \subseteq DOMAIN w
         /\ \A i \in DOMAIN saves : w[i] = saves[i]
         /\ \A i \in DOMAIN w \ DOMAIN saves : w[i] = Started(r)
         /\ req[r].info # 0 => w = saves
         /\ OwnedIn(w, r) = OwnedIn(saves, r) \cup {AuthSave(r)}
         /\ \A q \in Requests \ {r} : OwnedIn(w, q) = OwnedIn(saves, q)
  <1>1. CASE req[r].info = 0
    <2>1. Started(r) \in Save /\ Started(r).of = r
      BY DEF Started, Save, Nothing
    <2>2. w = Append(saves, Started(r)) /\ AuthSave(r) = Len(saves) + 1 /\ saves \in Seq(Save)
      BY <1>1 DEF WithAuthSave, AuthSave, TypeOK
    <2>3. /\ w \in Seq(Save)
          /\ Len(w) = Len(saves) + 1 /\ Len(saves) \in Nat
          /\ DOMAIN w = DOMAIN saves \cup {Len(saves) + 1}
          /\ Len(saves) + 1 \notin DOMAIN saves
          /\ \A i \in DOMAIN saves : w[i] = saves[i]
          /\ w[Len(saves) + 1] = Started(r)
      BY <2>1, <2>2
    <2> QED
      BY <1>1, <2>1, <2>2, <2>3 DEF OwnedIn
  <1>2. CASE req[r].info # 0
    <2>1. w = saves /\ AuthSave(r) = req[r].info /\ saves \in Seq(Save)
      BY <1>2 DEF WithAuthSave, AuthSave, TypeOK
    <2>2. req[r].info \in DOMAIN saves /\ saves[req[r].info].of = r
      BY <1>2, <2>1 DEF TypeOK
    <2> QED
      BY <1>2, <2>1, <2>2 DEF OwnedIn
  <1> QED
    BY <1>1, <1>2

LEMMA AskFacts ==
  ASSUME NEW some \in Seq(Save), NEW i \in DOMAIN some, NEW c \in Columns, NEW v \in Value,
         NEW w, w = Ask(some, i, c, v)
  PROVE  /\ w \in Seq(Save) /\ Len(w) = Len(some) /\ DOMAIN w = DOMAIN some
         /\ w[i].of = some[i].of /\ w[i].state = some[i].state /\ w[i].row = some[i].row
         /\ w[i].asked[c] = v /\ \A d \in Columns \ {c} : w[i].asked[d] = some[i].asked[d]
         /\ \A j \in DOMAIN some \ {i} : w[j] = some[j]
         /\ \A r \in Requests : OwnedIn(w, r) = OwnedIn(some, r)
  <1> DEFINE s == [some[i] EXCEPT !.asked[c] = v]
  <1>1. some[i] \in Save
    OBVIOUS
  <1>2. /\ s \in Save /\ s.of = some[i].of /\ s.state = some[i].state /\ s.row = some[i].row
        /\ s.asked[c] = v /\ \A d \in Columns \ {c} : s.asked[d] = some[i].asked[d]
    BY <1>1 DEF Save
  <1>3. w = [some EXCEPT ![i] = s]
    BY DEF Ask
  <1> HIDE DEF s
  <1>4. /\ w \in Seq(Save) /\ Len(w) = Len(some) /\ DOMAIN w = DOMAIN some
        /\ w[i] = s
        /\ \A j \in DOMAIN some \ {i} : w[j] = some[j]
        /\ \A r \in Requests : OwnedIn(w, r) = OwnedIn(some, r)
    <2>1. /\ w \in Seq(Save) /\ Len(w) = Len(some) /\ DOMAIN w = DOMAIN some
          /\ w[i] = s
          /\ \A j \in DOMAIN some \ {i} : w[j] = some[j]
      BY <1>2, <1>3
    <2> QED
      BY <1>2, <2>1 DEF OwnedIn
  <1> QED
    BY <1>2, <1>4

-----------------------------------------------------------------------------
(* What a step of request r, which makes it q, has to show.                 *)

USE DEF At, Goto

\* The saves only grow, and no save changes hands.
Grow(old, new) ==
    /\ new \in Seq(Save) /\ Len(new) \in Nat /\ Len(new) >= Len(old)
    /\ \A i \in DOMAIN old : i \in DOMAIN new /\ new[i].of = old[i].of

TypeFine(q, r, some) ==
    /\ q \in Request
    /\ q.info \in 0..Len(some) /\ q.waits \in 0..Len(some)
    /\ q.info # 0 => some[q.info].of = r
    /\ q.waits # 0 => some[q.waits].of = r
    /\ q.pc = "waitRq" => q.info # 0
    /\ q.pc = "waitError" => q.waits # 0

LEMMA TypeStep ==
  ASSUME TypeOK, NEW r \in Requests, NEW q, req' = [req EXCEPT ![r] = q], UNCHANGED rqOrder,
         Grow(saves, saves'), TypeFine(q, r, saves')
  PROVE  TypeOK'
  <1>1. /\ req \in [Requests -> Request] /\ saves \in Seq(Save) /\ Len(saves) \in Nat
        /\ \A s \in Requests : TypeFine(req[s], s, saves)
    BY DEF TypeOK, TypeFine
  <1>2. /\ req' \in [Requests -> Request] /\ req'[r] = q
        /\ \A s \in Requests \ {r} : req'[s] = req[s]
    BY <1>1 DEF TypeFine
  <1>3. \A s \in Requests \ {r} : TypeFine(req[s], s, saves')
    <2> SUFFICES ASSUME NEW s \in Requests \ {r}
                 PROVE  TypeFine(req[s], s, saves')
      OBVIOUS
    <2>1. TypeFine(req[s], s, saves)
      BY <1>1
    <2>2. \A k \in 0..Len(saves) : k # 0 => k \in DOMAIN saves
      BY <1>1
    <2>3. \A k \in 0..Len(saves) : k \in 0..Len(saves') /\ (k # 0 => saves'[k].of = saves[k].of)
      BY <1>1, <2>2 DEF Grow
    <2> QED
      BY <2>1, <2>3 DEF TypeFine
  <1>4. \A s \in Requests : TypeFine(req'[s], s, saves')
    BY <1>2, <1>3
  <1>5. rqOrder' \in RqOrders /\ saves' \in Seq(Save)
    BY DEF TypeOK, Grow
  <1> QED
    BY <1>2, <1>4, <1>5 DEF TypeOK, TypeFine

LEMMA InfoStep ==
  ASSUME TypeOK, InfoInv, NEW r \in Requests, NEW q, req' = [req EXCEPT ![r] = q],
         UNCHANGED rqOrder, InfoFine(q, rqOrder)
  PROVE  InfoInv'
  BY DEF TypeOK, InfoInv

LEMMA CountStep ==
  ASSUME TypeOK, CountInv, NEW r \in Requests, NEW q, req' = [req EXCEPT ![r] = q],
         UNCHANGED rqOrder,
         \A s \in Requests \ {r} : OwnedIn(saves', s) = OwnedIn(saves, s),
         CountFine(OwnedIn(saves', r), q, rqOrder)
  PROVE  CountInv'
  BY DEF TypeOK, CountInv

\* A row of r is to be looked at, and every other one that is not as it was.
LEMMA RowsStep ==
  ASSUME TypeOK, RowsInv, NEW r \in Requests, NEW q, req' = [req EXCEPT ![r] = q],
         UNCHANGED rqOrder, saves' \in Seq(Save),
         \A i \in DOMAIN saves' : \/ saves'[i].of = r /\ RowFine(saves'[i], q, rqOrder)
                                  \/ saves'[i].of # r /\ i \in DOMAIN saves /\ saves'[i] = saves[i]
  PROVE  RowsInv'
  <1> SUFFICES ASSUME NEW i \in DOMAIN saves'
               PROVE  RowFine(saves'[i], req'[saves'[i].of], rqOrder')
    BY DEF RowsInv
  <1>1. saves'[i] \in Save
    OBVIOUS
  <1>2. saves'[i].of \in Requests
    BY <1>1 DEF Save
  <1>3. req'[saves'[i].of] = IF saves'[i].of = r THEN q ELSE req[saves'[i].of]
    BY <1>2 DEF TypeOK
  <1> QED
    BY <1>3 DEF RowsInv

\* Moving on leaves a row fine as long as it brings no client too late.
LEMMA RowMoves ==
  ASSUME NEW s, NEW p, NEW q, NEW o, RowFine(s, p, o), p.pc \notin Ends,
         q.client = p.client \/ BeforeAuth(p, o), BeforeAuth(q, o) => BeforeAuth(p, o)
  PROVE  RowFine(s, q, o)
  BY DEF RowFine, AuthFine, RsFine

LEMMA NewRow ==
  ASSUME NEW r, NEW q, NEW o
  PROVE  RowFine(Started(r), q, o)
  BY DEF RowFine, AuthFine, RsFine, Started, Nothing

-----------------------------------------------------------------------------
(* The steps of a request that leave the saves alone.                       *)

LEMMA MoveInv ==
  ASSUME Inv, NEW r \in Requests, NEW q, req' = [req EXCEPT ![r] = q],
         UNCHANGED <<rqOrder, saves>>,
         req[r].pc \notin Ends, q.info = req[r].info, TypeFine(q, r, saves),
         InfoFine(q, rqOrder),
         Unsaved(q) => Unsaved(req[r]),
         q.pc \in {"idle", "jwt", "auth"} => Early(rqOrder) \/ req[r].pc \in {"idle", "jwt", "auth"},
         q.client = req[r].client \/ BeforeAuth(req[r], rqOrder),
         BeforeAuth(q, rqOrder) => BeforeAuth(req[r], rqOrder)
  PROVE  Inv'
  <1>0. TypeOK /\ InfoInv /\ CountInv /\ RowsInv
    BY DEF Inv
  <1>1. TypeOK'
    <2>1. Grow(saves, saves')
      BY <1>0 DEF Grow, TypeOK
    <2> QED
      BY <1>0, <2>1, TypeStep
  <1>2. InfoInv'
    BY <1>0, InfoStep
  <1>3. CountInv'
    <2>1. CountFine(OwnedIn(saves, r), req[r], rqOrder)
      BY <1>0 DEF CountInv
    <2>2. CountFine(OwnedIn(saves, r), q, rqOrder)
      BY <2>1 DEF CountFine
    <2> QED
      BY <1>0, <2>2, CountStep
  <1>4. RowsInv'
    <2>1. \A i \in DOMAIN saves : saves[i].of = r => RowFine(saves[i], q, rqOrder)
      BY <1>0, RowMoves DEF RowsInv
    <2>2. saves \in Seq(Save)
      BY <1>0 DEF TypeOK
    <2> QED
      BY <1>0, <2>1, <2>2, RowsStep
  <1> QED
    BY <1>1, <1>2, <1>3, <1>4 DEF Inv

\* What is known of a request before its step.
LEMMA Known ==
  ASSUME Inv, NEW r \in Requests
  PROVE  /\ req[r] \in Request
         /\ TypeFine(req[r], r, saves)
         /\ InfoFine(req[r], rqOrder)
         /\ CountFine(OwnedIn(saves, r), req[r], rqOrder)
         /\ \A i \in DOMAIN saves : saves[i].of = r => RowFine(saves[i], req[r], rqOrder)
         /\ FirstFilter = IF Early(rqOrder) THEN "rq" ELSE "jwt"
         /\ Behind(rqOrder) = IF Early(rqOrder) THEN "jwt" ELSE IF rqOrder < 20 THEN "security" ELSE "proxy"
         /\ Behind(10) = "auth"
         /\ Behind(11) = IF ~Early(rqOrder) /\ rqOrder < 20 THEN "rq" ELSE "security"
         /\ Behind(20) = IF rqOrder > 20 THEN "rq" ELSE "proxy"
         /\ rqOrder \in Int \ {10, 11, 20}
         /\ req \in [Requests -> Request] /\ saves \in Seq(Save)
  <1>1. rqOrder \in RqOrders
    BY DEF Inv, TypeOK
  <1>2. TypeFine(req[r], r, saves)
    BY DEF Inv, TypeOK, TypeFine
  <1>3. rqOrder \in Int \ {10, 11, 20}
    BY <1>1, Orders
  <1> QED
    BY <1>1, <1>2, <1>3, FilterOrder DEF Inv, InfoInv, CountInv, RowsInv, TypeOK

LEMMA ArriveInv ==
  ASSUME Inv, NEW r \in Requests, NEW client \in Clients \cup {NoClient}, NEW found \in BOOLEAN,
         Arrive(r, client, found)
  PROVE  Inv'
  <1> DEFINE p == IF found THEN FirstFilter ELSE "error"
             q == [req[r] EXCEPT !.pc = p, !.brings = client]
  <1>1. /\ q \in Request /\ q.pc = p
        /\ q.client = req[r].client /\ q.info = req[r].info /\ q.waits = req[r].waits
    <2>1. p \in Filters \cup {"error"} /\ req[r] \in Request
      BY Known
    <2> QED
      BY <2>1 DEF Request
  <1>2. /\ req' = [req EXCEPT ![r] = q] /\ UNCHANGED <<rqOrder, saves>>
        /\ req[r].pc = "idle"
    BY DEF Arrive
  <1> HIDE DEF q
  <1>3. TypeFine(q, r, saves) /\ InfoFine(q, rqOrder)
    BY <1>1, <1>2, Known DEF TypeFine, InfoFine, Early
  <1> QED
    BY <1>1, <1>2, <1>3, MoveInv DEF Unsaved, BeforeAuth

\* The steps that only move on, or fail.
LEMMA PcInv ==
  ASSUME Inv, NEW r \in Requests, NEW p, Goto(r, p), UNCHANGED <<rqOrder, saves>>,
         \/ req[r].pc = "waitRq" /\ p \in {Behind(rqOrder), "error"}
         \/ req[r].pc = "security" /\ p \in {Behind(20), "error"}
         \/ req[r].pc = "proxy" /\ p = "error"
         \/ req[r].pc = "jwt" /\ p = "error"
         \/ req[r].pc \notin Ends /\ p \in Ends
  PROVE  Inv'
  <1> DEFINE q == [req[r] EXCEPT !.pc = p]
  <1>1. /\ q \in Request /\ q.pc = p
        /\ q.client = req[r].client /\ q.info = req[r].info /\ q.waits = req[r].waits
    <2>1. p \in Filters \cup Ends \cup {"error"} /\ req[r] \in Request
      BY Known
    <2> QED
      BY <2>1 DEF Request
  <1>2. req' = [req EXCEPT ![r] = q]
    OBVIOUS
  <1> HIDE DEF q
  <1>3. req[r].pc = "waitRq" => req[r].info # 0
    BY Known DEF TypeFine
  <1>4. TypeFine(q, r, saves) /\ InfoFine(q, rqOrder)
    BY <1>1, <1>3, Known DEF TypeFine, InfoFine, Early
  <1>5. Unsaved(q) => Unsaved(req[r])
    BY <1>1, <1>3 DEF Unsaved
  <1>6. /\ q.pc \in {"idle", "jwt", "auth"} => Early(rqOrder) \/ req[r].pc \in {"idle", "jwt", "auth"}
        /\ BeforeAuth(q, rqOrder) => BeforeAuth(req[r], rqOrder)
        /\ req[r].pc \notin Ends
    BY <1>1, Known DEF BeforeAuth, Early
  <1> QED
    BY <1>1, <1>2, <1>4, <1>5, <1>6, MoveInv

LEMMA JwtFilterInv ==
  ASSUME Inv, NEW r \in Requests, JwtFilter(r)
  PROVE  Inv'
  <1>1. CASE Goto(r, "error")
    BY <1>1, PcInv DEF JwtFilter
  <1>2. CASE req' = [req EXCEPT ![r].pc = Behind(10), ![r].client = req[r].brings]
    <2> DEFINE q == [req[r] EXCEPT !.pc = Behind(10), !.client = req[r].brings]
    <2>1. q \in Request /\ q.pc = "auth" /\ q.info = req[r].info /\ q.waits = req[r].waits
      <3>1. Behind(10) = "auth" /\ req[r] \in Request
        BY Known
      <3> QED
        BY <3>1 DEF Request
    <2>2. req' = [req EXCEPT ![r] = q] /\ UNCHANGED <<rqOrder, saves>> /\ req[r].pc = "jwt"
      BY <1>2 DEF JwtFilter
    <2> HIDE DEF q
    <2>3. TypeFine(q, r, saves) /\ InfoFine(q, rqOrder)
      BY <2>1, <2>2, Known DEF TypeFine, InfoFine
    <2> QED
      BY <2>1, <2>2, <2>3, MoveInv DEF Unsaved, BeforeAuth
  <1> QED
    BY <1>1, <1>2 DEF JwtFilter

-----------------------------------------------------------------------------
(* The steps of a request that ask for a save.                              *)

LEMMA CountGrows ==
  ASSUME NEW own, NEW a, NEW p, NEW q, NEW o, CountFine(own, p, o), InfoFine(p, o),
         p.pc \in {"rq", "auth", "error"}, p.info # 0 => a \in own,
         q.info = p.info \/ q.info # 0, q.pc \notin {"idle", "jwt", "auth"},
         Unsaved(q) => p.pc = "auth"
  PROVE  CountFine(own \cup {a}, q, o)
  BY DEF CountFine, InfoFine, Unsaved

LEMMA GrowInv ==
  ASSUME Inv, NEW r \in Requests, NEW q, req' = [req EXCEPT ![r] = q], UNCHANGED rqOrder,
         NEW w, w = WithAuthSave(r),
         saves' \in Seq(Save), Len(saves') = Len(w), DOMAIN saves' = DOMAIN w,
         \A i \in DOMAIN w : saves'[i].of = w[i].of,
         \A i \in DOMAIN w : w[i].of # r => saves'[i] = w[i],
         \A i \in DOMAIN w : w[i].of = r => RowFine(saves'[i], q, rqOrder),
         TypeFine(q, r, saves'), InfoFine(q, rqOrder),
         req[r].pc \in {"rq", "auth", "error"},
         q.info = req[r].info \/ q.info # 0, q.pc \notin {"idle", "jwt", "auth"},
         Unsaved(q) => req[r].pc = "auth"
  PROVE  Inv'
  <1>0. TypeOK /\ InfoInv /\ CountInv /\ RowsInv
    BY DEF Inv
  <1>1. /\ w \in Seq(Save) /\ Len(w) \in Nat /\ Len(w) >= Len(saves)
        /\ AuthSave(r) \in DOMAIN w /\ w[AuthSave(r)].of = r
        /\ DOMAIN saves \subseteq DOMAIN w
        /\ \A i \in DOMAIN saves : w[i] = saves[i]
        /\ \A i \in DOMAIN w \ DOMAIN saves : w[i] = Started(r)
        /\ OwnedIn(w, r) = OwnedIn(saves, r) \cup {AuthSave(r)}
        /\ \A s \in Requests \ {r} : OwnedIn(w, s) = OwnedIn(saves, s)
        /\ req[r].info # 0 => w = saves
    BY <1>0, WithAuthSaveFacts
  <1>2. TypeOK'
    <2>1. Grow(saves, saves')
      BY <1>1 DEF Grow
    <2> QED
      BY <1>0, <2>1, TypeStep
  <1>3. InfoInv'
    BY <1>0, InfoStep
  <1>4. CountInv'
    <2>1. \A s \in Requests : OwnedIn(saves', s) = OwnedIn(w, s)
      BY DEF OwnedIn
    <2>2. req[r].info # 0 => AuthSave(r) \in OwnedIn(saves, r)
      BY <1>1 DEF OwnedIn
    <2>3. CountFine(OwnedIn(saves, r), req[r], rqOrder) /\ InfoFine(req[r], rqOrder)
      BY Known
    <2>4. CountFine(OwnedIn(saves, r) \cup {AuthSave(r)}, q, rqOrder)
      BY <2>2, <2>3, CountGrows
    <2> QED
      BY <1>0, <1>1, <2>1, <2>4, CountStep
  <1>5. RowsInv'
    <2>1. \A i \in DOMAIN w : w[i].of # r => i \in DOMAIN saves /\ w[i] = saves[i]
      BY <1>1 DEF Started
    <2>2. \A i \in DOMAIN saves' : \/ saves'[i].of = r /\ RowFine(saves'[i], q, rqOrder)
                                   \/ saves'[i].of # r /\ i \in DOMAIN saves /\ saves'[i] = saves[i]
      BY <2>1
    <2> QED
      BY <1>0, <2>2, RowsStep
  <1> QED
    BY <1>2, <1>3, <1>4, <1>5 DEF Inv

\* The rows of r in such a w, before anything is asked of them.
LEMMA GrownRows ==
  ASSUME Inv, NEW r \in Requests, NEW w, w = WithAuthSave(r)
  PROVE  \A i \in DOMAIN w : w[i].of = r => RowFine(w[i], req[r], rqOrder)
  <1>1. TypeOK
    BY DEF Inv
  <1>2. /\ \A i \in DOMAIN saves : w[i] = saves[i]
        /\ \A i \in DOMAIN w \ DOMAIN saves : w[i] = Started(r)
    BY <1>1, WithAuthSaveFacts
  <1> QED
    BY <1>2, Known, NewRow

LEMMA RqFilterInv ==
  ASSUME Inv, NEW r \in Requests, RqFilter(r)
  PROVE  Inv'
  <1> DEFINE w == WithAuthSave(r)
             q == [req[r] EXCEPT !.pc = "waitRq", !.info = Len(saves) + 1]
  <1>0. TypeOK /\ req[r] \in Request /\ req[r].pc = "rq" /\ req[r].info = 0 /\ Len(saves) \in Nat
    BY Known DEF Inv, InfoFine, RqFilter
  <1>1. /\ q \in Request /\ q.pc = "waitRq" /\ q.client = req[r].client
        /\ q.info = Len(saves) + 1 /\ q.waits = req[r].waits
    <2>1. PICK n \in Nat : n = Len(saves) + 1
      BY <1>0
    <2>2. q = [req[r] EXCEPT !.pc = "waitRq", !.info = n]
      BY <2>1
    <2> QED
      BY <1>0, <2>1, <2>2 DEF Request
  <1>2. req' = [req EXCEPT ![r] = q] /\ UNCHANGED rqOrder /\ saves' = w
    BY <1>0 DEF RqFilter, WithAuthSave
  <1>3. /\ w \in Seq(Save) /\ Len(w) = Len(saves) + 1 /\ w[Len(saves) + 1].of = r
        /\ \A i \in DOMAIN saves : i \in DOMAIN w /\ w[i] = saves[i]
    <2>1. AuthSave(r) = Len(saves) + 1 /\ w = Append(saves, Started(r)) /\ saves \in Seq(Save)
      BY <1>0 DEF AuthSave, WithAuthSave, TypeOK
    <2> QED
      BY <1>0, <2>1, WithAuthSaveFacts
  <1> HIDE DEF q, w
  <1>4. TypeFine(q, r, w)
    <2>1. TypeFine(req[r], r, saves) /\ saves \in Seq(Save)
      BY Known
    <2>2. \A k \in 0..Len(saves) : k # 0 => k \in DOMAIN saves
      BY <2>1
    <2> QED
      BY <1>0, <1>1, <1>3, <2>1, <2>2 DEF TypeFine
  <1>5. InfoFine(q, rqOrder) /\ ~Unsaved(q)
    BY <1>0, <1>1 DEF InfoFine, Unsaved
  <1>6. \A i \in DOMAIN w : w[i].of = r => RowFine(w[i], q, rqOrder)
    <2>1. BeforeAuth(q, rqOrder) => BeforeAuth(req[r], rqOrder)
      BY <1>0, <1>1 DEF BeforeAuth
    <2> QED
      BY <1>0, <1>1, <2>1, GrownRows, RowMoves DEF w
  <1> QED
    BY <1>0, <1>1, <1>2, <1>3, <1>4, <1>5, <1>6, GrowInv DEF w

LEMMA AuthFilterInv ==
  ASSUME Inv, NEW r \in Requests, AuthFilter(r)
  PROVE  Inv'
  <1>1. \E p \in {Behind(11), "error"} :
           /\ Goto(r, p)
           /\ \/ saves' = WithAuthSave(r)
              \/ /\ req[r].client # NoClient
                 /\ saves' = Ask(WithAuthSave(r), AuthSave(r), "auth", req[r].client)
    BY DEF AuthFilter
  <1> DEFINE w == WithAuthSave(r)
  <1>w. w = WithAuthSave(r)
    OBVIOUS
  <1> HIDE DEF w
  <1>p. PICK p \in {Behind(11), "error"} :
           /\ Goto(r, p)
           /\ \/ saves' = w
              \/ /\ req[r].client # NoClient
                 /\ saves' = Ask(w, AuthSave(r), "auth", req[r].client)
    BY <1>1, <1>w
  <1> DEFINE q == [req[r] EXCEPT !.pc = p]
  <1>2. /\ TypeOK /\ req[r] \in Request /\ req[r].pc = "auth" /\ UNCHANGED rqOrder
        /\ p \in {"rq", "security", "error"}
        /\ p = "rq" => ~Early(rqOrder) /\ rqOrder < 20
        /\ p = "security" => Early(rqOrder) \/ ~(rqOrder < 20)
        /\ BeforeAuth(req[r], rqOrder) /\ req[r].client \in Clients \cup {NoClient}
    BY <1>p, <1>w, Known DEF Inv, AuthFilter, BeforeAuth, Request
  <1>3. /\ q \in Request /\ q.pc = p
        /\ q.client = req[r].client /\ q.info = req[r].info /\ q.waits = req[r].waits
    BY <1>2 DEF Request
  <1>4. req' = [req EXCEPT ![r] = q]
    BY <1>p
  <1> HIDE DEF q
  <1>5. /\ w \in Seq(Save) /\ Len(w) \in Nat /\ Len(w) >= Len(saves)
        /\ AuthSave(r) \in DOMAIN w /\ w[AuthSave(r)].of = r
        /\ \A i \in DOMAIN saves : i \in DOMAIN w /\ w[i] = saves[i]
    BY <1>p, <1>w, <1>2, WithAuthSaveFacts
  <1>6. /\ saves' \in Seq(Save) /\ Len(saves') = Len(w) /\ DOMAIN saves' = DOMAIN w
        /\ \A i \in DOMAIN w :
              /\ saves'[i].of = w[i].of
              /\ saves'[i] # w[i] => /\ i = AuthSave(r) /\ saves'[i].row = w[i].row
                                     /\ saves'[i].state = w[i].state
                                     /\ saves'[i].asked["auth"] = req[r].client
                                     /\ saves'[i].asked["rs"] = w[i].asked["rs"]
    <2>1. CASE saves' = w
      BY <1>5, <2>1
    <2>2. CASE req[r].client # NoClient /\ saves' = Ask(w, AuthSave(r), "auth", req[r].client)
      <3> DEFINE k == AuthSave(r)
      <3>1. w \in Seq(Save) /\ k \in DOMAIN w /\ "auth" \in Columns /\ req[r].client \in Value
        BY <1>2, <1>5, <2>2
      <3>2. saves' = Ask(w, k, "auth", req[r].client)
        BY <2>2
      <3> HIDE DEF k
      <3>3. /\ saves' \in Seq(Save) /\ Len(saves') = Len(w) /\ DOMAIN saves' = DOMAIN w
            /\ saves'[k].of = w[k].of /\ saves'[k].state = w[k].state /\ saves'[k].row = w[k].row
            /\ saves'[k].asked["auth"] = req[r].client
            /\ \A d \in Columns \ {"auth"} : saves'[k].asked[d] = w[k].asked[d]
            /\ \A j \in DOMAIN w \ {k} : saves'[j] = w[j]
        BY <3>1, <3>2, AskFacts
      <3>4. saves'[k].asked["rs"] = w[k].asked["rs"]
        BY <3>3
      <3> QED
        BY <3>3, <3>4 DEF k
    <2> QED
      BY <1>p, <1>w, <2>1, <2>2
  <1>7. TypeFine(q, r, saves')
    <2>1. TypeFine(req[r], r, saves) /\ saves \in Seq(Save)
      BY Known
    <2>2. \A k \in 0..Len(saves) : k # 0 => k \in DOMAIN saves
      BY <2>1
    <2>3. \A k \in 0..Len(saves) : k \in 0..Len(saves') /\ (k # 0 => saves'[k].of = saves[k].of)
      BY <1>5, <1>6, <2>1, <2>2
    <2> QED
      BY <1>2, <1>3, <2>1, <2>3 DEF TypeFine
  <1>8. InfoFine(q, rqOrder)
    <2>1. InfoFine(req[r], rqOrder) /\ rqOrder \in Int
      BY Known
    <2> QED
      BY <1>2, <1>3, <2>1 DEF InfoFine, Early
  <1>9. \A i \in DOMAIN w : w[i].of = r => RowFine(saves'[i], q, rqOrder)
    <2>1. ~BeforeAuth(q, rqOrder) /\ q.pc \notin Ends
      BY <1>2, <1>3 DEF BeforeAuth
    <2>2. \A i \in DOMAIN w : w[i].of = r => RowFine(w[i], req[r], rqOrder)
      BY <1>p, <1>w, GrownRows
    <2> QED
      BY <1>2, <1>3, <1>6, <2>1, <2>2 DEF RowFine, AuthFine, RsFine
  <1>10. q.pc \notin {"idle", "jwt", "auth"}
    BY <1>2, <1>3
  <1>11. \A i \in DOMAIN w : w[i].of # r => saves'[i] = w[i]
    BY <1>5, <1>6
  <1> QED
    BY <1>p, <1>w, <1>2, <1>3, <1>4, <1>6, <1>7, <1>8, <1>9, <1>10, <1>11, GrowInv

LEMMA ErrorHandlerInv ==
  ASSUME Inv, NEW r \in Requests, ErrorHandler(r)
  PROVE  Inv'
  <1> DEFINE w == WithAuthSave(r)
             q == [req[r] EXCEPT !.pc = "waitError", !.waits = AuthSave(r)]
  <1>1. TypeOK /\ req[r] \in Request /\ req[r].pc = "error"
    BY Known DEF Inv, ErrorHandler
  <1>2. /\ w \in Seq(Save) /\ Len(w) \in Nat /\ Len(w) >= Len(saves)
        /\ AuthSave(r) \in 1..Len(w) /\ w[AuthSave(r)].of = r
        /\ \A i \in DOMAIN saves : i \in DOMAIN w /\ w[i] = saves[i]
    BY <1>1, WithAuthSaveFacts
  <1>3. /\ q \in Request /\ q.pc = "waitError"
        /\ q.client = req[r].client /\ q.info = req[r].info /\ q.waits = AuthSave(r)
    <2>1. AuthSave(r) \in Nat
      BY <1>2
    <2> QED
      BY <1>1, <2>1 DEF Request
  <1>4. req' = [req EXCEPT ![r] = q] /\ UNCHANGED rqOrder /\ saves' = w
    BY DEF ErrorHandler
  <1> HIDE DEF q, w
  <1>5. TypeFine(q, r, w)
    <2>1. TypeFine(req[r], r, saves) /\ saves \in Seq(Save)
      BY Known
    <2>2. \A k \in 0..Len(saves) : k # 0 => k \in DOMAIN saves
      BY <2>1
    <2>3. \A k \in 0..Len(saves) : k \in 0..Len(w) /\ (k # 0 => w[k].of = saves[k].of)
      BY <1>2, <2>1, <2>2
    <2> QED
      BY <1>2, <1>3, <2>1, <2>3 DEF TypeFine
  <1>6. InfoFine(q, rqOrder) /\ ~Unsaved(q)
    BY <1>3 DEF InfoFine, Unsaved
  <1>7. \A i \in DOMAIN w : w[i].of = r => RowFine(w[i], q, rqOrder)
    <2>1. ~BeforeAuth(q, rqOrder)
      BY <1>3 DEF BeforeAuth
    <2> QED
      BY <1>1, <1>3, <2>1, GrownRows, RowMoves DEF w
  <1> QED
    BY <1>1, <1>2, <1>3, <1>4, <1>5, <1>6, <1>7, GrowInv DEF w

-----------------------------------------------------------------------------
(* The steps of a request that change a save of its own in place.           *)

LEMMA OwnSaveInv ==
  ASSUME Inv, NEW r \in Requests, NEW q, req' = [req EXCEPT ![r] = q], UNCHANGED rqOrder,
         NEW i \in DOMAIN saves, saves[i].of = r,
         NEW s \in Save, s.of = r, saves' = [saves EXCEPT ![i] = s],
         RowFine(s, q, rqOrder), TypeFine(q, r, saves),
         req[r].pc \notin Ends, q.pc \in Ends, q.info = req[r].info, q.client = req[r].client
  PROVE  Inv'
  <1>0. TypeOK /\ InfoInv /\ CountInv /\ RowsInv
    BY DEF Inv
  <1>1. /\ saves' \in Seq(Save) /\ Len(saves') = Len(saves) /\ Len(saves) \in Nat
        /\ DOMAIN saves' = DOMAIN saves
        /\ saves'[i] = s
        /\ \A j \in DOMAIN saves \ {i} : saves'[j] = saves[j]
    BY <1>0 DEF TypeOK
  <1>2. TypeOK'
    <2>1. Grow(saves, saves')
      BY <1>1 DEF Grow
    <2>2. \A k \in DOMAIN saves : saves'[k].of = saves[k].of
      BY <1>1
    <2>3. TypeFine(q, r, saves')
      <3>1. saves \in Seq(Save) /\ DOMAIN saves = 1..Len(saves)
        BY <1>0 DEF TypeOK
      <3> QED
        BY <1>1, <2>2, <3>1 DEF TypeFine
    <2> QED
      BY <1>0, <2>1, <2>3, TypeStep
  <1>3. InfoInv'
    <2>1. InfoFine(q, rqOrder)
      BY DEF InfoFine
    <2> QED
      BY <1>0, <2>1, InfoStep
  <1>4. CountInv'
    <2>1. \A t \in Requests : OwnedIn(saves', t) = OwnedIn(saves, t)
      BY <1>1 DEF OwnedIn
    <2>2. CountFine(OwnedIn(saves, r), req[r], rqOrder)
      BY <1>0 DEF CountInv
    <2>3. CountFine(OwnedIn(saves, r), q, rqOrder)
      BY <2>2 DEF CountFine, Unsaved
    <2> QED
      BY <1>0, <2>1, <2>3, CountStep
  <1>5. RowsInv'
    <2>1. \A j \in DOMAIN saves : saves[j].of = r => RowFine(saves[j], q, rqOrder)
      <3>1. ~BeforeAuth(q, rqOrder)
        BY DEF BeforeAuth
      <3> QED
        BY <1>0, <3>1, RowMoves DEF RowsInv
    <2>2. \A j \in DOMAIN saves' : \/ saves'[j].of = r /\ RowFine(saves'[j], q, rqOrder)
                                   \/ saves'[j].of # r /\ j \in DOMAIN saves /\ saves'[j] = saves[j]
      BY <1>1, <2>1
    <2> QED
      BY <1>0, <1>1, <2>2, RowsStep
  <1> QED
    BY <1>2, <1>3, <1>4, <1>5 DEF Inv

\* A response is recorded: in one save of the request, at its end.
LEMMA AskRsInv ==
  ASSUME Inv, NEW r \in Requests, NEW q, q \in Request, req' = [req EXCEPT ![r] = q], UNCHANGED rqOrder,
         NEW i \in DOMAIN saves, saves[i].of = r,
         NEW v \in Codes, saves' = Ask(saves, i, "rs", v),
         req[r].pc \notin Ends, q.pc \in Ends, q.code = v \/ q.pc = "gone",
         q.info = req[r].info, q.waits = req[r].waits, q.client = req[r].client
  PROVE  Inv'
  <1> DEFINE s == [saves[i] EXCEPT !.asked["rs"] = v]
  <1>1. saves[i] \in Save /\ RowFine(saves[i], req[r], rqOrder)
    BY Known
  <1>2. /\ s \in Save /\ s.of = r /\ s.row = saves[i].row /\ s.state = saves[i].state
        /\ s.asked["auth"] = saves[i].asked["auth"] /\ s.asked["rs"] = v
    BY <1>1 DEF Save
  <1>3. saves' = [saves EXCEPT ![i] = s]
    BY DEF Ask
  <1> HIDE DEF s
  <1>4. RowFine(s, q, rqOrder)
    BY <1>1, <1>2 DEF RowFine, AuthFine, RsFine, BeforeAuth
  <1>5. TypeFine(q, r, saves)
    BY Known DEF TypeFine
  <1> QED
    BY <1>2, <1>3, <1>4, <1>5, OwnSaveInv

LEMMA ProxyInv ==
  ASSUME Inv, NEW r \in Requests, Proxy(r)
  PROVE  Inv'
  <1>1. req[r] \in Request /\ req[r].pc = "proxy" /\ UNCHANGED rqOrder
    BY Known DEF Proxy
  <1>2. req[r].info \in DOMAIN saves /\ saves[req[r].info].of = r
    BY <1>1, Known DEF TypeFine, InfoFine
  <1>3. ASSUME saves' = Ask(saves, req[r].info, "rs", "upstream"),
               req' = [req EXCEPT ![r].pc = "answered", ![r].code = "upstream"]
        PROVE  Inv'
    <2> DEFINE q == [req[r] EXCEPT !.pc = "answered", !.code = "upstream"]
    <2>1. /\ q \in Request /\ q.pc = "answered" /\ q.code = "upstream"
          /\ q.info = req[r].info /\ q.waits = req[r].waits /\ q.client = req[r].client
      BY <1>1 DEF Request
    <2>2. req' = [req EXCEPT ![r] = q]
      BY <1>3
    <2> HIDE DEF q
    <2> QED
      BY <1>1, <1>2, <1>3, <2>1, <2>2, AskRsInv
  <1>4. ASSUME saves' = Ask(saves, req[r].info, "rs", "upstream"), Goto(r, "gone")
        PROVE  Inv'
    <2> DEFINE q == [req[r] EXCEPT !.pc = "gone"]
    <2>1. /\ q \in Request /\ q.pc = "gone"
          /\ q.info = req[r].info /\ q.waits = req[r].waits /\ q.client = req[r].client
      BY <1>1 DEF Request
    <2>2. req' = [req EXCEPT ![r] = q]
      BY <1>4
    <2> HIDE DEF q
    <2> QED
      BY <1>1, <1>2, <1>4, <2>1, <2>2, AskRsInv
  <1>5. ASSUME UNCHANGED saves, Goto(r, "cut") \/ Goto(r, "error")
        PROVE  Inv'
    BY <1>1, <1>5, PcInv
  <1> QED
    BY <1>3, <1>4, <1>5 DEF Proxy

LEMMA ErrorAnswerInv ==
  ASSUME Inv, NEW r \in Requests, ErrorAnswer(r)
  PROVE  Inv'
  <1> DEFINE i == req[r].waits
  <1>1. req[r] \in Request /\ req[r].pc = "waitError" /\ UNCHANGED rqOrder
    BY Known DEF ErrorAnswer
  <1>2. i \in DOMAIN saves /\ saves[i].of = r
    BY <1>1, Known DEF TypeFine
  <1>3. CASE saves[i].state = "broken"
    BY <1>1, <1>3, PcInv DEF ErrorAnswer
  <1>4. CASE saves[i].state # "broken"
    <2> DEFINE q == [req[r] EXCEPT !.pc = "answered", !.code = "error"]
    <2>1. /\ q \in Request /\ q.pc = "answered" /\ q.code = "error"
          /\ q.info = req[r].info /\ q.waits = req[r].waits /\ q.client = req[r].client
      BY <1>1 DEF Request
    <2>2. req' = [req EXCEPT ![r] = q] /\ saves' = Ask(saves, i, "rs", "error")
      BY <1>4 DEF ErrorAnswer
    <2> HIDE DEF q
    <2> QED
      BY <1>1, <1>2, <2>1, <2>2, AskRsInv
  <1> QED
    BY <1>3, <1>4

LEMMA LeaveInv ==
  ASSUME Inv, NEW r \in Requests, Leave(r)
  PROVE  Inv'
  <1> DEFINE i == IF At(r, "waitRq") THEN req[r].info
                  ELSE IF At(r, "waitError") THEN req[r].waits ELSE 0
             q == [req[r] EXCEPT !.pc = "gone"]
             s == [saves[i] EXCEPT !.state = "dropped"]
  <1>1. /\ req[r] \in Request /\ req[r].pc \notin Ends /\ UNCHANGED rqOrder
        /\ req' = [req EXCEPT ![r] = q]
    BY Known DEF Leave
  <1>2. CASE i # 0 /\ saves[i].state = "starting"
    <2>1. i \in DOMAIN saves /\ saves[i].of = r
      BY <1>1, <1>2, Known DEF TypeFine
    <2>2. saves' = [saves EXCEPT ![i] = s]
      BY <1>2 DEF Leave
    <2>3. saves[i] \in Save /\ RowFine(saves[i], req[r], rqOrder)
      BY <2>1, Known
    <2>4. /\ q \in Request /\ q.pc = "gone"
          /\ q.info = req[r].info /\ q.waits = req[r].waits /\ q.client = req[r].client
      BY <1>1 DEF Request
    <2>5. /\ s \in Save /\ s.of = r /\ s.row = saves[i].row /\ s.asked = saves[i].asked
      BY <2>1, <2>3 DEF Save
    <2> HIDE DEF q, s, i
    <2>6. RowFine(s, q, rqOrder)
      BY <1>1, <1>2, <2>3, <2>4, <2>5 DEF RowFine, AuthFine, RsFine, BeforeAuth
    <2>7. TypeFine(q, r, saves)
      BY <2>4, Known DEF TypeFine
    <2> QED
      BY <1>1, <2>1, <2>2, <2>4, <2>5, <2>6, <2>7, OwnSaveInv
  <1>3. CASE ~(i # 0 /\ saves[i].state = "starting")
    BY <1>1, <1>3, PcInv DEF Leave
  <1> QED
    BY <1>2, <1>3

-----------------------------------------------------------------------------
(* The steps beside the requests.                                           *)

LEMMA SaveStepInv ==
  ASSUME Inv, UNCHANGED <<rqOrder, req>>, NEW i \in DOMAIN saves,
         NEW s \in Save, s.of = saves[i].of, saves' = [saves EXCEPT ![i] = s],
         RowFine(s, req[s.of], rqOrder)
  PROVE  Inv'
  <1>0. TypeOK /\ InfoInv /\ CountInv /\ RowsInv
    BY DEF Inv
  <1>1. /\ saves \in Seq(Save) /\ saves' \in Seq(Save) /\ Len(saves') = Len(saves)
        /\ DOMAIN saves = 1..Len(saves) /\ DOMAIN saves' = DOMAIN saves /\ saves'[i] = s
        /\ \A j \in DOMAIN saves \ {i} : saves'[j] = saves[j]
    BY <1>0 DEF TypeOK
  <1>2. \A j \in DOMAIN saves : saves'[j].of = saves[j].of
    BY <1>1
  <1>3. TypeOK'
    BY <1>0, <1>1, <1>2 DEF TypeOK
  <1>4. InfoInv'
    BY <1>0 DEF InfoInv
  <1>5. CountInv'
    <2>1. \A r \in Requests : OwnedIn(saves', r) = OwnedIn(saves, r)
      BY <1>1, <1>2 DEF OwnedIn
    <2> QED
      BY <1>0, <2>1 DEF CountInv
  <1>6. RowsInv'
    BY <1>0, <1>1 DEF RowsInv
  <1> QED
    BY <1>3, <1>4, <1>5, <1>6 DEF Inv

LEMMA StartSaveInv ==
  ASSUME Inv, NEW i \in DOMAIN saves, StartSave(i) \/ Insert(i)
  PROVE  Inv'
  <1>1. PICK t \in {"inserting", "broken", "saved", "failed"} : saves' = [saves EXCEPT ![i].state = t]
    BY DEF StartSave, Insert
  <1> DEFINE s == [saves[i] EXCEPT !.state = t]
  <1>2. /\ saves[i] \in Save /\ RowFine(saves[i], req[saves[i].of], rqOrder)
        /\ saves[i].state # "saved" /\ UNCHANGED <<rqOrder, req>>
    BY DEF Inv, TypeOK, RowsInv, StartSave, Insert
  <1>3. s \in Save /\ s.of = saves[i].of /\ s.row = saves[i].row /\ s.asked = saves[i].asked
    BY <1>2 DEF Save
  <1>4. saves' = [saves EXCEPT ![i] = s]
    BY <1>1
  <1> HIDE DEF s
  <1>5. RowFine(s, req[s.of], rqOrder)
    BY <1>2, <1>3 DEF RowFine, AuthFine, RsFine
  <1> QED
    BY <1>2, <1>3, <1>4, <1>5, SaveStepInv

\* An update writes what was asked for, or gives it up.
LEMMA UpdateInv ==
  ASSUME Inv, NEW i \in DOMAIN saves, NEW c \in Columns, Update(i, c) \/ Forget(i, c)
  PROVE  Inv'
  <1> DEFINE s == [saves[i] EXCEPT !.row[c] = saves[i].asked[c], !.asked[c] = None]
             t == [saves[i] EXCEPT !.asked[c] = None]
  <1>1. /\ saves[i] \in Save /\ RowFine(saves[i], req[saves[i].of], rqOrder)
        /\ saves[i].asked[c] # None /\ UNCHANGED <<rqOrder, req>>
    BY DEF Inv, TypeOK, RowsInv, Update, Forget
  <1>2. CASE saves' = [saves EXCEPT ![i].asked[c] = None]
    <2>1. /\ t \in Save /\ t.of = saves[i].of /\ t.row = saves[i].row /\ t.state = saves[i].state
          /\ t.asked[c] = None /\ \A d \in Columns \ {c} : t.asked[d] = saves[i].asked[d]
      BY <1>1 DEF Save
    <2>2. saves' = [saves EXCEPT ![i] = t]
      BY <1>2
    <2> HIDE DEF t
    <2>3. RowFine(t, req[t.of], rqOrder)
      BY <1>1, <2>1 DEF RowFine, AuthFine, RsFine
    <2> QED
      BY <1>1, <2>1, <2>2, <2>3, SaveStepInv
  <1>3. CASE saves' = [saves EXCEPT ![i].row[c] = saves[i].asked[c], ![i].asked[c] = None] /\ Ready(i)
    <2>1. /\ s \in Save /\ s.of = saves[i].of /\ s.state = saves[i].state
          /\ s.row[c] = saves[i].asked[c] /\ \A d \in Columns \ {c} : s.row[d] = saves[i].row[d]
          /\ s.asked[c] = None /\ \A d \in Columns \ {c} : s.asked[d] = saves[i].asked[d]
      BY <1>1 DEF Save
    <2>2. saves' = [saves EXCEPT ![i] = s]
      BY <1>3
    <2> HIDE DEF s
    <2>3. RowFine(s, req[s.of], rqOrder)
      BY <1>1, <1>3, <2>1 DEF RowFine, AuthFine, RsFine, Ready
    <2> QED
      BY <1>1, <2>1, <2>2, <2>3, SaveStepInv
  <1> QED
    BY <1>2, <1>3 DEF Update, Forget

-----------------------------------------------------------------------------
(* The theorems.                                                            *)

LEMMA NextInv == Inv /\ [Next]_vars => Inv'
  <1> SUFFICES ASSUME Inv, [Next]_vars PROVE Inv'
    OBVIOUS
  <1>1. ASSUME NEW r \in Requests, NEW client \in Clients \cup {NoClient}, NEW found \in BOOLEAN,
               Arrive(r, client, found)
        PROVE  Inv'
    BY <1>1, ArriveInv
  <1>2. ASSUME NEW r \in Requests, Serve(r) PROVE Inv'
    <2>1. CASE RqFilter(r)
      BY <2>1, RqFilterInv
    <2>2. CASE RqSaved(r)
      BY <2>2, PcInv DEF RqSaved
    <2>3. CASE JwtFilter(r)
      BY <2>3, JwtFilterInv
    <2>4. CASE AuthFilter(r)
      BY <2>4, AuthFilterInv
    <2>5. CASE SecurityFilter(r)
      BY <2>5, PcInv DEF SecurityFilter
    <2>6. CASE Proxy(r)
      BY <2>6, ProxyInv
    <2>7. CASE ErrorHandler(r)
      BY <2>7, ErrorHandlerInv
    <2>8. CASE ErrorAnswer(r)
      BY <2>8, ErrorAnswerInv
    <2> QED
      BY <1>2, <2>1, <2>2, <2>3, <2>4, <2>5, <2>6, <2>7, <2>8 DEF Serve
  <1>3. ASSUME NEW r \in Requests, Leave(r) PROVE Inv'
    BY <1>3, LeaveInv
  <1>4. ASSUME NEW i \in DOMAIN saves, StartSave(i) \/ Store(i) PROVE Inv'
    BY <1>4, StartSaveInv, UpdateInv DEF Store
  <1>5. CASE UNCHANGED vars
    BY <1>5 DEF vars, Inv, TypeOK, InfoInv, CountInv, RowsInv
  <1> QED
    BY <1>1, <1>2, <1>3, <1>4, <1>5 DEF Next

LEMMA AlwaysInv == Spec => []Inv
  BY InitInv, NextInv, PTL DEF Spec

\* Types hold, and the attribute and the error handler refer to saves of their
\* own request (RequestHistoryDBService, RequestHistoryExceptionHandler).
THEOREM TypeCorrect == Spec => []TypeOK
  <1>1. Inv => TypeOK
    BY DEF Inv
  <1> QED
    BY <1>1, AlwaysInv, PTL

\* However many requests there are, each is inserted once, or twice where its
\* filter runs after the one that adds the client (saveRequest, saveAuth).
THEOREM SavesCorrect == Spec => []SavesPerRequest
  <1>1. Inv => SavesPerRequest
    <2> SUFFICES ASSUME Inv, NEW i \in DOMAIN saves, NEW j \in DOMAIN saves, NEW k \in DOMAIN saves,
                        saves[i].of = saves[j].of, saves[j].of = saves[k].of
                 PROVE  IF rqOrder < Place("auth") THEN i = j ELSE i = j \/ j = k \/ i = k
      BY DEF SavesPerRequest
    <2> DEFINE r == saves[i].of
    <2>1. r \in Requests
      <3>1. saves[i] \in Save
        BY DEF Inv, TypeOK
      <3> QED
        BY <3>1 DEF Save
    <2>2. i \in OwnedIn(saves, r) /\ j \in OwnedIn(saves, r) /\ k \in OwnedIn(saves, r)
      BY DEF OwnedIn
    <2>3. CountFine(OwnedIn(saves, r), req[r], rqOrder)
      BY <2>1 DEF Inv, CountInv
    <2>4. Place("auth") = 11
      BY DEF Place
    <2> QED
      BY <2>2, <2>3, <2>4 DEF CountFine, Early
  <1> QED
    BY <1>1, AlwaysInv, PTL

\* What a row says of its request's client and response is so.
THEOREM RowsCorrect == Spec => []RowsTellTheTruth
  <1>1. Inv => RowsTellTheTruth
    BY DEF Inv, RowsInv, RowFine, AuthFine, RsFine, RowsTellTheTruth
  <1> QED
    BY <1>1, AlwaysInv, PTL

\* No update of a row is made before the row is.
THEOREM UpdatesCorrect == Spec => []RowBeforeUpdate
  <1>1. Inv => RowBeforeUpdate
    BY DEF Inv, RowsInv, RowFine, RowBeforeUpdate
  <1> QED
    BY <1>1, AlwaysInv, PTL

-----------------------------------------------------------------------------
(* No value is written twice.                                               *)

Kept == \A i \in DOMAIN saves, c \in Columns :
            saves[i].row[c] # None => saves'[i].row[c] = saves[i].row[c]

LEMMA RequestKeeps ==
  ASSUME Inv, NEW r \in Requests, Serve(r) \/ Leave(r)
  PROVE  \A i \in DOMAIN saves : saves'[i].row = saves[i].row
  <1>0. /\ saves \in Seq(Save) /\ TypeOK
        /\ \A i \in DOMAIN saves : saves[i] \in Save
    BY DEF Inv, TypeOK
  <1> DEFINE w == WithAuthSave(r)
  <1>1. /\ w \in Seq(Save) /\ AuthSave(r) \in DOMAIN w
        /\ \A i \in DOMAIN saves : i \in DOMAIN w /\ w[i] = saves[i]
    BY <1>0, WithAuthSaveFacts
  <1> HIDE DEF w
  <1>2. CASE saves' = w
    BY <1>1, <1>2
  <1>3. CASE req[r].client # NoClient /\ saves' = Ask(w, AuthSave(r), "auth", req[r].client)
    <2>1. req[r].client \in Value
      <3>1. req[r].client \in Clients \cup {NoClient}
        BY Known DEF Request
      <3> QED
        BY <1>3, <3>1
    <2>2. /\ saves'[AuthSave(r)].row = w[AuthSave(r)].row
          /\ \A j \in DOMAIN w \ {AuthSave(r)} : saves'[j] = w[j]
      BY <1>1, <1>3, <2>1, AskFacts
    <2> QED
      BY <1>1, <2>2
  <1>4. CASE \E i \in DOMAIN saves, v \in Codes : saves' = Ask(saves, i, "rs", v)
    BY <1>0, <1>4, AskFacts
  <1>5. CASE saves' = saves
    BY <1>5
  <1>6. CASE \E i \in DOMAIN saves : saves' = [saves EXCEPT ![i].state = "dropped"]
    <2>1. PICK i \in DOMAIN saves : saves' = [saves EXCEPT ![i].state = "dropped"]
      BY <1>6
    <2>2. [saves[i] EXCEPT !.state = "dropped"].row = saves[i].row
      BY <1>0 DEF Save
    <2>3. /\ saves'[i] = [saves[i] EXCEPT !.state = "dropped"]
          /\ \A j \in DOMAIN saves \ {i} : saves'[j] = saves[j]
      BY <1>0, <2>1
    <2> QED
      BY <2>2, <2>3
  <1>7. CASE RqFilter(r)
    <2>1. req[r].info = 0
      BY <1>7, Known DEF RqFilter, InfoFine
    <2> QED
      BY <1>2, <1>7, <2>1 DEF RqFilter, WithAuthSave, w
  <1>8. CASE AuthFilter(r)
    BY <1>2, <1>3, <1>8 DEF AuthFilter, w
  <1>9. CASE Proxy(r)
    <2>1. req[r].info \in DOMAIN saves
      BY <1>9, Known DEF TypeFine, InfoFine, Proxy
    <2> QED
      BY <1>4, <1>5, <1>9, <2>1 DEF Proxy
  <1>10. CASE ErrorHandler(r)
    BY <1>2, <1>10 DEF ErrorHandler, w
  <1>11. CASE ErrorAnswer(r)
    <2>1. req[r].waits \in DOMAIN saves
      BY <1>11, Known DEF TypeFine, ErrorAnswer
    <2> QED
      BY <1>4, <1>5, <1>11, <2>1 DEF ErrorAnswer
  <1>12. CASE Leave(r)
    <2> DEFINE i == IF At(r, "waitRq") THEN req[r].info
                    ELSE IF At(r, "waitError") THEN req[r].waits ELSE 0
    <2>1. i # 0 => i \in DOMAIN saves
      BY Known DEF TypeFine
    <2> QED
      BY <1>5, <1>6, <1>12, <2>1 DEF Leave
  <1>13. CASE RqSaved(r) \/ JwtFilter(r) \/ SecurityFilter(r)
    BY <1>5, <1>13 DEF RqSaved, JwtFilter, SecurityFilter
  <1> QED
    BY <1>7, <1>8, <1>9, <1>10, <1>11, <1>12, <1>13 DEF Serve

LEMMA NextKeeps == Inv /\ [Next]_vars => Kept
  <1> SUFFICES ASSUME Inv, [Next]_vars PROVE Kept
    OBVIOUS
  <1>0. \A i \in DOMAIN saves : saves[i] \in Save /\ RowFine(saves[i], req[saves[i].of], rqOrder)
    BY DEF Inv, TypeOK, RowsInv
  <1>1. CASE UNCHANGED saves
    BY <1>1 DEF Kept
  <1>2. ASSUME NEW r \in Requests, Serve(r) \/ Leave(r) PROVE Kept
    BY <1>2, RequestKeeps DEF Kept
  <1>3. ASSUME NEW i \in DOMAIN saves, StartSave(i) \/ Insert(i) PROVE Kept
    <2>1. PICK t \in {"inserting", "broken", "saved", "failed"} : saves' = [saves EXCEPT ![i].state = t]
      BY <1>3 DEF StartSave, Insert
    <2>2. [saves[i] EXCEPT !.state = t].row = saves[i].row
      BY <1>0 DEF Save
    <2> QED
      BY <2>1, <2>2 DEF Kept
  <1>4. ASSUME NEW i \in DOMAIN saves, NEW c \in Columns, Update(i, c) \/ Forget(i, c) PROVE Kept
    <2> DEFINE s == [saves[i] EXCEPT !.row[c] = saves[i].asked[c], !.asked[c] = None]
               t == [saves[i] EXCEPT !.asked[c] = None]
    <2>1. saves[i].asked[c] # None /\ saves[i].row[c] = None
      BY <1>0, <1>4 DEF RowFine, AuthFine, RsFine, Update, Forget
    <2>2. t.row = saves[i].row /\ \A d \in Columns \ {c} : s.row[d] = saves[i].row[d]
      BY <1>0 DEF Save
    <2>3. saves' = [saves EXCEPT ![i] = s] \/ saves' = [saves EXCEPT ![i] = t]
      BY <1>4 DEF Update, Forget
    <2> HIDE DEF s, t
    <2> QED
      BY <2>1, <2>2, <2>3 DEF Kept
  <1> QED
    BY <1>1, <1>2, <1>3, <1>4 DEF Next, Store, vars, Arrive

\* Neither the response decorator nor the error handler, nor the late client,
\* writes over what a row says already.
THEOREM RewriteCorrect == Spec => NeverRewritten
  <1>1. Inv /\ [Next]_vars => [Kept]_vars
    BY NextKeeps
  <1>2. Spec => [][Kept]_vars
    BY <1>1, AlwaysInv, PTL DEF Spec
  <1> QED
    BY <1>2 DEF NeverRewritten, Kept

-----------------------------------------------------------------------------
(* How far a request has to go.                                             *)

\* The steps that a request has left at most, where o is the filter's place.
Left(q, o) ==
    CASE q.pc \in Ends -> 0
      [] q.pc = "waitError" -> 1
      [] q.pc = "error" -> 2
      [] q.pc = "proxy" -> 3
      [] q.pc = "security" -> IF o > 20 THEN 6 ELSE 4
      [] q.pc = "waitRq" -> IF Early(o) THEN 7 ELSE IF o < 20 THEN 5 ELSE 4
      [] q.pc = "rq" -> IF Early(o) THEN 8 ELSE IF o < 20 THEN 6 ELSE 5
      [] q.pc = "auth" -> IF Early(o) THEN 5 ELSE 7
      [] q.pc = "jwt" -> IF Early(o) THEN 6 ELSE 8
      [] OTHER -> 9

Nearer(r) ==
    /\ Left(req'[r], rqOrder) \in Nat
    /\ Left(req'[r], rqOrder) < Left(req[r], rqOrder)

Onward == [][\A r \in Requests : req'[r] = req[r] \/ Nearer(r)]_<<rqOrder, req, saves>>

LEMMA GotoOnward ==
  ASSUME Inv, NEW r \in Requests,
         \/ req[r].pc = "idle" /\ req'[r].pc \in {FirstFilter, "error"}
         \/ req[r].pc = "rq" /\ req'[r].pc = "waitRq"
         \/ req[r].pc = "waitRq" /\ req'[r].pc \in {Behind(rqOrder), "error"}
         \/ req[r].pc = "jwt" /\ req'[r].pc \in {Behind(10), "error"}
         \/ req[r].pc = "auth" /\ req'[r].pc \in {Behind(11), "error"}
         \/ req[r].pc = "security" /\ req'[r].pc \in {Behind(20), "error"}
         \/ req[r].pc = "proxy" /\ req'[r].pc = "error"
         \/ req[r].pc = "error" /\ req'[r].pc = "waitError"
         \/ req[r].pc \notin Ends /\ req'[r].pc \in Ends
  PROVE  Nearer(r)
  <1>1. /\ rqOrder \in Int \ {10, 11, 20} /\ req[r] \in Request
        /\ FirstFilter = IF Early(rqOrder) THEN "rq" ELSE "jwt"
        /\ Behind(rqOrder) = IF Early(rqOrder) THEN "jwt" ELSE IF rqOrder < 20 THEN "security" ELSE "proxy"
        /\ Behind(10) = "auth"
        /\ Behind(11) = IF ~Early(rqOrder) /\ rqOrder < 20 THEN "rq" ELSE "security"
        /\ Behind(20) = IF rqOrder > 20 THEN "rq" ELSE "proxy"
    BY Known
  <1>2. req[r].pc \in {"idle", "waitRq", "error", "waitError"} \cup Filters \cup Ends
    BY <1>1 DEF Request
  <1> QED
    BY <1>1, <1>2 DEF Nearer, Left, Early

LEMMA ServeOnward ==
  ASSUME Inv, NEW r \in Requests, Serve(r) \/ Leave(r)
  PROVE  Nearer(r) /\ \A s \in Requests \ {r} : req'[s] = req[s]
  <1>0. req \in [Requests -> Request] /\ req[r] \in Request
    BY Known
  <1>1. \A s \in Requests \ {r} : req'[s] = req[s]
    BY <1>0 DEF Serve, RqFilter, RqSaved, JwtFilter, AuthFilter, SecurityFilter, Proxy,
                ErrorHandler, ErrorAnswer, Leave, Goto
  <1>2. CASE RqFilter(r)
    <2>1. req[r].pc = "rq" /\ req'[r].pc = "waitRq"
      BY <1>0, <1>2 DEF RqFilter, At, Request
    <2> QED
      BY <1>1, <2>1, GotoOnward
  <1>3. CASE RqSaved(r)
    <2>1. req[r].pc = "waitRq" /\ req'[r].pc \in {Behind(rqOrder), "error"}
      BY <1>0, <1>3 DEF RqSaved, At, Goto, Request
    <2> QED
      BY <1>1, <2>1, GotoOnward
  <1>4. CASE JwtFilter(r)
    <2>1. req[r].pc = "jwt" /\ req'[r].pc \in {Behind(10), "error"}
      BY <1>0, <1>4 DEF JwtFilter, At, Goto, Request
    <2> QED
      BY <1>1, <2>1, GotoOnward
  <1>5. CASE AuthFilter(r)
    <2>1. req[r].pc = "auth" /\ req'[r].pc \in {Behind(11), "error"}
      BY <1>0, <1>5 DEF AuthFilter, At, Goto, Request
    <2> QED
      BY <1>1, <2>1, GotoOnward
  <1>6. CASE SecurityFilter(r)
    <2>1. req[r].pc = "security" /\ req'[r].pc \in {Behind(20), "error"}
      BY <1>0, <1>6 DEF SecurityFilter, At, Goto, Request
    <2> QED
      BY <1>1, <2>1, GotoOnward
  <1>7. CASE Proxy(r)
    <2>1. req[r].pc = "proxy" /\ req'[r].pc \in {"error"} \cup Ends
      BY <1>0, <1>7 DEF Proxy, At, Goto, Request
    <2> QED
      BY <1>1, <2>1, GotoOnward
  <1>8. CASE ErrorHandler(r)
    <2>1. req[r].pc = "error" /\ req'[r].pc = "waitError"
      BY <1>0, <1>8 DEF ErrorHandler, At, Request
    <2> QED
      BY <1>1, <2>1, GotoOnward
  <1>9. CASE ErrorAnswer(r)
    <2>1. req[r].pc = "waitError" /\ req'[r].pc \in Ends
      BY <1>0, <1>9 DEF ErrorAnswer, At, Goto, Request
    <2> QED
      BY <1>1, <2>1, GotoOnward
  <1>10. CASE Leave(r)
    <2>1. req[r].pc \notin Ends /\ req'[r].pc \in Ends
      BY <1>0, <1>10 DEF Leave, Goto, Request
    <2> QED
      BY <1>1, <2>1, GotoOnward
  <1> QED
    BY <1>2, <1>3, <1>4, <1>5, <1>6, <1>7, <1>8, <1>9, <1>10 DEF Serve

LEMMA ArriveOnward ==
  ASSUME Inv, NEW r \in Requests, NEW client, NEW found \in BOOLEAN, Arrive(r, client, found)
  PROVE  Nearer(r) /\ \A s \in Requests \ {r} : req'[s] = req[s]
  <1>0. req \in [Requests -> Request] /\ req[r] \in Request
    BY Known
  <1>1. req[r].pc = "idle" /\ req'[r].pc \in {FirstFilter, "error"}
    BY <1>0 DEF Arrive, At, Request
  <1>2. \A s \in Requests \ {r} : req'[s] = req[s]
    BY <1>0 DEF Arrive
  <1> QED
    BY <1>1, <1>2, GotoOnward

\* The history adds a bounded number of steps to a request: wherever its filter
\* is placed, whatever fails and whatever the database does, a request is over
\* nine steps after it came in, and none of them leads it back to a filter it
\* was at (the chain of filters, RequestHistoryExceptionHandler).
THEOREM RequestsGoOnward == Spec => Onward
  <1>1. Inv /\ [Next]_vars => [\A r \in Requests : req'[r] = req[r] \/ Nearer(r)]_<<rqOrder, req, saves>>
    <2> SUFFICES ASSUME Inv, Next, NEW r \in Requests PROVE req'[r] = req[r] \/ Nearer(r)
      BY DEF vars
    <2>1. ASSUME NEW s \in Requests, NEW client \in Clients \cup {NoClient}, NEW found \in BOOLEAN,
                 Arrive(s, client, found)
          PROVE  req'[r] = req[r] \/ Nearer(r)
      BY <2>1, ArriveOnward
    <2>2. ASSUME NEW s \in Requests, Serve(s) \/ Leave(s) PROVE req'[r] = req[r] \/ Nearer(r)
      BY <2>2, ServeOnward
    <2>3. ASSUME NEW i \in DOMAIN saves, StartSave(i) \/ Store(i) PROVE req'[r] = req[r]
      BY <2>3 DEF StartSave, Store, Insert, Update, Forget
    <2> QED
      BY <2>1, <2>2, <2>3 DEF Next
  <1> QED
    BY <1>1, AlwaysInv, PTL DEF Spec, Onward

-----------------------------------------------------------------------------
(* Whom a dropped save concerns.                                            *)

Dropped == \A i \in DOMAIN saves : saves[i].state = "dropped" => req[saves[i].of].pc = "gone"

\* The save that a waiting request waits for is under way, or over.
NobodyWaitsInVain ==
    \A r \in Requests :
        /\ At(r, "waitRq") => saves[req[r].info].state # "dropped"
        /\ At(r, "waitError") => saves[req[r].waits].state # "dropped"

\* No save is dropped but one of a request that leaves.
LEMMA RequestDrops ==
  ASSUME Inv, NEW r \in Requests, Serve(r) \/ Leave(r), NEW i \in DOMAIN saves',
         saves'[i].state = "dropped"
  PROVE  \/ i \in DOMAIN saves /\ saves[i].state = "dropped" /\ saves'[i].of = saves[i].of
         \/ saves'[i].of = r /\ Leave(r)
  <1>0. /\ saves \in Seq(Save) /\ TypeOK
        /\ \A j \in DOMAIN saves : saves[j] \in Save
    BY DEF Inv, TypeOK
  <1> DEFINE w == WithAuthSave(r)
             Before(j, some) == j \in DOMAIN saves /\ saves[j].state = "dropped" /\ some[j].of = saves[j].of
  <1>1. /\ w \in Seq(Save) /\ AuthSave(r) \in DOMAIN w
        /\ \A j \in DOMAIN saves : w[j] = saves[j]
        /\ \A j \in DOMAIN w \ DOMAIN saves : w[j] = Started(r)
    BY <1>0, WithAuthSaveFacts
  <1> HIDE DEF w
  <1>2. \A j \in DOMAIN w : w[j].state = "dropped" => Before(j, w)
    BY <1>1 DEF Started
  <1>3. CASE saves' = w
    BY <1>2, <1>3
  <1>4. CASE req[r].client # NoClient /\ saves' = Ask(w, AuthSave(r), "auth", req[r].client)
    <2>1. req[r].client \in Value
      <3>1. req[r].client \in Clients \cup {NoClient}
        BY Known DEF Request
      <3> QED
        BY <1>4, <3>1
    <2>2. /\ DOMAIN saves' = DOMAIN w
          /\ saves'[AuthSave(r)].of = w[AuthSave(r)].of /\ saves'[AuthSave(r)].state = w[AuthSave(r)].state
          /\ \A j \in DOMAIN w \ {AuthSave(r)} : saves'[j] = w[j]
      BY <1>1, <1>4, <2>1, AskFacts
    <2> QED
      BY <1>2, <2>2
  <1>5. CASE \E j \in DOMAIN saves, v \in Codes : saves' = Ask(saves, j, "rs", v)
    <2>1. PICK j \in DOMAIN saves, v \in Codes : saves' = Ask(saves, j, "rs", v)
      BY <1>5
    <2>2. /\ DOMAIN saves' = DOMAIN saves
          /\ saves'[j].of = saves[j].of /\ saves'[j].state = saves[j].state
          /\ \A k \in DOMAIN saves \ {j} : saves'[k] = saves[k]
      BY <1>0, <2>1, AskFacts
    <2> QED
      BY <2>2
  <1>6. CASE saves' = saves
    BY <1>6
  <1>7. CASE RqFilter(r)
    <2>1. req[r].info = 0
      BY <1>7, Known DEF RqFilter, InfoFine
    <2> QED
      BY <1>3, <1>7, <2>1 DEF RqFilter, WithAuthSave, w
  <1>8. CASE AuthFilter(r)
    BY <1>3, <1>4, <1>8 DEF AuthFilter, w
  <1>9. CASE Proxy(r)
    <2>1. req[r].info \in DOMAIN saves
      BY <1>9, Known DEF TypeFine, InfoFine, Proxy
    <2> QED
      BY <1>5, <1>6, <1>9, <2>1 DEF Proxy
  <1>10. CASE ErrorHandler(r)
    BY <1>3, <1>10 DEF ErrorHandler, w
  <1>11. CASE ErrorAnswer(r)
    <2>1. req[r].waits \in DOMAIN saves
      BY <1>11, Known DEF TypeFine, ErrorAnswer
    <2> QED
      BY <1>5, <1>6, <1>11, <2>1 DEF ErrorAnswer
  <1>12. CASE Leave(r)
    <2> DEFINE k == IF At(r, "waitRq") THEN req[r].info
                    ELSE IF At(r, "waitError") THEN req[r].waits ELSE 0
    <2>1. k # 0 => k \in DOMAIN saves /\ saves[k].of = r
      BY <1>0, <1>12, Known DEF TypeFine
    <2>2. \/ saves' = saves
          \/ k # 0 /\ saves' = [saves EXCEPT ![k].state = "dropped"]
      BY <1>12 DEF Leave
    <2> HIDE DEF k
    <2>3. CASE k # 0 /\ saves' = [saves EXCEPT ![k].state = "dropped"]
      <3>1. [saves[k] EXCEPT !.state = "dropped"].of = r
        BY <1>0, <2>1, <2>3 DEF Save
      <3>2. /\ DOMAIN saves' = DOMAIN saves
            /\ saves'[k] = [saves[k] EXCEPT !.state = "dropped"]
            /\ \A j \in DOMAIN saves \ {k} : saves'[j] = saves[j]
        BY <1>0, <2>1, <2>3
      <3> QED
        BY <1>12, <3>1, <3>2
    <2> QED
      BY <1>6, <2>2, <2>3
  <1>13. CASE RqSaved(r) \/ JwtFilter(r) \/ SecurityFilter(r)
    BY <1>6, <1>13 DEF RqSaved, JwtFilter, SecurityFilter
  <1> QED
    BY <1>7, <1>8, <1>9, <1>10, <1>11, <1>12, <1>13 DEF Serve

LEMMA DroppedStep == Inv /\ Dropped /\ [Next]_vars => Dropped'
  <1> SUFFICES ASSUME Inv, Dropped, [Next]_vars, NEW i \in DOMAIN saves', saves'[i].state = "dropped"
               PROVE  req'[saves'[i].of].pc = "gone"
    BY DEF Dropped
  <1>0. /\ req \in [Requests -> Request] /\ saves \in Seq(Save)
        /\ \A j \in DOMAIN saves : saves[j] \in Save /\ saves[j].of \in Requests
    <2>1. req \in [Requests -> Request] /\ saves \in Seq(Save)
      BY DEF Inv, TypeOK
    <2>2. \A j \in DOMAIN saves : saves[j] \in Save
      BY <2>1
    <2> QED
      BY <2>1, <2>2 DEF Save
  <1>1. CASE UNCHANGED vars
    BY <1>1 DEF vars, Dropped
  <1>2. ASSUME NEW r \in Requests, Serve(r) \/ Leave(r) PROVE req'[saves'[i].of].pc = "gone"
    <2>1. /\ \A s \in Requests \ {r} : req'[s] = req[s]
          /\ Leave(r) => req'[r].pc = "gone"
          /\ req[r].pc \notin Ends
      <3>1. \A s \in Requests \ {r} : req'[s] = req[s]
        BY <1>2, ServeOnward
      <3>2. Leave(r) => req'[r].pc = "gone"
        BY <1>0 DEF Leave, Request
      <3>3. req[r].pc \notin Ends
        BY <1>2 DEF Serve, RqFilter, RqSaved, JwtFilter, AuthFilter, SecurityFilter, Proxy,
                    ErrorHandler, ErrorAnswer, Leave
      <3> QED
        BY <3>1, <3>2, <3>3
    <2>2. CASE saves'[i].of = r /\ Leave(r)
      BY <2>1, <2>2
    <2>3. CASE i \in DOMAIN saves /\ saves[i].state = "dropped" /\ saves'[i].of = saves[i].of
      <3>1. req[saves[i].of].pc = "gone" /\ saves[i].of \in Requests
        BY <1>0, <2>3 DEF Dropped
      <3> QED
        BY <2>1, <2>3, <3>1
    <2> QED
      BY <1>2, <2>2, <2>3, RequestDrops
  <1>3. ASSUME NEW r \in Requests, NEW client \in Clients \cup {NoClient}, NEW found \in BOOLEAN,
               Arrive(r, client, found)
        PROVE  req'[saves'[i].of].pc = "gone"
    <2>1. req[r].pc = "idle" /\ saves' = saves /\ \A s \in Requests \ {r} : req'[s] = req[s]
      BY <1>0, <1>3 DEF Arrive
    <2>2. req[saves[i].of].pc = "gone" /\ saves[i].of \in Requests
      BY <1>0, <2>1 DEF Dropped
    <2> QED
      BY <2>1, <2>2
  <1>4. ASSUME NEW j \in DOMAIN saves, StartSave(j) \/ Store(j) PROVE req'[saves'[i].of].pc = "gone"
    <2>1. req' = req
      BY <1>4 DEF StartSave, Store, Insert, Update, Forget
    <2>2. i \in DOMAIN saves /\ saves'[i].of = saves[i].of /\ saves[i].state = "dropped"
      <3>1. CASE \E t \in {"inserting", "broken", "saved", "failed"} : saves' = [saves EXCEPT ![j].state = t]
        <4>1. PICK t \in {"inserting", "broken", "saved", "failed"} : saves' = [saves EXCEPT ![j].state = t]
          BY <3>1
        <4>2. [saves[j] EXCEPT !.state = t].of = saves[j].of /\ [saves[j] EXCEPT !.state = t].state = t
          BY <1>0 DEF Save
        <4>3. /\ DOMAIN saves' = DOMAIN saves /\ saves'[j] = [saves[j] EXCEPT !.state = t]
              /\ \A k \in DOMAIN saves \ {j} : saves'[k] = saves[k]
          BY <1>0, <4>1
        <4> QED
          BY <4>1, <4>2, <4>3
      <3>2. ASSUME NEW c \in Columns, Update(j, c) \/ Forget(j, c)
            PROVE  i \in DOMAIN saves /\ saves'[i].of = saves[i].of /\ saves[i].state = "dropped"
        <4> DEFINE s == [saves[j] EXCEPT !.row[c] = saves[j].asked[c], !.asked[c] = None]
                   t == [saves[j] EXCEPT !.asked[c] = None]
        <4>1. /\ s.of = saves[j].of /\ s.state = saves[j].state
              /\ t.of = saves[j].of /\ t.state = saves[j].state
          BY <1>0 DEF Save
        <4>2. saves' = [saves EXCEPT ![j] = s] \/ saves' = [saves EXCEPT ![j] = t]
          BY <3>2 DEF Update, Forget
        <4> HIDE DEF s, t
        <4>3. /\ DOMAIN saves' = DOMAIN saves /\ saves'[j] \in {s, t}
              /\ \A k \in DOMAIN saves \ {j} : saves'[k] = saves[k]
          BY <1>0, <4>2
        <4> QED
          BY <4>1, <4>3
      <3> QED
        BY <1>4, <3>1, <3>2 DEF Store, StartSave, Insert
    <2> QED
      BY <2>1, <2>2 DEF Dropped
  <1> QED
    BY <1>1, <1>2, <1>3, <1>4 DEF Next

\* A request waits for a thread that begins its save, and the executor's queue
\* loses a save only with the request that waited for it: cancellation never
\* leaves anybody waiting for a save that nobody will make (the cached Mono of
\* RequestHistoryDBService, which the filter and the error handler share).
THEOREM WaitsAreServed == Spec => []NobodyWaitsInVain
  <1>1. Init => Dropped
    BY DEF Init, Dropped
  <1>2. Inv /\ Dropped => NobodyWaitsInVain
    <2> SUFFICES ASSUME Inv, Dropped, NEW r \in Requests
                 PROVE  /\ At(r, "waitRq") => saves[req[r].info].state # "dropped"
                        /\ At(r, "waitError") => saves[req[r].waits].state # "dropped"
      BY DEF NobodyWaitsInVain
    <2>1. TypeFine(req[r], r, saves) /\ saves \in Seq(Save)
      BY Known
    <2>2. /\ At(r, "waitRq") => req[r].info \in DOMAIN saves /\ saves[req[r].info].of = r
          /\ At(r, "waitError") => req[r].waits \in DOMAIN saves /\ saves[req[r].waits].of = r
      BY <2>1 DEF TypeFine
    <2> QED
      BY <2>2 DEF Dropped
  <1> QED
    BY <1>1, <1>2, AlwaysInv, DroppedStep, PTL DEF Spec

=============================================================================
