--------------------------- MODULE RequestHistory ---------------------------
(***************************************************************************)
(* The history of requests in Postgres (service/requestHistory).  A        *)
(* request is saved beside its way through the filters: one filter has the *)
(* row inserted (RequestHistoryGatewayFilterRq, at a configurable place),  *)
(* one adds the client to it (RequestHistoryGatewayFilterSecurity, right   *)
(* after the JWT filter), and the response adds itself, on the usual way   *)
(* (RequestHistoryResponseDecorator) or from the error handler             *)
(* (RequestHistoryExceptionHandler).  saveRequest, saveAuth and saveRs run *)
(* on threads of their own, their statements on others again; the row's id *)
(* is a cached Mono that whoever updates the row waits for.                *)
(*                                                                         *)
(* Not here: sizes, times, headers and their masking; the partitions of    *)
(* the table (a missing one is a failing insert).                          *)
(***************************************************************************)
EXTENDS Integers, Sequences, FiniteSets

CONSTANTS
    Requests,
    Clients,
    NoClient,
    RqOrders      \* values of spring.r2dbc.request-history-filter-order

ASSUME NoClientAssumption == NoClient \notin Clients
ASSUME OrderAssumption == RqOrders \subseteq (Int \ {10, 11, 20}) /\ \A o \in RqOrders : o < 40

VARIABLES
    rqOrder,    \* the configured order of RequestHistoryGatewayFilterRq
    req,        \* what each request is at
    saves       \* every saveRequest that was asked for, with the row it makes

vars == <<rqOrder, req, saves>>

Filters == {"rq", "jwt", "auth", "security", "proxy"}

Place(f) ==
    CASE f = "rq" -> rqOrder
      [] f = "jwt" -> 10
      [] f = "auth" -> 11
      [] f = "security" -> 20
      [] f = "proxy" -> 40

Behind(order) ==
    CHOOSE f \in Filters :
        /\ Place(f) > order
        /\ \A g \in Filters : Place(g) > order => Place(f) <= Place(g)

FirstFilter == CHOOSE f \in Filters : \A g \in Filters : Place(f) <= Place(g)

Columns == {"auth", "rs"}

\* No value: nothing to write, or nothing written.
None == "none"

Codes == {"upstream", "error"}

\* The ends of a request: a response that came through as a whole, a response
\* that broke off or was streamed (writeAndFlushWith, which the decorator does
\* not see), the container's own 500, no response as the client has gone.
Ends == {"answered", "cut", "bare", "gone"}

Request ==
    [pc : {"idle", "waitRq", "error", "waitError"} \cup Filters \cup Ends,
     brings : Clients \cup {NoClient},     \* whose token it has
     client : Clients \cup {NoClient},     \* SECURITY_CLIENT_ATTRIBUTE
     info : Nat,                           \* ATTRIBUTES_REQUEST_HISTORY_INFO: a save, 0 if unset
     waits : Nat,                          \* the save the error handler waits for
     code : Codes \cup {None}]             \* what the client was answered

Value == Clients \cup Codes \cup {None}

Save ==
    [of : Requests,
     state : {"starting", "inserting", "saved", "failed", "broken", "dropped"},
     asked : [Columns -> Value],           \* updates that wait for the id
     row : [Columns -> Value]]

Nothing == [c \in Columns |-> None]

Started(r) == [of |-> r, state |-> "starting", asked |-> Nothing, row |-> Nothing]

Init ==
    /\ rqOrder \in RqOrders
    /\ req = [r \in Requests |->
                 [pc |-> "idle", brings |-> NoClient, client |-> NoClient,
                  info |-> 0, waits |-> 0, code |-> None]]
    /\ saves = <<>>

-----------------------------------------------------------------------------
(* The request's own way.                                                   *)

At(r, pc) == req[r].pc = pc

Goto(r, pc) == req' = [req EXCEPT ![r].pc = pc]

\* saveAuth and saveRs subscribe to an update that waits for the row's id.
Ask(some, i, c, value) == [some EXCEPT ![i].asked[c] = value]

\* A request finds a route, or none, which is an error before any filter.
Arrive(r, client, found) ==
    /\ At(r, "idle")
    /\ req' = [req EXCEPT ![r].pc = IF found THEN FirstFilter ELSE "error",
                          ![r].brings = client]
    /\ UNCHANGED <<rqOrder, saves>>

\* RequestHistoryGatewayFilterRq.filter: the future goes to the attribute, the
\* save to an executor, and the request waits for saveRequest to return ...
RqFilter(r) ==
    /\ At(r, "rq")
    /\ saves' = Append(saves, Started(r))
    /\ req' = [req EXCEPT ![r].pc = "waitRq", ![r].info = Len(saves) + 1]
    /\ UNCHANGED rqOrder

\* Mutant: the request waits for its row.
RqSaved_Inserted(r) ==
    /\ At(r, "waitRq")
    /\ saves[req[r].info].state \in {"saved", "failed", "broken"}
    /\ Goto(r, IF saves[req[r].info].state = "broken" THEN "error" ELSE Behind(rqOrder))
    /\ UNCHANGED <<rqOrder, saves>>

\* ... which subscribed to the insert but does not wait for it.
RqSaved(r) ==
    /\ At(r, "waitRq")
    /\ saves[req[r].info].state # "starting"
    /\ Goto(r, IF saves[req[r].info].state = "broken" THEN "error" ELSE Behind(rqOrder))
    /\ UNCHANGED <<rqOrder, saves>>

JwtFilter(r) ==
    /\ At(r, "jwt")
    /\ \/ req' = [req EXCEPT ![r].pc = Behind(10), ![r].client = req[r].brings]
       \/ Goto(r, "error")
    /\ UNCHANGED <<rqOrder, saves>>

\* saveAuth finds the save in the attribute or starts one of its own, which it
\* does not put there.
AuthSave(r) == IF req[r].info = 0 THEN Len(saves) + 1 ELSE req[r].info

\* Mutant: it starts one of its own always.
WithAuthSave_Always(r) == Append(saves, Started(r))

WithAuthSave(r) == IF req[r].info = 0 THEN Append(saves, Started(r)) ELSE saves

\* RequestHistoryGatewayFilterSecurity.filter: the client is to be added to
\* the row.  An id that is no UUID fails the request.
AuthFilter(r) ==
    /\ At(r, "auth")
    /\ \/ /\ req[r].client = NoClient
          /\ saves' = WithAuthSave(r)
          /\ Goto(r, Behind(11))
       \/ /\ req[r].client # NoClient
          /\ saves' = Ask(WithAuthSave(r), AuthSave(r), "auth", req[r].client)
          /\ Goto(r, Behind(11))
       \/ /\ req[r].client # NoClient
          /\ saves' = WithAuthSave(r)
          /\ Goto(r, "error")
    /\ UNCHANGED rqOrder

SecurityFilter(r) ==
    /\ At(r, "security")
    /\ Goto(r, Behind(20)) \/ Goto(r, "error")
    /\ UNCHANGED <<rqOrder, saves>>

\* Mutant: the response is recorded when it begins.
Proxy_Early(r) ==
    /\ At(r, "proxy")
    /\ saves' = Ask(saves, req[r].info, "rs", "upstream")
    /\ \/ req' = [req EXCEPT ![r].pc = "answered", ![r].code = "upstream"]
       \/ \E pc \in {"gone", "cut", "error"} : Goto(r, pc)
    /\ UNCHANGED rqOrder

\* The response comes through and asks to be added to the row (and may still
\* miss the client); or it breaks off, or is streamed, and adds nothing; or
\* there is none.
Proxy(r) ==
    /\ At(r, "proxy")
    /\ \/ /\ \/ req' = [req EXCEPT ![r].pc = "answered", ![r].code = "upstream"]
             \/ Goto(r, "gone")
          /\ saves' = Ask(saves, req[r].info, "rs", "upstream")
       \/ Goto(r, "cut") /\ UNCHANGED saves
       \/ Goto(r, "error") /\ UNCHANGED saves
    /\ UNCHANGED rqOrder

\* Mutant: it waits for the save in the attribute even if there is none.
ErrorHandler_NoSave(r) ==
    /\ At(r, "error")
    /\ req' = [req EXCEPT ![r].pc = "waitError", ![r].waits = req[r].info]
    /\ UNCHANGED <<rqOrder, saves>>

\* The error handler takes the save from the attribute, or starts one.
ErrorHandler(r) ==
    /\ At(r, "error")
    /\ saves' = WithAuthSave(r)
    /\ req' = [req EXCEPT ![r].pc = "waitError", ![r].waits = AuthSave(r)]
    /\ UNCHANGED rqOrder

\* It answers when saveRequest has returned; where that failed the container
\* answers for it.
ErrorAnswer(r) ==
    /\ At(r, "waitError")
    /\ LET i == req[r].waits
       IN /\ saves[i].state # "starting"
          /\ IF saves[i].state = "broken"
             THEN Goto(r, "bare") /\ UNCHANGED saves
             ELSE /\ req' = [req EXCEPT ![r].pc = "answered", ![r].code = "error"]
                  /\ saves' = Ask(saves, i, "rs", "error")
    /\ UNCHANGED rqOrder

\* The client is gone: the chain is cancelled where it is, and with it a save
\* the request waits for and no thread has begun.
Leave(r) ==
    /\ req[r].pc \notin {"idle"} \cup Ends
    /\ Goto(r, "gone")
    /\ LET i == IF At(r, "waitRq") THEN req[r].info
                ELSE IF At(r, "waitError") THEN req[r].waits ELSE 0
       IN saves' = IF i # 0 /\ saves[i].state = "starting"
                   THEN [saves EXCEPT ![i].state = "dropped"] ELSE saves
    /\ UNCHANGED rqOrder

-----------------------------------------------------------------------------
(* Beside it: the executor's threads and the database.                      *)

\* saveRequest on its thread: the insert is on its way, or it threw before.
StartSave(i) ==
    /\ saves[i].state = "starting"
    /\ \E s \in {"inserting", "broken"} : saves' = [saves EXCEPT ![i].state = s]
    /\ UNCHANGED <<rqOrder, req>>

Insert(i) ==
    /\ saves[i].state = "inserting"
    /\ \E s \in {"saved", "failed"} : saves' = [saves EXCEPT ![i].state = s]
    /\ UNCHANGED <<rqOrder, req>>

\* Mutant: the update does not wait for the id.
Ready_Always(i) == saves[i].state \in {"inserting", "saved"}

Ready(i) == saves[i].state = "saved"

\* An update waits for the row's id; the two of a row come in either order.
Update(i, c) ==
    /\ saves[i].asked[c] # None
    /\ Ready(i)
    /\ \/ saves' = [saves EXCEPT ![i].row[c] = saves[i].asked[c], ![i].asked[c] = None]
       \/ saves' = [saves EXCEPT ![i].asked[c] = None]
    /\ UNCHANGED <<rqOrder, req>>

\* Mutant: only a failing insert ends the wait.
Forget_Insert(i, c) ==
    /\ saves[i].asked[c] # None
    /\ saves[i].state = "failed"
    /\ saves' = [saves EXCEPT ![i].asked[c] = None]
    /\ UNCHANGED <<rqOrder, req>>

\* No id, no update.
Forget(i, c) ==
    /\ saves[i].asked[c] # None
    /\ saves[i].state \in {"failed", "broken"}
    /\ saves' = [saves EXCEPT ![i].asked[c] = None]
    /\ UNCHANGED <<rqOrder, req>>

-----------------------------------------------------------------------------

Serve(r) ==
    \/ RqFilter(r) \/ RqSaved(r) \/ JwtFilter(r) \/ AuthFilter(r)
    \/ SecurityFilter(r) \/ Proxy(r) \/ ErrorHandler(r) \/ ErrorAnswer(r)

Store(i) == Insert(i) \/ \E c \in Columns : Update(i, c) \/ Forget(i, c)

Next ==
    \/ \E r \in Requests :
          \/ \E client \in Clients \cup {NoClient}, found \in BOOLEAN : Arrive(r, client, found)
          \/ Serve(r)
          \/ Leave(r)
    \/ \E i \in DOMAIN saves : StartSave(i) \/ Store(i)

\* A request asks for two saves at the most: see SavesPerRequest.
SaveIds == 1..(2 * Cardinality(Requests))

\* Reactor schedules what is ready, and the executor starts what it is given;
\* nothing is assumed of the database.
Spec ==
    /\ Init /\ [][Next]_vars
    /\ \A r \in Requests : WF_vars(Serve(r))
    /\ \A i \in SaveIds : WF_vars(i \in DOMAIN saves /\ StartSave(i))

-----------------------------------------------------------------------------
(* Properties.                                                              *)

TypeOK ==
    /\ rqOrder \in RqOrders
    /\ req \in [Requests -> Request]
    /\ saves \in Seq(Save)
    /\ \A r \in Requests :
          /\ req[r].info \in 0..Len(saves) /\ req[r].waits \in 0..Len(saves)
          /\ req[r].info # 0 => saves[req[r].info].of = r
          /\ req[r].waits # 0 => saves[req[r].waits].of = r
          /\ req[r].pc = "waitRq" => req[r].info # 0
          /\ req[r].pc = "waitError" => req[r].waits # 0

\* A request is inserted once, whatever fails on its way and whoever comes
\* first to ask for its row, as long as RequestHistoryGatewayFilterRq runs
\* before the filter that adds the client; else there may be a second row, but
\* no third.
SavesPerRequest ==
    \A i, j, k \in DOMAIN saves :
        saves[i].of = saves[j].of /\ saves[j].of = saves[k].of =>
            IF rqOrder < Place("auth") THEN i = j ELSE i = j \/ j = k \/ i = k

\* What a row says of its request is so: the client is the one the JWT filter
\* found, the code the one that was sent (if anybody was there to receive it),
\* and a response that broke off or never was is not recorded as one.
RowsTellTheTruth ==
    \A i \in DOMAIN saves :
        LET row == saves[i].row
            r == req[saves[i].of]
        IN /\ row["auth"] # None => row["auth"] = r.client
           /\ row["rs"] # None => row["rs"] = r.code \/ r.pc = "gone"

\* However the statements are delayed, an update meets the row it is for.
RowBeforeUpdate ==
    \A i \in DOMAIN saves : saves[i].row # Nothing => saves[i].state = "saved"

\* A value once written stays: no request records two responses, one from the
\* decorator and one from the error handler.
NeverRewritten ==
    [][\A i \in DOMAIN saves, c \in Columns :
          saves[i].row[c] # None => saves'[i].row[c] = saves[i].row[c]]_vars

\* The history holds no request up: it ends even if the database never answers.
EveryRequestEnds ==
    \A r \in Requests : req[r].pc # "idle" ~> req[r].pc \in Ends

\* If the database answers, every update that was asked for is written or
\* given up, even where saveRequest failed before there was an insert.
UpdatesEnd ==
    (\A i \in SaveIds : WF_vars(i \in DOMAIN saves /\ Store(i)))
        => \A i \in SaveIds, c \in Columns :
              (i \in DOMAIN saves /\ saves[i].asked[c] # None)
                 ~> (i \in DOMAIN saves /\ saves[i].asked[c] = None)
=============================================================================
