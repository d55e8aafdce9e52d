---------------------------- MODULE TokenCaches -----------------------------
(***************************************************************************)
(* Two tokens the gateway keeps for itself and shares among requests.       *)
(*                                                                          *)
(* Oath2AuthComponent: the access token for the identity server.  A         *)
(* scheduled task asks for the next one when half of the lifetime is over;  *)
(* requests take what is there, or fail if it has expired.                  *)
(*                                                                          *)
(* IOSDeviceCheckJWTComponent: the JWT for Apple.  A request that finds it  *)
(* expired makes the next one, under a semaphore, if it is still expired by *)
(* then.                                                                    *)
(*                                                                          *)
(* Time is in ticks of the task's delay, one second.  LocalDateTime.MIN is  *)
(* 0, and the clock starts at 1.                                            *)
(***************************************************************************)
EXTENDS Integers

CONSTANTS
    Lookups,     \* requests that ask the identity server for a user
    Checks,      \* requests that have Apple check a device
    Lifetime,    \* expires_in of the identity server's tokens
    Ttl,         \* of the Apple JWT
    MaxDelay,    \* how long a timely identity server takes to answer
    MaxTime, MaxFails   \* bounds of the model

Callers == Lookups \cup Checks

\* A token's first half leaves time to notice that it is over, and to ask.
ASSUME CacheAssumption ==
    /\ Lookups \cap Checks = {}
    /\ {Lifetime, Ttl, MaxDelay, MaxTime, MaxFails} \subseteq Nat
    /\ Ttl > 0 /\ MaxTime > 0
    /\ Lifetime \div 2 > MaxDelay

VARIABLES
    now,
    timely,  \* does the environment keep its time: the scheduler its delay,
             \* the identity server MaxDelay?
    token,   \* Oath2AuthComponent.token
    task,    \* the scheduled task, between two runs or in one
    jwt,     \* atomicJWT: its expiration
    permit,  \* is jwtSemaphore free?
    caller,  \* the requests
    fails    \* failures so far

vars == <<now, timely, token, task, jwt, permit, caller, fails>>

Times == 0..(MaxTime + Lifetime + Ttl)

\* The identity server accepts a token until serverTill, which the gateway
\* does not know; validTill is what it goes by.
Token == [validTill : Times, expiresIn : {0, Lifetime}, serverTill : Times]
NoToken == [validTill |-> 0, expiresIn |-> 0, serverTill |-> 0]

Idle == [pc |-> "idle", at |-> 0, token |-> NoToken, jwt |-> 0]

\* The task between two runs; "ran" says whether it ran in this tick.
Waiting(ran) == [pc |-> "idle", ran |-> ran, rqTime |-> 0, till |-> 0]

Init ==
    /\ now = 1
    /\ timely \in BOOLEAN
    /\ token = NoToken
    /\ task = Waiting(FALSE)
    /\ jwt = 0
    /\ permit = TRUE
    /\ caller = [c \in Callers |-> Idle]
    /\ fails = 0

-----------------------------------------------------------------------------
(* The task: only one run at a time (SchedulerType.VIRTUAL_WAIT).           *)

\* Mutant: a new token is asked for when the old one has expired.
CloseToExpire_Expired == token.validTill < now

\* Mutant: the comparison is turned round.
CloseToExpire_Reversed == token.validTill - token.expiresIn \div 2 > now

CloseToExpire == token.validTill - token.expiresIn \div 2 < now

RunTask ==
    /\ task.pc = "idle"
    /\ task' = IF CloseToExpire
               THEN [pc |-> "asking", ran |-> TRUE, rqTime |-> now, till |-> 0]
               ELSE Waiting(TRUE)
    /\ UNCHANGED <<now, timely, token, jwt, permit, caller, fails>>

\* The identity server makes a token at some time after it was asked for it.
Issue ==
    /\ task.pc = "asking"
    /\ task' = [task EXCEPT !.pc = "issued", !.till = now + Lifetime]
    /\ UNCHANGED <<now, timely, token, jwt, permit, caller, fails>>

\* Mutant: the token's life is reckoned from the answer.
Answer_FromAnswer ==
    /\ task.pc = "issued"
    /\ token' = [validTill |-> now + Lifetime, expiresIn |-> Lifetime, serverTill |-> task.till]
    /\ task' = Waiting(TRUE)
    /\ UNCHANGED <<now, timely, jwt, permit, caller, fails>>

\* The token's life is reckoned from the request for it.
Answer ==
    /\ task.pc = "issued"
    /\ token' = [validTill |-> task.rqTime + Lifetime, expiresIn |-> Lifetime,
                 serverTill |-> task.till]
    /\ task' = Waiting(TRUE)
    /\ UNCHANGED <<now, timely, jwt, permit, caller, fails>>

\* An error, or no answer: the old token stays, and the task runs again.
AskFailed ==
    /\ task.pc \in {"asking", "issued"}
    /\ ~timely
    /\ fails < MaxFails
    /\ fails' = fails + 1
    /\ task' = Waiting(TRUE)
    /\ UNCHANGED <<now, timely, token, jwt, permit, caller>>

-----------------------------------------------------------------------------
(* getAccessToken                                                           *)

\* With an expired token it throws, and nothing has changed.
CheckToken(c) ==
    /\ caller[c].pc = "idle"
    /\ ~(token.validTill < now)
    /\ caller' = [caller EXCEPT ![c].pc = "checked", ![c].at = now]
    /\ UNCHANGED <<now, timely, token, task, jwt, permit, fails>>

\* What is returned is read anew.
TakeToken(c) ==
    /\ caller[c].pc = "checked"
    /\ caller' = [caller EXCEPT ![c].pc = "taken", ![c].token = token]
    /\ UNCHANGED <<now, timely, token, task, jwt, permit, fails>>

-----------------------------------------------------------------------------
(* getJWTString                                                             *)

\* A valid JWT is returned at once; nothing changes.
GetJwt(c) ==
    /\ caller[c].pc = "idle"
    /\ ~(jwt > now)
    /\ caller' = [caller EXCEPT ![c].pc = "waiting"]
    /\ UNCHANGED <<now, timely, token, task, jwt, permit, fails>>

\* Mutant: inside the semaphore the JWT is not looked at again.
Enter_CheckedOnce(c) ==
    /\ caller[c].pc = "waiting"
    /\ permit
    /\ caller' = [caller EXCEPT ![c].pc = "creating"]
    /\ permit' = FALSE
    /\ UNCHANGED <<now, timely, token, task, jwt, fails>>

\* getJWTSynchronized: with a JWT that is valid after all, in and out again.
Enter(c) ==
    /\ caller[c].pc = "waiting"
    /\ permit
    /\ caller' = [caller EXCEPT ![c].pc = IF jwt > now THEN "idle" ELSE "creating"]
    /\ permit' = (jwt > now)
    /\ UNCHANGED <<now, timely, token, task, jwt, fails>>

Create(c) ==
    /\ caller[c].pc = "creating"
    /\ caller' = [caller EXCEPT ![c].pc = "setting", ![c].jwt = now + Ttl]
    /\ UNCHANGED <<now, timely, token, task, jwt, permit, fails>>

\* Mutant: the semaphore is not released when the JWT cannot be made.
CreateFailed_Kept(c) ==
    /\ caller[c].pc = "creating"
    /\ fails < MaxFails
    /\ fails' = fails + 1
    /\ caller' = [caller EXCEPT ![c] = Idle]
    /\ UNCHANGED <<now, timely, token, task, jwt, permit>>

CreateFailed(c) ==
    /\ caller[c].pc = "creating"
    /\ fails < MaxFails
    /\ fails' = fails + 1
    /\ caller' = [caller EXCEPT ![c] = Idle]
    /\ permit' = TRUE
    /\ UNCHANGED <<now, timely, token, task, jwt>>

SetJwt(c) ==
    /\ caller[c].pc = "setting"
    /\ jwt' = caller[c].jwt
    /\ permit' = TRUE
    /\ caller' = [caller EXCEPT ![c] = Idle]
    /\ UNCHANGED <<now, timely, token, task, fails>>

\* The request to the identity server has the token in its header, and is done.
Sent(c) ==
    /\ caller[c].pc = "taken"
    /\ caller' = [caller EXCEPT ![c] = Idle]
    /\ UNCHANGED <<now, timely, token, task, jwt, permit, fails>>

-----------------------------------------------------------------------------
\* In a timely world the task has run in this tick before the next one comes,
\* and an answer is there in time.
Tick ==
    /\ now < MaxTime
    /\ timely => IF task.pc = "idle" THEN task.ran ELSE now < task.rqTime + MaxDelay
    /\ now' = now + 1
    /\ task' = [task EXCEPT !.ran = FALSE]
    /\ UNCHANGED <<timely, token, jwt, permit, caller, fails>>

Refresh == RunTask \/ Issue \/ Answer

Renew(c) == Enter(c) \/ Create(c) \/ SetJwt(c)

Next ==
    \/ Refresh \/ AskFailed \/ Tick
    \/ \E c \in Lookups : CheckToken(c) \/ TakeToken(c) \/ Sent(c)
    \/ \E c \in Checks : GetJwt(c) \/ Renew(c) \/ CreateFailed(c)

\* The scheduler runs the task again and again, the server answers in the end
\* (or the HTTP client gives up), and a request that can go on goes on.
Spec ==
    /\ Init /\ [][Next]_vars
    /\ WF_vars(Refresh)
    /\ \A c \in Checks : WF_vars(Renew(c))

-----------------------------------------------------------------------------
(* Properties.                                                              *)

TypeOK ==
    /\ now \in 1..MaxTime
    /\ timely \in BOOLEAN
    /\ token \in Token
    /\ task \in [pc : {"idle", "asking", "issued"}, ran : BOOLEAN, rqTime : Times, till : Times]
    /\ jwt \in Times
    /\ permit = (\A c \in Callers : caller[c].pc \notin {"creating", "setting"})
    /\ caller \in [Callers -> [pc : {"idle", "checked", "taken", "waiting", "creating", "setting"},
                               at : Times, token : Token, jwt : Times]]
    /\ fails \in 0..MaxFails

\* The token a request takes is one that the identity server still accepted at
\* the time it was checked, although it is read a second time after the check,
\* a refresh may come in between, and the server's own reckoning of its life is
\* not known here (Oath2AuthComponent.getAccessToken and Token.validTill).
TakenIsAccepted ==
    \A c \in Lookups : caller[c].pc = "taken" => caller[c].token.serverTill >= caller[c].at

\* Once there has been a token, requests always find one that is valid, as long
\* as the scheduler and the identity server keep their time: half of a lifetime
\* is enough to get the next one (the scheduled task of Oath2AuthComponent).
AlwaysServed == timely /\ token.expiresIn > 0 => ~(token.validTill < now)

\* A JWT for Apple is made only when the one before has expired: however many
\* requests find it expired at once, one of them makes the next
\* (IOSDeviceCheckJWTComponent.getJWTSynchronized).
OneRenewalPerLifetime == [][jwt' # jwt => jwt' - Ttl >= jwt]_vars

\* Failures of the identity server do not end the refreshing: there is a valid
\* token again and again.
RefreshGoesOn == []<>(token.validTill >= now)

\* A request that finds the JWT expired gets one, or an error, in the end, even
\* if another fails to make it.
EveryCallerServed ==
    \A c \in Checks : caller[c].pc = "waiting" ~> caller[c].pc = "idle"
=============================================================================
