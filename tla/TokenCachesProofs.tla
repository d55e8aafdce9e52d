-------------------------- MODULE TokenCachesProofs --------------------------
(***************************************************************************)
(* Proofs about TokenCaches, for any number of requests, any lifetimes and  *)
(* delays that CacheAssumption admits, and any failures.                    *)
(*                                                                          *)
(* The invariant has a part per argument.  TaskInv: tokens get better.      *)
(* LookupInv: what was checked stays good enough.  TimelyInv: how much of a *)
(* lifetime the task has left, at each of its steps.  RenewalInv: one       *)
(* request at a time holds the semaphore, and meanwhile nobody else         *)
(* renews the JWT it found expired.                                         *)
(*                                                                          *)
(* Margin puts TimelyInv into a number: the time that a token has left.     *)
(* PermitIsHeld: a permit that is taken has one holder, who gives it back.  *)
(***************************************************************************)
EXTENDS TokenCaches, TLAPS

Half == Lifetime \div 2

TaskInv ==
    /\ token.serverTill >= token.validTill
    /\ token.validTill <= now + Lifetime
    /\ task.rqTime <= now
    /\ task.pc # "idle" => token.validTill <= task.rqTime + Lifetime
    /\ task.pc = "issued" => task.till >= task.rqTime + Lifetime

LookupInv ==
    \A c \in Lookups :
        /\ caller[c].at <= now
        /\ caller[c].pc = "checked" => token.validTill >= caller[c].at
        /\ caller[c].pc = "taken" => caller[c].token.serverTill >= caller[c].at

\* A timely task that has run in this tick leaves a half and more, ...
TimelyInv ==
    timely =>
        /\ task.pc # "idle" => now <= task.rqTime + MaxDelay
        /\ token.expiresIn > 0 =>
              IF task.pc = "idle"
              THEN now <= token.validTill - Half + (IF task.ran THEN 0 ELSE 1)
              ELSE task.rqTime <= token.validTill - Half + 1

Holds(c) == caller[c].pc \in {"creating", "setting"}

RenewalInv ==
    /\ \A c, d \in Callers : Holds(c) /\ Holds(d) => c = d
    /\ \A c \in Callers :
          /\ caller[c].pc = "creating" => jwt <= now
          /\ caller[c].pc = "setting" => caller[c].jwt - Ttl >= jwt

IInv == TypeOK /\ TaskInv /\ LookupInv /\ TimelyInv /\ RenewalInv

LEMMA Constants ==
    /\ Lifetime \in Nat /\ Ttl \in Nat /\ MaxDelay \in Nat /\ MaxTime \in Nat /\ MaxFails \in Nat
    /\ Ttl > 0 /\ MaxTime > 0
    /\ Half \in Nat /\ Half > MaxDelay /\ 2 * Half <= Lifetime
    /\ Lookups \cap Checks = {} /\ Lookups \subseteq Callers /\ Checks \subseteq Callers
  BY CacheAssumption DEF Half, Callers

\* TypeOK in two parts: the task's and the time's, and the requests'.
ServerOK ==
    /\ now \in 1..MaxTime
    /\ timely \in BOOLEAN
    /\ token \in Token
    /\ task \in [pc : {"idle", "asking", "issued"}, ran : BOOLEAN, rqTime : Times, till : Times]
    /\ jwt \in Times
    /\ fails \in 0..MaxFails

CallersOK ==
    /\ permit = (\A c \in Callers : caller[c].pc \notin {"creating", "setting"})
    /\ caller \in [Callers -> [pc : {"idle", "checked", "taken", "waiting", "creating", "setting"},
                               at : Times, token : Token, jwt : Times]]

TaskOK == task \in [pc : {"idle", "asking", "issued"}, ran : BOOLEAN, rqTime : Times, till : Times]

LEMMA LaterIsATime == ASSUME now \in 1..MaxTime PROVE now \in Times /\ now + Lifetime \in Times /\ now + Ttl \in Times
  BY Constants DEF Times

LEMMA TypeParts ==
    /\ TypeOK <=> ServerOK /\ CallersOK
    /\ TypeOK' <=> ServerOK' /\ CallersOK'
<1>1. TypeOK <=> ServerOK /\ CallersOK
  BY DEF TypeOK, ServerOK, CallersOK
<1>2. TypeOK' <=> ServerOK' /\ CallersOK'
  BY DEF TypeOK, ServerOK, CallersOK
<1> QED
  BY <1>1, <1>2

LEMMA CallersKept ==
  ASSUME CallersOK, UNCHANGED <<permit, caller>> PROVE CallersOK'
  BY DEF CallersOK

LEMMA InitIInv == Init => IInv
<1> SUFFICES ASSUME Init PROVE IInv
  OBVIOUS
<1>1. TypeOK
  BY Constants DEF Init, TypeOK, Times, Token, NoToken, Idle, Waiting
<1>2. TaskInv /\ TimelyInv
  BY Constants DEF Init, TaskInv, TimelyInv, NoToken, Waiting
<1>3. LookupInv /\ RenewalInv
  BY Constants DEF Init, LookupInv, RenewalInv, Holds, Idle
<1> QED
  BY <1>1, <1>2, <1>3 DEF IInv

-----------------------------------------------------------------------------
(* The task and the clock.                                                  *)

LEMMA RunTaskOK == IInv /\ RunTask => IInv'
<1> SUFFICES ASSUME IInv, RunTask PROVE IInv'
  OBVIOUS
<1> USE Constants DEF IInv
<1>1. CASE CloseToExpire
  <2>1. TypeOK'
    <3>1. ServerOK'
      BY <1>1, TypeParts DEF RunTask, ServerOK, Times, Waiting
    <3>2. CallersOK'
      BY TypeParts, CallersKept DEF RunTask
    <3> QED
      BY <3>1, <3>2, TypeParts
  <2>2. TaskInv'
    BY <1>1 DEF RunTask, TaskInv, TypeOK, Times, Token
  <2>3. TimelyInv'
    BY <1>1 DEF RunTask, TimelyInv, TypeOK, Times, Token
  <2>4. LookupInv' /\ RenewalInv'
    BY <1>1 DEF RunTask, LookupInv, RenewalInv, Holds
  <2> QED
    BY <2>1, <2>2, <2>3, <2>4
<1>2. CASE ~CloseToExpire
  <2>1. TypeOK'
    <3>1. ServerOK'
      BY <1>2, TypeParts DEF RunTask, ServerOK, Times, Waiting
    <3>2. CallersOK'
      BY TypeParts, CallersKept DEF RunTask
    <3> QED
      BY <3>1, <3>2, TypeParts
  <2>2. TaskInv'
    BY <1>2 DEF RunTask, TaskInv, TypeOK, Times, Token, Waiting
  <2>3. TimelyInv'
    BY <1>2 DEF RunTask, TimelyInv, CloseToExpire, TypeOK, Times, Token, Waiting, Half
  <2>4. LookupInv' /\ RenewalInv'
    BY <1>2 DEF RunTask, LookupInv, RenewalInv, Holds
  <2> QED
    BY <2>1, <2>2, <2>3, <2>4
<1> QED
  BY <1>1, <1>2

LEMMA IssueOK == IInv /\ Issue => IInv'
<1> SUFFICES ASSUME IInv, Issue PROVE IInv'
  OBVIOUS
<1> USE Constants DEF IInv
<1>1. TypeOK'
  <2>1. ServerOK'
    <3>1. ServerOK /\ now + Lifetime \in Times
      BY TypeParts, LaterIsATime DEF ServerOK
    <3>2. TaskOK'
      BY <3>1 DEF Issue, ServerOK, TaskOK
    <3> QED
      BY <3>1, <3>2 DEF Issue, ServerOK, TaskOK
  <2>2. CallersOK'
    BY TypeParts, CallersKept DEF Issue
  <2> QED
    BY <2>1, <2>2, TypeParts
<1>2. TaskInv' /\ TimelyInv'
  BY DEF Issue, TaskInv, TimelyInv, TypeOK, Times, Token
<1>3. LookupInv' /\ RenewalInv'
  BY DEF Issue, LookupInv, RenewalInv, Holds
<1> QED
  BY <1>1, <1>2, <1>3

LEMMA AnswerOK == IInv /\ Answer => IInv'
<1> SUFFICES ASSUME IInv, Answer PROVE IInv'
  OBVIOUS
<1> USE Constants DEF IInv
<1>1. TypeOK'
  <2>1. ServerOK'
    BY TypeParts DEF Answer, ServerOK, TaskInv, Times, Token, Waiting
  <2>2. CallersOK'
    BY TypeParts, CallersKept DEF Answer
  <2> QED
    BY <2>1, <2>2, TypeParts
<1>2. TaskInv'
  BY DEF Answer, TaskInv, TypeOK, Times, Token, Waiting
<1>3. TimelyInv'
  BY DEF Answer, TimelyInv, TypeOK, Times, Token, Waiting
<1>4. LookupInv'
  BY DEF Answer, LookupInv, TaskInv, TypeOK, Times, Token
<1>5. RenewalInv'
  BY DEF Answer, RenewalInv, Holds
<1> QED
  BY <1>1, <1>2, <1>3, <1>4, <1>5

LEMMA AskFailedOK == IInv /\ AskFailed => IInv'
<1> SUFFICES ASSUME IInv, AskFailed PROVE IInv'
  OBVIOUS
<1> USE Constants DEF IInv
<1>1. TypeOK'
  <2>1. ServerOK'
    BY TypeParts DEF AskFailed, ServerOK, Times, Waiting
  <2>2. CallersOK'
    BY TypeParts, CallersKept DEF AskFailed
  <2> QED
    BY <2>1, <2>2, TypeParts
<1>2. TaskInv' /\ TimelyInv'
  BY DEF AskFailed, TaskInv, TimelyInv, TypeOK, Times, Token, Waiting
<1>3. LookupInv' /\ RenewalInv'
  BY DEF AskFailed, LookupInv, RenewalInv, Holds
<1> QED
  BY <1>1, <1>2, <1>3

LEMMA TickOK == IInv /\ Tick => IInv'
<1> SUFFICES ASSUME IInv, Tick PROVE IInv'
  OBVIOUS
<1> USE Constants DEF IInv
<1>1. TypeOK'
  <2>1. ServerOK'
    <3>1. ServerOK
      BY TypeParts
    <3>2. TaskOK'
      BY <3>1 DEF Tick, ServerOK, TaskOK
    <3>3. now' \in 1..MaxTime
      BY <3>1 DEF Tick, ServerOK
    <3> QED
      BY <3>1, <3>2, <3>3 DEF Tick, ServerOK, TaskOK
  <2>2. CallersOK'
    BY TypeParts, CallersKept DEF Tick
  <2> QED
    BY <2>1, <2>2, TypeParts
<1>2. TaskInv'
  BY DEF Tick, TaskInv, TypeOK, Times, Token
<1>3. TimelyInv'
  BY DEF Tick, TimelyInv, TypeOK, Times, Token
<1>4. LookupInv' /\ RenewalInv'
  BY DEF Tick, LookupInv, RenewalInv, Holds, TypeOK, Times
<1> QED
  BY <1>1, <1>2, <1>3, <1>4

-----------------------------------------------------------------------------
(* The requests.  A step changes one request's record, to another one of    *)
(* the set below, and leaves the task and the clock alone.                  *)

CallerRec == [pc : {"idle", "checked", "taken", "waiting", "creating", "setting"},
              at : Times, token : Token, jwt : Times]

LEMMA IdleIsOne == Idle \in CallerRec
  BY Constants DEF Idle, CallerRec, NoToken, Token, Times

LEMMA OneCaller ==
  ASSUME caller \in [Callers -> CallerRec], NEW c \in Callers, NEW r \in CallerRec,
         caller' = [caller EXCEPT ![c] = r]
  PROVE  /\ caller' \in [Callers -> CallerRec]
         /\ caller'[c] = r
         /\ \A d \in Callers : d # c => caller'[d] = caller[d]
  OBVIOUS

LEMMA ServerKept ==
  ASSUME IInv, UNCHANGED <<now, timely, token, task>>
  PROVE  TaskInv' /\ TimelyInv'
  BY DEF IInv, TaskInv, TimelyInv

\* The semaphore is held exactly by the request that makes a JWT.
LEMMA PermitIs ==
    /\ CallersOK => permit \in BOOLEAN /\ (permit <=> \A d \in Callers : ~Holds(d))
    /\ permit' \in BOOLEAN /\ (permit' <=> \A d \in Callers : ~Holds(d)')
       /\ caller' \in [Callers -> CallerRec] => CallersOK'
<1>1. CallersOK => permit \in BOOLEAN /\ (permit <=> \A d \in Callers : ~Holds(d))
  BY Zenon DEF CallersOK, Holds
<1>2. ASSUME permit' \in BOOLEAN, permit' <=> \A d \in Callers : ~Holds(d)',
             caller' \in [Callers -> CallerRec]
      PROVE  CallersOK'
  <2>1. permit' = (\A d \in Callers : caller'[d].pc \notin {"creating", "setting"})
    BY <1>2, Zenon DEF Holds
  <2> QED
    BY <1>2, <2>1 DEF CallersOK, CallerRec
<1> QED
  BY <1>1, <1>2

\* A step of a lookup, in which it does not come to hold what it must not.
LEMMA LookupStep ==
  ASSUME IInv, NEW c \in Lookups, NEW r \in CallerRec,
         caller' = [caller EXCEPT ![c] = r],
         UNCHANGED <<now, timely, token, task, jwt, permit, fails>>,
         ~Holds(c), r.pc \notin {"creating", "setting"},
         r.at <= now,
         r.pc = "checked" => token.validTill >= r.at,
         r.pc = "taken" => r.token.serverTill >= r.at
  PROVE  IInv'
<1> USE Constants DEF IInv
<1>1. /\ caller \in [Callers -> CallerRec]
      /\ c \in Callers
  BY DEF TypeOK, CallerRec
<1>2. /\ caller' \in [Callers -> CallerRec]
      /\ caller'[c] = r
      /\ \A d \in Callers : d # c => caller'[d] = caller[d]
  BY <1>1, OneCaller
<1>3. \A d \in Callers : Holds(d)' <=> Holds(d)
  BY <1>2 DEF Holds
<1>4. TypeOK'
  <2>1. ServerOK' /\ CallersOK
    BY TypeParts DEF ServerOK
  <2>2. CallersOK'
    BY <2>1, <1>2, <1>3, PermitIs, Zenon
  <2> QED
    BY <2>1, <2>2, TypeParts
<1>5. LookupInv'
  BY <1>2 DEF LookupInv
<1>6. RenewalInv'
  <2>1. \A d \in Callers : Holds(d)' => d # c
    BY <1>3
  <2> QED
    BY <1>2, <1>3, <2>1 DEF RenewalInv, Holds
<1> QED
  BY <1>4, <1>5, <1>6, ServerKept

LEMMA CheckTokenOK == ASSUME IInv, NEW c \in Lookups, CheckToken(c) PROVE IInv'
<1> DEFINE r == [caller[c] EXCEPT !.pc = "checked", !.at = now]
<1> USE Constants
<1>1. /\ caller \in [Callers -> CallerRec]
      /\ now \in Nat /\ now \in Times /\ token \in Token /\ token.validTill \in Nat
  BY LaterIsATime DEF IInv, TypeOK, CallerRec, Token, Times
<1>2. caller[c] \in CallerRec
  BY <1>1
<1>3. r \in CallerRec /\ r.pc = "checked" /\ r.at = now
  BY <1>1, <1>2 DEF CallerRec
<1>4. caller' = [caller EXCEPT ![c] = r]
  BY <1>1 DEF CheckToken
<1>5. token.validTill >= now /\ ~Holds(c)
  BY <1>1 DEF CheckToken, Holds
<1>6. UNCHANGED <<now, timely, token, task, jwt, permit, fails>>
  BY DEF CheckToken
<1>7. r.at <= now /\ token.validTill >= r.at
  BY <1>1, <1>3, <1>5
<1> HIDE DEF r
<1> QED
  BY <1>3, <1>4, <1>5, <1>6, <1>7, LookupStep

LEMMA TakeTokenOK == ASSUME IInv, NEW c \in Lookups, TakeToken(c) PROVE IInv'
<1> DEFINE r == [caller[c] EXCEPT !.pc = "taken", !.token = token]
<1> USE Constants
<1>1. /\ caller \in [Callers -> CallerRec]
      /\ now \in Nat /\ token \in Token
      /\ token.validTill \in Nat /\ token.serverTill \in Nat
  BY DEF IInv, TypeOK, CallerRec, Token, Times
<1>2. caller[c] \in CallerRec /\ caller[c].at \in Nat
  BY <1>1 DEF CallerRec, Times
<1>3. r \in CallerRec /\ r.pc = "taken" /\ r.at = caller[c].at /\ r.token = token
  BY <1>1, <1>2 DEF CallerRec
<1>4. caller' = [caller EXCEPT ![c] = r]
  BY <1>1 DEF TakeToken
<1>5. /\ caller[c].at <= now
      /\ token.validTill >= caller[c].at
      /\ token.serverTill >= token.validTill
      /\ ~Holds(c)
  BY DEF TakeToken, Holds, IInv, LookupInv, TaskInv
<1>6. UNCHANGED <<now, timely, token, task, jwt, permit, fails>>
  BY DEF TakeToken
<1>7. r.token.serverTill >= r.at
  BY <1>1, <1>2, <1>3, <1>5
<1> HIDE DEF r
<1> QED
  BY <1>3, <1>4, <1>5, <1>6, <1>7, LookupStep

LEMMA SentOK == ASSUME IInv, NEW c \in Lookups, Sent(c) PROVE IInv'
<1>1. Idle \in CallerRec /\ Idle.pc = "idle" /\ Idle.at = 0
  BY IdleIsOne DEF Idle
<1>2. now \in Nat /\ ~Holds(c)
  BY Constants DEF IInv, TypeOK, Sent, Holds
<1>3. /\ caller' = [caller EXCEPT ![c] = Idle]
      /\ UNCHANGED <<now, timely, token, task, jwt, permit, fails>>
  BY DEF Sent
<1>4. Idle.at <= now
  BY <1>1, <1>2
<1> QED
  BY <1>1, <1>2, <1>3, <1>4, LookupStep

\* A step of a check: what it holds, before and after, and the JWT it brings.
LEMMA CheckStep ==
  ASSUME IInv, NEW c \in Checks, NEW r \in CallerRec,
         caller' = [caller EXCEPT ![c] = r],
         UNCHANGED <<now, timely, token, task>>,
         fails' \in 0..MaxFails, jwt' \in Times, permit' \in BOOLEAN,
         permit' <=> \A d \in Callers : ~Holds(d)',
         RenewalInv'
  PROVE  IInv'
<1> USE Constants DEF IInv
<1>1. /\ caller \in [Callers -> CallerRec]
      /\ c \in Callers /\ c \notin Lookups
  BY DEF TypeOK, CallerRec
<1>2. /\ caller' \in [Callers -> CallerRec]
      /\ \A d \in Lookups : caller'[d] = caller[d]
  BY <1>1, OneCaller
<1>3. TypeOK'
  <2>1. ServerOK'
    BY TypeParts DEF ServerOK
  <2>2. CallersOK'
    BY <1>2, PermitIs, Zenon
  <2> QED
    BY <2>1, <2>2, TypeParts
<1>4. LookupInv'
  BY <1>2 DEF LookupInv
<1> QED
  BY <1>3, <1>4, ServerKept

\* The types that the steps of a check need.
LEMMA CheckTypes ==
  ASSUME IInv, NEW c \in Checks
  PROVE  /\ caller \in [Callers -> CallerRec] /\ c \in Callers /\ caller[c] \in CallerRec
         /\ now \in Nat /\ now \in Times /\ now + Ttl \in Times
         /\ jwt \in Times /\ jwt \in Nat
         /\ fails \in 0..MaxFails
         /\ permit \in BOOLEAN /\ (permit <=> \A d \in Callers : ~Holds(d))
<1>1. /\ caller \in [Callers -> CallerRec] /\ c \in Callers
      /\ now \in 1..MaxTime /\ jwt \in Times /\ fails \in 0..MaxFails
  BY Constants DEF IInv, TypeOK, CallerRec
<1>2. permit \in BOOLEAN /\ (permit <=> \A d \in Callers : ~Holds(d))
  BY TypeParts, PermitIs DEF IInv
<1>3. jwt \in Nat /\ now \in Nat
  BY <1>1, Constants DEF Times
<1> QED
  BY <1>1, <1>2, <1>3, LaterIsATime

\* What the other requests hold does not change with one request's step.
LEMMA OneHolder ==
  ASSUME caller \in [Callers -> CallerRec], NEW c \in Callers, NEW r \in CallerRec,
         caller' = [caller EXCEPT ![c] = r]
  PROVE  /\ caller'[c] = r
         /\ Holds(c)' <=> r.pc \in {"creating", "setting"}
         /\ \A d \in Callers : d # c => caller'[d] = caller[d] /\ (Holds(d)' <=> Holds(d))
  BY OneCaller DEF Holds

LEMMA GetJwtOK == ASSUME IInv, NEW c \in Checks, GetJwt(c) PROVE IInv'
<1> DEFINE r == [caller[c] EXCEPT !.pc = "waiting"]
<1>1. caller \in [Callers -> CallerRec] /\ c \in Callers /\ caller[c] \in CallerRec
  BY CheckTypes
<1>2. r \in CallerRec /\ r.pc = "waiting"
  BY <1>1 DEF CallerRec
<1>3. /\ caller' = [caller EXCEPT ![c] = r]
      /\ UNCHANGED <<now, timely, token, task, jwt, permit, fails>>
  BY DEF GetJwt
<1> HIDE DEF r
<1>4. ~Holds(c)
  BY DEF GetJwt, Holds
<1>5. /\ ~Holds(c)'
      /\ \A d \in Callers : (Holds(d)' <=> Holds(d)) /\ (Holds(d) => caller'[d] = caller[d])
  BY <1>1, <1>2, <1>3, <1>4, OneHolder
<1>6. permit' <=> \A d \in Callers : ~Holds(d)'
  BY <1>3, <1>5, CheckTypes, Zenon
<1>7. RenewalInv'
  BY <1>3, <1>5 DEF IInv, RenewalInv, Holds
<1>8. jwt' \in Times /\ fails' \in 0..MaxFails /\ permit' \in BOOLEAN
  BY <1>3, CheckTypes
<1> QED
  BY <1>2, <1>3, <1>6, <1>7, <1>8, CheckStep

LEMMA EnterOK == ASSUME IInv, NEW c \in Checks, Enter(c) PROVE IInv'
<1> DEFINE r == [caller[c] EXCEPT !.pc = IF jwt > now THEN "idle" ELSE "creating"]
<1>1. /\ caller \in [Callers -> CallerRec] /\ c \in Callers /\ caller[c] \in CallerRec
      /\ now \in Nat /\ jwt \in Nat
  BY CheckTypes
<1>2. r \in CallerRec /\ r.pc = IF jwt > now THEN "idle" ELSE "creating"
  BY <1>1 DEF CallerRec
<1>3. /\ caller' = [caller EXCEPT ![c] = r]
      /\ UNCHANGED <<now, timely, token, task, jwt, fails>>
      /\ permit
      /\ permit' = (jwt > now)
  BY DEF Enter
<1> HIDE DEF r
<1>4. \A d \in Callers : ~Holds(d)
  BY <1>3, CheckTypes, Zenon
<1>5. /\ caller'[c] = r
      /\ Holds(c)' <=> ~(jwt > now)
      /\ \A d \in Callers : d # c => ~Holds(d)'
  BY <1>1, <1>2, <1>3, <1>4, OneHolder
<1>6. permit' <=> \A d \in Callers : ~Holds(d)'
  BY <1>1, <1>3, <1>5, Zenon
<1>7. RenewalInv'
  BY <1>1, <1>2, <1>3, <1>5 DEF RenewalInv, Holds
<1>8. jwt' \in Times /\ fails' \in 0..MaxFails
  BY <1>3, CheckTypes
<1>9. permit' \in BOOLEAN
  <2>1. (jwt > now) = TRUE \/ (jwt > now) = FALSE
    BY <1>1
  <2> QED
    BY <1>3, <2>1, Zenon
<1> QED
  BY <1>1, <1>2, <1>3, <1>6, <1>7, <1>8, <1>9, CheckStep

LEMMA CreateOK == ASSUME IInv, NEW c \in Checks, Create(c) PROVE IInv'
<1> DEFINE r == [caller[c] EXCEPT !.pc = "setting", !.jwt = now + Ttl]
<1>1. /\ caller \in [Callers -> CallerRec] /\ c \in Callers /\ caller[c] \in CallerRec
      /\ now \in Nat /\ jwt \in Nat /\ now + Ttl \in Times
  BY CheckTypes
<1>2. r \in CallerRec /\ r.pc = "setting" /\ r.jwt = now + Ttl
  BY <1>1 DEF CallerRec
<1>3. /\ caller' = [caller EXCEPT ![c] = r]
      /\ UNCHANGED <<now, timely, token, task, jwt, permit, fails>>
      /\ caller[c].pc = "creating"
  BY <1>1 DEF Create
<1> HIDE DEF r
<1>4. Holds(c) /\ jwt <= now
  BY <1>1, <1>3 DEF Holds, IInv, RenewalInv
<1>5. \A d \in Callers : Holds(d) => d = c
  BY <1>1, <1>4 DEF IInv, RenewalInv
<1>6. /\ caller'[c] = r /\ Holds(c)'
      /\ \A d \in Callers : d # c => ~Holds(d)'
  BY <1>1, <1>2, <1>3, <1>5, OneHolder
<1>7. permit' <=> \A d \in Callers : ~Holds(d)'
  BY <1>1, <1>3, <1>4, <1>6, CheckTypes, Zenon
<1>8. r.jwt - Ttl >= jwt
  BY <1>1, <1>2, <1>4, Constants
<1>9. RenewalInv'
  BY <1>2, <1>3, <1>6, <1>8 DEF RenewalInv, Holds
<1>10. jwt' \in Times /\ fails' \in 0..MaxFails /\ permit' \in BOOLEAN
  BY <1>3, CheckTypes
<1> QED
  BY <1>1, <1>2, <1>3, <1>7, <1>9, <1>10, CheckStep

\* The request that holds the semaphore lets it go.
LEMMA Release ==
  ASSUME IInv, NEW c \in Checks, Holds(c), caller' = [caller EXCEPT ![c] = Idle],
         permit' = TRUE, jwt' \in Times, fails' \in 0..MaxFails,
         UNCHANGED <<now, timely, token, task>>
  PROVE  IInv'
<1>1. caller \in [Callers -> CallerRec] /\ c \in Callers
  BY CheckTypes
<1>2. \A d \in Callers : Holds(d) => d = c
  BY <1>1 DEF IInv, RenewalInv
<1>3. \A d \in Callers : ~Holds(d)'
  BY <1>1, <1>2, OneHolder, IdleIsOne DEF Idle
<1>4. RenewalInv'
  BY <1>3 DEF RenewalInv, Holds
<1> QED
  BY <1>3, <1>4, IdleIsOne, CheckStep

LEMMA CreateFailedOK == ASSUME IInv, NEW c \in Checks, CreateFailed(c) PROVE IInv'
<1>1. Holds(c)
  BY DEF CreateFailed, Holds
<1>2. fails' \in 0..MaxFails /\ jwt' \in Times
  BY CheckTypes, Constants DEF CreateFailed
<1> QED
  BY <1>1, <1>2, Release DEF CreateFailed

LEMMA SetJwtOK == ASSUME IInv, NEW c \in Checks, SetJwt(c) PROVE IInv'
<1>1. Holds(c)
  BY DEF SetJwt, Holds
<1>2. fails' \in 0..MaxFails /\ jwt' \in Times
  BY CheckTypes DEF SetJwt, CallerRec
<1> QED
  BY <1>1, <1>2, Release DEF SetJwt

-----------------------------------------------------------------------------
(* The invariant, and what follows from it.                                 *)

LEMMA StutterOK == IInv /\ UNCHANGED vars => IInv'
<1> SUFFICES ASSUME IInv, UNCHANGED vars PROVE IInv'
  OBVIOUS
<1>1. TypeOK'
  BY DEF IInv, vars, TypeOK
<1>2. LookupInv' /\ RenewalInv'
  BY DEF IInv, vars, LookupInv, RenewalInv, Holds
<1> QED
  BY <1>1, <1>2, ServerKept DEF vars, IInv

LEMMA NextOK == IInv /\ [Next]_vars => IInv'
<1> SUFFICES ASSUME IInv, [Next]_vars PROVE IInv'
  OBVIOUS
<1>1. CASE RunTask
  BY <1>1, RunTaskOK
<1>2. CASE Issue
  BY <1>2, IssueOK
<1>3. CASE Answer
  BY <1>3, AnswerOK
<1>4. CASE AskFailed
  BY <1>4, AskFailedOK
<1>5. CASE Tick
  BY <1>5, TickOK
<1>6. ASSUME NEW c \in Lookups, CheckToken(c) \/ TakeToken(c) \/ Sent(c) PROVE IInv'
  BY <1>6, CheckTokenOK, TakeTokenOK, SentOK
<1>7. ASSUME NEW c \in Checks, GetJwt(c) \/ Enter(c) \/ Create(c) \/ SetJwt(c) \/ CreateFailed(c)
      PROVE IInv'
  BY <1>7, GetJwtOK, EnterOK, CreateOK, SetJwtOK, CreateFailedOK
<1>8. CASE UNCHANGED vars
  BY <1>8, StutterOK
<1> QED
  BY <1>1, <1>2, <1>3, <1>4, <1>5, <1>6, <1>7, <1>8 DEF Next, Refresh, Renew

LEMMA Invariant == Spec => []IInv
  BY InitIInv, NextOK, PTL DEF Spec

\* In every reachable state the values are what the code may store, and the
\* semaphore is taken exactly while a request makes a JWT
\* (IOSDeviceCheckJWTComponent.getJWTSynchronized).
THEOREM TypeCorrect == Spec => []TypeOK
<1>1. IInv => TypeOK
  BY DEF IInv
<1> QED
  BY <1>1, Invariant, PTL

\* Whatever comes between a lookup's check and its use of the token, the token
\* it takes was still accepted when it checked: a later token is never accepted
\* for a shorter time, and the gateway never trusts one for longer than the
\* server does (Oath2AuthComponent.getAccessToken).
THEOREM TakenCorrect == Spec => []TakenIsAccepted
<1>1. IInv => TakenIsAccepted
  BY DEF IInv, LookupInv, TakenIsAccepted
<1> QED
  BY <1>1, Invariant, PTL

\* With a scheduler and an identity server that keep their time, a lookup never
\* finds the token expired once there has been one, for every lifetime of which
\* half is longer than the server's delay (the scheduled task of
\* Oath2AuthComponent).
THEOREM ServedCorrect == Spec => []AlwaysServed
<1>1. IInv => AlwaysServed
  <2> SUFFICES ASSUME IInv, timely, token.expiresIn > 0 PROVE ~(token.validTill < now)
    BY DEF AlwaysServed
  <2>1. /\ now \in Nat /\ token.validTill \in Nat /\ task.rqTime \in Nat
        /\ Half \in Nat /\ MaxDelay \in Nat /\ Half > MaxDelay
    BY Constants DEF IInv, TypeOK, Token, Times
  <2>2. CASE task.pc = "idle"
    BY <2>1, <2>2 DEF IInv, TimelyInv
  <2>3. CASE task.pc # "idle"
    BY <2>1, <2>3 DEF IInv, TimelyInv
  <2> QED
    BY <2>2, <2>3
<1> QED
  BY <1>1, Invariant, PTL

\* However many requests find Apple's JWT expired, and whatever fails, a new one
\* is set only by a request that made it after the one before had expired
\* (IOSDeviceCheckJWTComponent.getJWTSynchronized).
THEOREM RenewalCorrect == Spec => OneRenewalPerLifetime
<1>1. IInv /\ [Next]_vars => [jwt' # jwt => jwt' - Ttl >= jwt]_vars
  <2> SUFFICES ASSUME IInv, Next, jwt' # jwt PROVE jwt' - Ttl >= jwt
    OBVIOUS
  <2>1. PICK c \in Checks : SetJwt(c)
    BY DEF Next, Refresh, Renew, RunTask, Issue, Answer, AskFailed, Tick, CheckToken,
           TakeToken, Sent, GetJwt, Enter, Create, CreateFailed
  <2>2. jwt' = caller[c].jwt /\ caller[c].jwt - Ttl >= jwt
    BY <2>1, Constants DEF SetJwt, IInv, RenewalInv
  <2> QED
    BY <2>2
<1> QED
  BY <1>1, Invariant, PTL DEF Spec, OneRenewalPerLifetime

-----------------------------------------------------------------------------
(* How much is left of a token, and who holds the semaphore.                *)

\* A token is good for this long still, at any time.
Margin == timely /\ token.expiresIn > 0 => token.validTill - now >= Half - MaxDelay - 1

\* How much of a token's life a request can count on: with a scheduler and an
\* identity server that keep their time it is never less than half of the
\* lifetime, but for the delay of an answer and the tick the task may be late
\* (Oath2AuthComponent.closeToExpire).
THEOREM MarginKept == Spec => []Margin
<1>1. IInv => Margin
  <2> SUFFICES ASSUME IInv, timely, token.expiresIn > 0
               PROVE  token.validTill - now >= Half - MaxDelay - 1
    BY DEF Margin
  <2>1. /\ token.validTill \in Int /\ now \in Int /\ task.rqTime \in Int /\ Half \in Nat /\ MaxDelay \in Nat
        /\ task.pc # "idle" => now <= task.rqTime + MaxDelay
        /\ IF task.pc = "idle"
           THEN now <= token.validTill - Half + (IF task.ran THEN 0 ELSE 1)
           ELSE task.rqTime <= token.validTill - Half + 1
    BY Constants DEF IInv, TypeOK, Token, Times, TimelyInv
  <2> QED
    BY <2>1
<1> QED
  BY <1>1, Invariant, PTL

\* A semaphore that is taken has one holder.
PermitIsHeld ==
    ~permit => \E c \in Callers : Holds(c) /\ \A d \in Callers \ {c} : ~Holds(d)

\* jwtSemaphore is never lost, whatever fails while it is held: when it is taken
\* there is exactly one request that is making the JWT, and will release it.
THEOREM PermitNeverLost == Spec => []PermitIsHeld
<1>1. IInv => PermitIsHeld
  <2> SUFFICES ASSUME IInv, ~permit
               PROVE  \E c \in Callers : Holds(c) /\ \A d \in Callers \ {c} : ~Holds(d)
    BY DEF PermitIsHeld
  <2>1. PICK c \in Callers : Holds(c)
    BY DEF IInv, TypeOK, Holds
  <2>2. \A d \in Callers \ {c} : ~Holds(d)
    BY <2>1 DEF IInv, RenewalInv
  <2> QED
    BY <2>1, <2>2
<1> QED
  BY <1>1, Invariant, PTL
=============================================================================
