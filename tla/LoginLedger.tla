----------------------------- MODULE LoginLedger ----------------------------
(***************************************************************************)
(* What the login endpoints promise, without requests, steps or clocks: a  *)
(* wallet's session is replaced only by the holder of a permit for that    *)
(* wallet.  A holder comes for one wallet, with the session it knows, and  *)
(* earns its permit in the one way it came for: by redeeming the wallet's  *)
(* open challenge, which closes it for good, by showing the wallet's       *)
(* present session, or, logged in with a session of any wallet, by its own *)
(* word (`vouched`): that is what binding a wallet without a body comes to.*)
(***************************************************************************)
EXTENDS Naturals

CONSTANTS Wallets, NoWallet, Holders

VARIABLES
    challenge,  \* the nonce that can be redeemed for a wallet, 0 if none
    placed,     \* every nonce that is or was a challenge, or was dropped unused
    visit,      \* what a holder has come for, and with which session
    permit,     \* the wallet a holder may store a session for
    current,    \* the number of the wallet's session, 0 if none
    last        \* sessions stored so far

vars == <<challenge, placed, visit, permit, current, last>>

NoVisit == [wallet |-> NoWallet, how |-> "none", session |-> 0]

Visit == [wallet : Wallets, how : {"redeem", "show", "vouched"}, session : 0..last]

Init ==
    /\ challenge = [w \in Wallets |-> 0]
    /\ placed = {}
    /\ visit = [h \in Holders |-> NoVisit]
    /\ permit = [h \in Holders |-> NoWallet]
    /\ current = [w \in Wallets |-> 0]
    /\ last = 0

\* The nonce a step places, one that was never placed before.
Fresh == (placed' \ placed) \ {0}

\* A fresh nonce becomes the wallet's only challenge.
Challenge(w) ==
    \E n \in Fresh :
        /\ challenge' = [challenge EXCEPT ![w] = n]
        /\ placed' = placed \cup {n}
        /\ UNCHANGED <<visit, permit, current, last>>

\* A nonce is dropped before it was a challenge.
Discard ==
    \E n \in Fresh :
        /\ placed' = placed \cup {n}
        /\ UNCHANGED <<challenge, visit, permit, current, last>>

\* Challenges close unused when their time is over.
Close ==
    \E closed \in SUBSET Wallets :
        /\ challenge' = [w \in Wallets |-> IF w \in closed THEN 0 ELSE challenge[w]]
        /\ UNCHANGED <<placed, visit, permit, current, last>>

\* Only with a session can a holder come to be taken at its word.
Come(h, v) ==
    /\ visit[h] = NoVisit
    /\ v.how = "vouched" => v.session # 0
    /\ visit' = [visit EXCEPT ![h] = v]
    /\ UNCHANGED <<challenge, placed, permit, current, last>>

\* A holder that came for its wallet in this way gets the permit.
Grant(h, how) ==
    /\ visit[h].how = how
    /\ permit[h] = NoWallet
    /\ permit' = [permit EXCEPT ![h] = visit[h].wallet]
    /\ UNCHANGED <<placed, visit, current, last>>

Redeem(h) ==
    /\ Grant(h, "redeem")
    /\ challenge[visit[h].wallet] # 0
    /\ challenge' = [challenge EXCEPT ![visit[h].wallet] = 0]

\* A wrong answer closes the challenge and ends the visit.
Miss(h) ==
    /\ visit[h].how = "redeem"
    /\ permit[h] = NoWallet
    /\ challenge' = [challenge EXCEPT ![visit[h].wallet] = 0]
    /\ visit' = [visit EXCEPT ![h] = NoVisit]
    /\ UNCHANGED <<placed, permit, current, last>>

Show(h) ==
    /\ Grant(h, "show")
    /\ visit[h].session # 0
    /\ visit[h].session = current[visit[h].wallet]
    /\ UNCHANGED challenge

Vouch(h) == Grant(h, "vouched") /\ UNCHANGED challenge

Store(h) ==
    /\ permit[h] # NoWallet
    /\ last' = last + 1
    /\ current' = [current EXCEPT ![permit[h]] = last + 1]
    /\ permit' = [permit EXCEPT ![h] = NoWallet]
    /\ visit' = [visit EXCEPT ![h] = NoVisit]
    /\ UNCHANGED <<challenge, placed>>

\* With its permit or without one.
Leave(h) ==
    /\ visit[h] # NoVisit
    /\ visit' = [visit EXCEPT ![h] = NoVisit]
    /\ permit' = [permit EXCEPT ![h] = NoWallet]
    /\ UNCHANGED <<challenge, placed, current, last>>

Next ==
    \/ Discard \/ Close
    \/ \E w \in Wallets : Challenge(w)
    \/ \E h \in Holders :
          \/ \E v \in Visit : Come(h, v)
          \/ Redeem(h) \/ Miss(h) \/ Show(h) \/ Vouch(h) \/ Store(h) \/ Leave(h)

Spec == Init /\ [][Next]_vars
=============================================================================
