----------------------------- MODULE JwtBuilder -----------------------------
(***************************************************************************)
(* CreateJWTService.createJWT, claim by claim.  The service keeps one      *)
(* JwtBuilder for its whole life; each call looks the wallet's profile up, *)
(* sets the claims on that builder one after the other and compacts it.    *)
(* Calls run on the threads the profile lookups complete on, so any number *)
(* of them may be between two claims.  A claim's value is represented by   *)
(* the wallet whose call set it.                                           *)
(***************************************************************************)
EXTENDS Integers, Sequences, FiniteSets

CONSTANTS
    Wallets, NoWallet,
    Calls          \* slots for calls of createJWT that run at the same time

ASSUME NoWalletAssumption == NoWallet \notin Wallets

\* The claims that differ from call to call, in the order they are set
\* (issuer, subject and authorities have the same value in every call).
ClaimOrder == <<"currentWallet", "profileId", "profileWallets", "id", "iat", "exp">>
ClaimNames == {ClaimOrder[i] : i \in 1..Len(ClaimOrder)}

VARIABLES
    builder,   \* the claims of the shared DefaultJwtBuilder
    call,      \* call[c]: what the call in slot c is doing
    overlap    \* overlap[c]: history, the wallets of calls that ran during c's

vars == <<builder, call, overlap>>

Claims == [ClaimNames -> Wallets \cup {NoWallet}]
NoClaims == [k \in ClaimNames |-> NoWallet]

\* at 0: waiting for the profile; at i: about to set claim i; one past the
\* last: about to sign.  `jwt` is what the last finished call returned.
Call == [active : BOOLEAN, wallet : Wallets \cup {NoWallet},
         at : 0..(Len(ClaimOrder) + 1), jwt : Claims]

TypeOK ==
    /\ builder \in Claims
    /\ call \in [Calls -> Call]
    /\ overlap \in [Calls -> SUBSET Wallets]

Init ==
    /\ builder = NoClaims
    /\ call = [c \in Calls |-> [active |-> FALSE, wallet |-> NoWallet, at |-> 0, jwt |-> NoClaims]]
    /\ overlap = [c \in Calls |-> {}]

Active == {c \in Calls : call[c].active}

\* createJWT(w) is subscribed to and asks for the wallet's profile.
Start(c, w) ==
    /\ ~call[c].active
    /\ call' = [call EXCEPT ![c] = [active |-> TRUE, wallet |-> w, at |-> 0, jwt |-> NoClaims]]
    /\ overlap' = [d \in Calls |->
                      CASE d = c -> {w} \cup {call[e].wallet : e \in Active}
                        [] call[d].active -> overlap[d] \cup {w}
                        [] OTHER -> overlap[d]]
    /\ UNCHANGED builder

\* The profile has arrived.
Lookup(c) ==
    /\ call[c].active
    /\ call[c].at = 0
    /\ call' = [call EXCEPT ![c].at = 1]
    /\ UNCHANGED <<builder, overlap>>

\* Mutant: the wallet list is only set when there is more than one wallet.
SetClaim_SkipsList(c) ==
    /\ call[c].active
    /\ call[c].at \in 1..Len(ClaimOrder)
    /\ builder' = IF ClaimOrder[call[c].at] = "profileWallets" THEN builder
                  ELSE [builder EXCEPT ![ClaimOrder[call[c].at]] = call[c].wallet]
    /\ call' = [call EXCEPT ![c].at = @ + 1]
    /\ UNCHANGED overlap

SetClaim(c) ==
    /\ call[c].active
    /\ call[c].at \in 1..Len(ClaimOrder)
    /\ builder' = [builder EXCEPT ![ClaimOrder[call[c].at]] = call[c].wallet]
    /\ call' = [call EXCEPT ![c].at = @ + 1]
    /\ UNCHANGED overlap

\* signWith(...).compact(): the builder keeps its claims.
Compact(c) ==
    /\ call[c].active
    /\ call[c].at = Len(ClaimOrder) + 1
    /\ call' = [call EXCEPT ![c].active = FALSE, ![c].jwt = builder]
    /\ UNCHANGED <<builder, overlap>>

\* Mutant: a failed lookup counts a retry in the position.
FailLookup_Counts(c) ==
    /\ call[c].active
    /\ call[c].at = 0
    /\ call' = [call EXCEPT ![c].active = FALSE, ![c].at = @ - 1]
    /\ UNCHANGED <<builder, overlap>>

\* The profile lookup fails.
FailLookup(c) ==
    /\ call[c].active
    /\ call[c].at = 0
    /\ call' = [call EXCEPT ![c].active = FALSE]
    /\ UNCHANGED <<builder, overlap>>

Next == \E c \in Calls : \/ \E w \in Wallets : Start(c, w)
                         \/ Lookup(c) \/ SetClaim(c) \/ Compact(c) \/ FailLookup(c)

Spec == Init /\ [][Next]_vars

-----------------------------------------------------------------------------
Issued(c) == ~call[c].active /\ call[c].jwt # NoClaims

\* No JWT carries a claim left behind by a call that was over before this one
\* began, and none is missing a claim: although the builder is never cleared,
\* each claim of a JWT was set by its own call or by one that ran during it.
\* In particular a call that ran alone signs its own wallet's claims.
ClaimsFromOverlappingCalls ==
    \A c \in Calls : Issued(c) => \A k \in ClaimNames : call[c].jwt[k] \in overlap[c]

\* While a call is under way it has not lost a claim to the past: whatever it
\* has already set holds a value of a call that overlaps it.  (This is what
\* makes ClaimsFromOverlappingCalls inductive.)
SetClaimsAreRecent ==
    \A c \in Active : \A i \in 1..Len(ClaimOrder) :
        i < call[c].at => builder[ClaimOrder[i]] \in overlap[c]

\* "Creates a JSON Web Token (JWT) for the given wallet."
JwtNamesItsWallet ==
    \A c \in Calls : Issued(c) => \A k \in ClaimNames : call[c].jwt[k] = call[c].wallet
=============================================================================
