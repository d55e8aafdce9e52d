-------------------------- MODULE JwtBuilderProofs --------------------------
(***************************************************************************)
(* Proofs about JwtBuilder: for any number of wallets and of concurrent    *)
(* calls, a JWT carries only claims of calls that overlap its own.         *)
(*                                                                         *)
(* The argument: calls under way know each other (ActiveOverlap), so what  *)
(* any of them writes into the builder is, for every other one, a claim of *)
(* an overlapping call; what a call has written itself is one too, and is  *)
(* never erased, only overwritten by such a call (SetClaimsAreRecent).     *)
(***************************************************************************)
EXTENDS JwtBuilder, TLAPS

\* A call under way is for a wallet and has returned nothing yet.
ActiveFresh == \A c \in Active : call[c].wallet \in Wallets /\ call[c].jwt = NoClaims

\* Whoever may set a claim while call c is active is in overlap[c].
ActiveOverlap == \A c, d \in Active : call[d].wallet \in overlap[c]

IInv == TypeOK /\ ActiveFresh /\ ActiveOverlap /\ SetClaimsAreRecent /\ ClaimsFromOverlappingCalls

LEMMA ClaimOrderFacts ==
    /\ Len(ClaimOrder) = 6
    /\ \A i \in 1..6 : ClaimOrder[i] \in ClaimNames
    /\ \A k \in ClaimNames : \E i \in 1..6 : k = ClaimOrder[i]
  BY DEF ClaimNames, ClaimOrder

LEMMA InitIInv == Init => IInv
  BY ClaimOrderFacts DEF Init, IInv, TypeOK, ActiveFresh, ActiveOverlap, SetClaimsAreRecent,
     ClaimsFromOverlappingCalls, Issued, Active, Claims, NoClaims, Call

LEMMA StartOK ==
  ASSUME IInv, NEW c \in Calls, NEW w \in Wallets, Start(c, w) PROVE IInv'
<1> USE ClaimOrderFacts DEF IInv
<1>1. /\ ~call[c].active
      /\ call'[c] = [active |-> TRUE, wallet |-> w, at |-> 0, jwt |-> NoClaims]
      /\ \A d \in Calls \ {c} : call'[d] = call[d]
      /\ builder' = builder
      /\ overlap'[c] = {w} \cup {call[e].wallet : e \in Active}
      /\ \A d \in Active : overlap'[d] = overlap[d] \cup {w}
      /\ \A d \in Calls : d # c /\ ~call[d].active => overlap'[d] = overlap[d]
  BY DEF Start, TypeOK, Active
<1>2. Active' = Active \cup {c}
  BY <1>1 DEF Active
<1>3. TypeOK'
  <2>1. call' \in [Calls -> Call]
    BY <1>1 DEF Start, TypeOK, Call, Claims, NoClaims
  <2>2. \A d \in Calls : overlap'[d] \in SUBSET Wallets
    BY <1>1 DEF ActiveFresh, TypeOK, Active
  <2>. QED BY <1>1, <2>1, <2>2 DEF TypeOK, Start
<1>4. ActiveFresh' /\ ActiveOverlap'
  BY <1>1, <1>2 DEF ActiveFresh, ActiveOverlap, Active
<1>5. SetClaimsAreRecent'
  BY <1>1, <1>2 DEF SetClaimsAreRecent, Active, TypeOK
<1>6. ClaimsFromOverlappingCalls'
  BY <1>1 DEF ClaimsFromOverlappingCalls, Issued
<1>. QED BY <1>3, <1>4, <1>5, <1>6

LEMMA LookupOK ==
  ASSUME IInv, NEW c \in Calls, Lookup(c) PROVE IInv'
<1> USE ClaimOrderFacts DEF IInv
<1>1. /\ call[c].active /\ call[c].at = 0
      /\ call'[c] = [call[c] EXCEPT !.at = 1]
      /\ \A d \in Calls \ {c} : call'[d] = call[d]
      /\ UNCHANGED <<builder, overlap>>
  BY DEF Lookup, TypeOK
<1>2. TypeOK'
  BY DEF Lookup, TypeOK, Call
<1>3. Active' = Active /\ \A d \in Calls : call'[d].wallet = call[d].wallet /\ call'[d].jwt = call[d].jwt
  BY <1>1 DEF Active, TypeOK, Call
<1>4. ActiveFresh' /\ ActiveOverlap'
  BY <1>1, <1>3 DEF ActiveFresh, ActiveOverlap, Active
<1>5. SetClaimsAreRecent'
  BY <1>1, <1>3 DEF SetClaimsAreRecent, Active, TypeOK, Call
<1>6. ClaimsFromOverlappingCalls'
  BY <1>1, <1>3 DEF ClaimsFromOverlappingCalls, Issued, Active
<1>. QED BY <1>2, <1>4, <1>5, <1>6

LEMMA SetClaimOK ==
  ASSUME IInv, NEW c \in Calls, SetClaim(c) PROVE IInv'
<1> DEFINE at == call[c].at
           key == ClaimOrder[at]
<1> USE ClaimOrderFacts DEF IInv
<1>1. /\ c \in Active /\ at \in 1..6
      /\ call'[c] = [call[c] EXCEPT !.at = at + 1]
      /\ \A d \in Calls \ {c} : call'[d] = call[d]
      /\ overlap' = overlap
  BY DEF SetClaim, TypeOK, Active
<1>2. key \in ClaimNames /\ call[c].wallet \in Wallets
  BY <1>1 DEF ActiveFresh
<1>3. \A k \in ClaimNames : builder'[k] = IF k = key THEN call[c].wallet ELSE builder[k]
  BY DEF SetClaim, TypeOK, Claims
<1>4. TypeOK'
  <2>1. builder' \in Claims
    BY <1>2, <1>3 DEF SetClaim, TypeOK, Claims
  <2>2. call' \in [Calls -> Call]
    BY <1>1 DEF SetClaim, TypeOK, Call
  <2>. QED BY <1>1, <2>1, <2>2 DEF TypeOK
<1>5. /\ Active' = Active
      /\ \A d \in Calls : call'[d].wallet = call[d].wallet /\ call'[d].jwt = call[d].jwt
      /\ call'[c].at = at + 1
  BY <1>1 DEF Active, TypeOK, Call
<1>6. ActiveFresh' /\ ActiveOverlap'
  BY <1>1, <1>5 DEF ActiveFresh, ActiveOverlap, Active
<1>7. SetClaimsAreRecent'
  <2> SUFFICES ASSUME NEW d \in Active, NEW i \in 1..6, i < call'[d].at
               PROVE  builder'[ClaimOrder[i]] \in overlap[d]
    BY <1>1, <1>5 DEF SetClaimsAreRecent
  <2>1. CASE ClaimOrder[i] = key
    BY <1>1, <1>2, <1>3, <2>1 DEF ActiveOverlap
  <2>2. CASE ClaimOrder[i] # key
    <3>1. i # at /\ (d = c \/ call'[d].at = call[d].at)
      BY <1>1, <2>2 DEF Active
    <3>2. i < call[d].at
      BY <1>1, <1>5, <3>1 DEF TypeOK, Call, Active
    <3>. QED BY <1>3, <2>2, <3>2 DEF SetClaimsAreRecent
  <2>. QED BY <2>1, <2>2
<1>8. ClaimsFromOverlappingCalls'
  BY <1>1, <1>5 DEF ClaimsFromOverlappingCalls, Issued, Active
<1>. QED BY <1>4, <1>6, <1>7, <1>8

\* A call that is over, one way or the other.
LEMMA EndOK ==
  ASSUME IInv, NEW c \in Calls, Compact(c) \/ FailLookup(c) PROVE IInv'
<1> USE ClaimOrderFacts DEF IInv
<1>1. /\ c \in Active /\ ~call'[c].active
      /\ \A d \in Calls \ {c} : call'[d] = call[d]
      /\ UNCHANGED <<builder, overlap>>
  BY DEF Compact, FailLookup, TypeOK, Call, Active
<1>2. TypeOK'
  <2>1. \/ call' = [call EXCEPT ![c].active = FALSE, ![c].jwt = builder]
        \/ call' = [call EXCEPT ![c].active = FALSE]
    BY DEF Compact, FailLookup
  <2>2. call' \in [Calls -> Call]
    <3>1. call[c] \in Call /\ builder \in Claims
      BY DEF TypeOK
    <3>2. /\ [call[c] EXCEPT !.active = FALSE, !.jwt = builder] \in Call
          /\ [call[c] EXCEPT !.active = FALSE] \in Call
      BY <3>1 DEF Call
    <3>. QED BY <1>1, <2>1, <3>2 DEF TypeOK
  <2>. QED BY <1>1, <2>2 DEF TypeOK
<1>3. Active' = Active \ {c}
  BY <1>1 DEF Active
<1>4. ActiveFresh' /\ ActiveOverlap' /\ SetClaimsAreRecent'
  BY <1>1, <1>3 DEF ActiveFresh, ActiveOverlap, SetClaimsAreRecent, Active
<1>5. CASE Compact(c)
  <2>1. call'[c].jwt = builder /\ call[c].at = 7
    BY <1>5 DEF Compact, TypeOK, Call
  <2>2. \A i \in 1..6 : builder[ClaimOrder[i]] \in overlap[c]
    BY <1>1, <2>1 DEF SetClaimsAreRecent
  <2>. QED BY <1>1, <1>2, <1>4, <2>1, <2>2 DEF ClaimsFromOverlappingCalls, Issued
<1>6. CASE FailLookup(c)
  <2>1. call'[c].jwt = NoClaims
    BY <1>1, <1>6 DEF FailLookup, ActiveFresh, TypeOK, Call
  <2>. QED BY <1>1, <1>2, <1>4, <2>1 DEF ClaimsFromOverlappingCalls, Issued
<1>. QED BY <1>5, <1>6

LEMMA NextIInv == IInv /\ [Next]_vars => IInv'
<1> SUFFICES ASSUME IInv, [Next]_vars PROVE IInv'
  OBVIOUS
<1>1. CASE UNCHANGED vars
  BY <1>1 DEF vars, IInv, TypeOK, ActiveFresh, ActiveOverlap, SetClaimsAreRecent,
              ClaimsFromOverlappingCalls, Issued, Active
<1>. QED BY <1>1, StartOK, LookupOK, SetClaimOK, EndOK DEF Next

\* The builder is always a complete assignment of claims and every call is at
\* one of its eight positions, whatever lookups fail.
THEOREM TypeCorrect == Spec => []TypeOK
<1>1. IInv => TypeOK
  BY DEF IInv
<1>. QED BY <1>1, InitIInv, NextIInv, PTL DEF Spec

\* However many calls share the builder, no JWT carries a claim of a call that
\* was over before its own began.
THEOREM ClaimsCorrect == Spec => []ClaimsFromOverlappingCalls
<1>1. IInv => ClaimsFromOverlappingCalls
  BY DEF IInv
<1>. QED BY <1>1, InitIInv, NextIInv, PTL DEF Spec

\* A call under way finds in the builder, for every claim it has set, its own
\* value or one of a call that overlaps it.
THEOREM RecentCorrect == Spec => []SetClaimsAreRecent
<1>1. IInv => SetClaimsAreRecent
  BY DEF IInv
<1>. QED BY <1>1, InitIInv, NextIInv, PTL DEF Spec
=============================================================================
