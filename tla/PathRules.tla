----------------------------- MODULE PathRules ------------------------------
(***************************************************************************)
(* Path configuration (config/path, service/predicate): which entry of a   *)
(* list catches a request, which authorities it asks for, and whether a    *)
(* client has them.  A list is a record                                    *)
(*   matches   entries in configuration order: methods, the paths their    *)
(*             pattern covers, order, authorities                          *)
(*   contains  TRUE for MATCH_IF_CONTAINS_IN_LIST                          *)
(* and authorities are groups with a mode, each group again with a mode.   *)
(***************************************************************************)
EXTENDS Integers, Sequences

CONSTANTS Paths, Methods, Authorities

Modes == {"ANY", "ALL"}

Group == [list : SUBSET Authorities, mode : Modes]

PathAuthorities == [groups : SUBSET Group, mode : Modes]

NoAuthorities == [groups |-> {}, mode |-> "ALL"]

Entry == [methods : SUBSET Methods, paths : SUBSET Paths, order : Int,
          authorities : PathAuthorities]

\* A proxy route, or one of the gateway's own endpoints (`own`), of which one
\* lists the authorities of its client (`authorities`).
Route == [own : BOOLEAN, authorities : BOOLEAN, contains : BOOLEAN, matches : Seq(Entry)]

\* filter.config.path.security as it is configured.
RawList == [typed : BOOLEAN, contains : BOOLEAN, base : PathAuthorities, matches : Seq(Entry)]

Config == [method : {"ETH_JWT", "IDENTITY_SERVER"}, routes : Seq(Route), security : RawList]

HaveAuth(pa) == \E g \in pa.groups : g.list # {}

\* PathAuthority.checkHaveAuthorities
GroupHeld(g, held) ==
    \/ g.list = {}
    \/ g.mode = "ALL" /\ g.list \subseteq held
    \/ g.mode = "ANY" /\ g.list \cap held # {}

\* SecurityGatewayFilter.checkAllAuthority
Holds(pa, held) ==
    \/ ~HaveAuth(pa)
    \/ pa.mode = "ALL" /\ \A g \in pa.groups : GroupHeld(g, held)
    \/ pa.mode = "ANY" /\ \E g \in pa.groups : GroupHeld(g, held)

Catches(entry, rq) == rq.path \in entry.paths /\ rq.method \in entry.methods

\* The entry that catches a request, 0 if none: the first by `order`, and in
\* configuration order among equals (sortedBy is stable).
Found(matches, rq) ==
    LET hits == {i \in DOMAIN matches : Catches(matches[i], rq)}
    IN IF hits = {} THEN 0
       ELSE CHOOSE i \in hits : \A j \in hits \ {i} :
               \/ matches[i].order < matches[j].order
               \/ matches[i].order = matches[j].order /\ i < j

\* FilterMatchPredicate.test
Passes(list, rq) == (Found(list.matches, rq) # 0) <=> list.contains

\* The authorities of the entry that catches a request.
Asked(list, rq) ==
    LET i == Found(list.matches, rq)
    IN IF i = 0 THEN NoAuthorities ELSE list.matches[i].authorities

\* PathConfigurationComponent.getSecurityConfig: without a `type` in the
\* configuration the paths are not read; entries that ask for nothing ask for
\* the base authorities.
SecurityList(raw) ==
    LET WithBase(entry) ==
            IF HaveAuth(entry.authorities) THEN entry
            ELSE [entry EXCEPT !.authorities.groups = raw.base.groups]
    IN [contains |-> raw.contains, base |-> raw.base,
        matches |-> IF raw.typed
                    THEN [i \in DOMAIN raw.matches |-> WithBase(raw.matches[i])]
                    ELSE <<>>]
=============================================================================
