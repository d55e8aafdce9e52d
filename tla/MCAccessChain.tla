--------------------------- MODULE MCAccessChain ----------------------------
(* TLC instances of AccessChain: every configuration with up to three       *)
(* routes and a security list of up to two entries, made from a few entries *)
(* that overlap, and every request to it.                                   *)
EXTENDS AccessChain, SequencesExt

CONSTANTS p, q, A, B, alice, bob, BadToken

MCAuthoritiesOf(c) == IF c = alice THEN {A} ELSE {A, B}

Groups(gs, mode) == [groups |-> gs, mode |-> mode]
AnyOf(list) == [list |-> list, mode |-> "ANY"]
AllOf(list) == [list |-> list, mode |-> "ALL"]

AsksA == Groups({AnyOf({A})}, "ALL")
AsksBoth == Groups({AnyOf({A}), AllOf({B})}, "ALL")
AsksEither == Groups({AnyOf({A}), AllOf({A, B})}, "ANY")

EntryOf(paths, order, asks) ==
    [methods |-> {"GET"}, paths |-> paths, order |-> order, authorities |-> asks]

RouteEntries == {EntryOf({p}, 0, NoAuthorities), EntryOf({p, q}, 0, AsksA),
                 EntryOf({q}, 0, AsksBoth)}

SecurityEntries == {EntryOf({p}, 1, NoAuthorities), EntryOf({p, q}, 0, AsksBoth),
                    EntryOf({q, ErrorPath}, 1, AsksEither)}

Proxy(matches, contains) ==
    [own |-> FALSE, authorities |-> FALSE, contains |-> contains, matches |-> matches]

Proxies == {Proxy(m, c) : m \in BoundedSeq(RouteEntries, 1) \ {<<>>}, c \in BOOLEAN}

\* The last route serves what the others leave.
Rest == Proxy(<<EntryOf({p, q, ErrorPath}, 0, NoAuthorities)>>, TRUE)

Own(lists) ==
    [own |-> TRUE, authorities |-> lists, contains |-> TRUE,
     matches |-> <<EntryOf({q}, 0, NoAuthorities)>>]

Routes == {<<r>> : r \in Proxies} \cup {<<r, Rest>> : r \in Proxies}
            \cup {<<r1, r2, Rest>> : r1 \in {x \in Proxies : ~x.contains}, r2 \in Proxies}

SecurityLists ==
    {[typed |-> t, contains |-> c, base |-> b, matches |-> m] :
        t \in {TRUE}, c \in BOOLEAN, b \in {NoAuthorities, AsksBoth},
        m \in BoundedSeq(SecurityEntries, 2)}
    \cup {[typed |-> FALSE, contains |-> c, base |-> AsksBoth, matches |-> <<EntryOf({p}, 1, NoAuthorities)>>] :
        c \in BOOLEAN}

\* The endpoints of the gateway itself exist for ETH_JWT only.
MCConfigs ==
    {c \in [method : {"ETH_JWT", "IDENTITY_SERVER"},
            routes : Routes \cup {<<Own(a), Rest>> : a \in BOOLEAN},
            security : SecurityLists] :
        c.method = "IDENTITY_SERVER" => ~c.routes[1].own}

MCInputs ==
    {[method |-> m, path |-> x, token |-> t] :
        m \in {"GET", "OPTIONS"}, x \in {p, q},
        t \in {NoToken, BadToken, alice, bob}}
    \cup {[method |-> "POST", path |-> p, token |-> alice],
          [method |-> "GET", path |-> p, token |-> Malformed],
          [method |-> "GET", path |-> ErrorPath, token |-> NoToken]}
=============================================================================
