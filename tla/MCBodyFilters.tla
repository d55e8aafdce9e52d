--------------------------- MODULE MCBodyFilters ----------------------------
(* TLC instance of BodyFilters: all JSON trees of two names and up to four    *)
(* levels within some limits of width, and forms of one or two names, two   *)
(* of which differ in case only, with parts of every sort.                    *)
EXTENDS BodyFilters, TLC

MCFold == [n \in {"a", "A", "b"} |-> IF n = "A" THEN "a" ELSE n]

\* A tree, with each text's place as its atom.
RECURSIVE Label(_, _)
Label(shape, at) ==
    CASE shape.kind = "text" -> Text({at})
      [] shape.kind = "object" -> Object([k \in DOMAIN shape.of |-> Label(shape.of[k], Append(at, k))])
      [] shape.kind = "array" ->
            Array([i \in DOMAIN shape.of |-> Label(shape.of[i], Append(at, <<"0", "1">>[i]))])

Leaf == Text({})
Objects(some) == {Object(f) : f \in UNION {[d -> some] : d \in SUBSET {"a", "b"}}}
Arrays(some) == {Array(s) : s \in {<<x>> : x \in some} \cup (some \X some)}
Flat == {Leaf} \cup Objects({Leaf}) \cup Arrays({Leaf})
Nested == {Leaf} \cup Objects(Flat) \cup Arrays(Flat)
Deep == Objects({Leaf}) \cup {Object([k \in {"a"} |-> x]) : x \in Nested}
        \cup {Object("a" :> x @@ "b" :> Leaf) : x \in Nested} \cup {Array(<<x, Leaf>>) : x \in Nested}

MCJsonBodies == {Label(shape, <<>>) : shape \in Deep}

Paths == {<<"a">>, <<"b">>, <<"a", "b">>, <<"a", "a">>}
MCJsonFields == {<<>>} \cup {<<p>> : p \in Paths} \cup (Paths \X Paths)

\* A part: a text, a file, JSON or a file of JSON.
Part(atom, file, json) ==
    [node |-> IF json THEN Object("a" :> Text({atom})) ELSE Text({atom}), file |-> file, times |-> 0]

Parts(name) ==
    {<<Part(<<name>>, file, json)>> : file \in BOOLEAN, json \in BOOLEAN}
    \cup {<<Part(<<name, "0">>, file, json), Part(<<name, "1">>, file, FALSE)>> :
              file \in BOOLEAN, json \in BOOLEAN}

MCForms ==
    {[n \in d |-> choice[n]] :
        d \in {{"a"}, {"a", "A"}, {"A", "b"}},
        choice \in {c \in [{"a", "A", "b"} -> UNION {Parts(n) : n \in {"a", "A", "b"}}] :
                        \A n \in {"a", "A", "b"} : c[n] \in Parts(n)}}

MCFormFields == SUBSET {"a", "b"}
=============================================================================
