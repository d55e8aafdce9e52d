---------------------------- MODULE BodyFilters -----------------------------
(***************************************************************************)
(* Bodies on their way to a microservice: EncryptGatewayFilter encrypts the *)
(* fields that the route's encryptFields name, in a JSON body or among the  *)
(* parts of a multipart body, which MultipartToJsonGatewayFilter then turns *)
(* into a JSON body.  LoggingFilter has its place after the encryption.  It *)
(* reads the parts beside the conversion, and each of the two, whenever its *)
(* thread gets there, encrypts the parts where they are, in the one map     *)
(* that the exchange keeps.                                                 *)
(*                                                                          *)
(* The contents of a part are one buffer, whose read position the readers   *)
(* share and which each of them releases: what a reader gets of a buffer    *)
(* that the other one has touched is not certain.                           *)
(*                                                                          *)
(* A route may leave a form as it is (convertMultipartToJson).  It then     *)
(* goes on as it came, encryptFields or not; only the log reads the parts.  *)
(*                                                                          *)
(* Contents are sets of atoms: a text of the client has one, what is glued  *)
(* together has those of its pieces.  Not here: encryption itself (sealed   *)
(* is sealed), headers, bodies of other types, which pass as they are, and  *)
(* the log of a route that logs no bodies.                                  *)
(***************************************************************************)
EXTENDS Sequences, SequencesExt, FiniteSets

CONSTANTS
    JsonBodies,    \* JSON trees
    JsonFields,    \* sequences of paths, encryptFields of routes for JSON
    Forms,         \* multipart bodies: functions from names to sequences of parts
    FormFields,    \* sets of names, encryptFields of routes for forms
    Fold           \* a function that gives names which differ in case one value

VARIABLES
    rq,      \* the request: its body, its route's encryptFields and converts
    parts,   \* multipartData of the exchange
    touched, \* who has touched the buffers of a name's parts
    reader,  \* who reads it; history: shared, a buffer it read was not its alone
    got      \* history: what each of them has read in the end

vars == <<rq, parts, touched, reader, got>>

Text(atoms) == [kind |-> "text", of |-> atoms]
SealedText(atoms) == [kind |-> "sealed", of |-> atoms]
Object(f) == [kind |-> "object", of |-> f]
Array(s) == [kind |-> "array", of |-> s]

-----------------------------------------------------------------------------
(* A JSON body.                                                             *)

\* encryptPath.  A text (a number, a boolean) at the end of the path that is an
\* object's is replaced; arrays are passed through; an encrypted text is an
\* object by now, which has none of the fields.
RECURSIVE EncryptPath(_, _)
EncryptPath(node, path) ==
    CASE node.kind = "array" ->
            Array([i \in DOMAIN node.of |-> EncryptPath(node.of[i], path)])
      [] node.kind = "object" /\ Head(path) \in DOMAIN node.of ->
            Object([node.of EXCEPT ![Head(path)] =
                        IF Len(path) > 1 THEN EncryptPath(@, Tail(path))
                        ELSE IF @.kind = "text" THEN SealedText(@.of) ELSE @])
      [] OTHER -> node

\* getBody: one field after the other, in the same tree.
EncryptBody(body, fields) == FoldLeft(EncryptPath, body, fields)

-----------------------------------------------------------------------------
(* A multipart body.  A part has contents, which may be JSON, may be a file, *)
(* and is an EncryptedPart so many times.                                   *)

\* getMultipartData: which parts are to be encrypted, whatever their case.
Configured(fields) == {n \in DOMAIN parts : \E f \in fields : Fold[f] = Fold[n]}

AllEncrypted(some) == \A i \in DOMAIN some : some[i].times > 0

Encrypted(some) ==
    [i \in DOMAIN some |-> [some[i] EXCEPT !.times = IF @ > 0 THEN @ ELSE 1]]

At(r, pc) == reader[r].pc = pc

Subscribe(r) ==
    /\ At(r, "new")
    /\ reader' = [reader EXCEPT ![r].pc = "encoding", ![r].todo = Configured(rq.fields)]
    /\ UNCHANGED <<rq, parts, touched, got>>

\* Mutant: a field that another thread is about to encrypt is left to it.
Look_Shared(r) ==
    /\ At(r, "encoding")
    /\ \E n \in reader[r].todo :
          reader' = [reader EXCEPT
              ![r].pc = IF AllEncrypted(parts[n]) \/ (\E q \in DOMAIN reader \ {r} : n \in reader[q].todo)
                        THEN "encoding" ELSE "putting",
              ![r].todo = IF AllEncrypted(parts[n]) \/ (\E q \in DOMAIN reader \ {r} : n \in reader[q].todo)
                          THEN @ \ {n} ELSE @,
              ![r].name = n,
              ![r].taken = parts[n]]
    /\ UNCHANGED <<rq, parts, touched, got>>

\* encodeMultiPart: the parts of a name are taken from the map ...
Look(r) ==
    /\ At(r, "encoding")
    /\ \E n \in reader[r].todo :
          reader' = [reader EXCEPT
              ![r].pc = IF AllEncrypted(parts[n]) THEN "encoding" ELSE "putting",
              ![r].todo = IF AllEncrypted(parts[n]) THEN @ \ {n} ELSE @,
              ![r].name = n,
              ![r].taken = parts[n]]
    /\ UNCHANGED <<rq, parts, touched, got>>

\* ... and put back encrypted.
Put(r) ==
    /\ At(r, "putting")
    /\ parts' = [parts EXCEPT ![reader[r].name] = Encrypted(reader[r].taken)]
    /\ reader' = [reader EXCEPT ![r].pc = "encoding", ![r].todo = @ \ {reader[r].name},
                               ![r].name = "", ![r].taken = <<>>]
    /\ UNCHANGED <<rq, touched, got>>

\* With nothing left to encrypt the map is gone through ...
Encoded(r) ==
    /\ At(r, "encoding")
    /\ reader[r].todo = {}
    /\ reader' = [reader EXCEPT ![r].pc = "reading", ![r].todo = DOMAIN parts]
    /\ UNCHANGED <<rq, parts, touched, got>>

Read(r) ==
    /\ At(r, "reading")
    /\ \E n \in reader[r].todo :
          reader' = [reader EXCEPT ![r].todo = @ \ {n}, ![r].seen[n] = parts[n]]
    /\ UNCHANGED <<rq, parts, touched, got>>

\* ... and then the contents of its parts are read.
Collected(r) ==
    /\ At(r, "reading")
    /\ reader[r].todo = {}
    /\ reader' = [reader EXCEPT ![r].pc = "contents", ![r].todo = DOMAIN parts]
    /\ UNCHANGED <<rq, parts, touched, got>>

Open(r) ==
    /\ At(r, "contents")
    /\ \E n \in reader[r].todo :
          /\ reader' = [reader EXCEPT ![r].pc = "open", ![r].name = n]
          /\ touched' = [touched EXCEPT ![n] = @ \cup {r}]
    /\ UNCHANGED <<rq, parts, got>>

\* What is left when the read position has moved on.
Cut(some) == [i \in DOMAIN some |-> [some[i] EXCEPT !.node = Text({})]]

\* A buffer that the other reader has touched may have been read to its end,
\* or released, which is an error.
Close(r) ==
    /\ At(r, "open")
    /\ LET n == reader[r].name
           mine == touched[n] = {r}
       IN \/ \E some \in {reader[r].seen[n]} \cup (IF mine THEN {} ELSE {Cut(reader[r].seen[n])}) :
                reader' = [reader EXCEPT ![r].pc = "contents", ![r].todo = @ \ {n}, ![r].name = "",
                                         ![r].shared = @ \/ ~mine, ![r].seen[n] = some]
          \/ ~mine /\ reader' = [reader EXCEPT ![r].pc = "failed"]
    /\ UNCHANGED <<rq, parts, touched, got>>

RECURSIVE Atoms(_, _)
\* The atoms of a tree that are in nodes of a kind.
Atoms(node, kind) ==
    CASE node.kind \in {"array", "object"} ->
            UNION {Atoms(node.of[k], kind) : k \in DOMAIN node.of}
      [] node.kind = kind -> node.of
      [] OTHER -> {}

AllAtoms(some) ==
    UNION {Atoms(some[i].node, "text") : i \in DOMAIN some}

\* What was encrypted is JSON now, and no file any more.
PartNode(part) == IF part.times > 0 THEN SealedText(Atoms(part.node, "text")) ELSE part.node

IsFile(part) == part.file /\ part.times = 0
IsJson(part) == part.node.kind # "text" \/ part.times > 0

\* MultipartToJsonRequestDecorator, for the parts of one name: a file becomes
\* Base64 text; several parts are glued together, and make an array if that is
\* JSON.
JsonValue(some) ==
    IF IsFile(some[1]) THEN Text(AllAtoms(some))
    ELSE IF Len(some) = 1 THEN PartNode(some[1])
    ELSE IF \A i \in DOMAIN some : IsJson(some[i])
         THEN Array([i \in DOMAIN some |-> PartNode(some[i])])
    ELSE Text(AllAtoms(some))

ToJson(form) == Object([n \in DOMAIN form |-> JsonValue(form[n])])

\* What is logged of the parts: each as it is.
ToLog(form) ==
    Object([n \in DOMAIN form |-> Array([i \in DOMAIN form[n] |-> PartNode(form[n][i])])])

Finish(r) ==
    /\ At(r, "contents")
    /\ reader[r].todo = {}
    /\ reader' = [reader EXCEPT ![r].pc = "done"]
    /\ got' = [got EXCEPT ![r] = {IF r = "log" THEN ToLog(reader[r].seen) ELSE ToJson(reader[r].seen)}]
    /\ UNCHANGED <<rq, parts, touched>>

-----------------------------------------------------------------------------
Init ==
    /\ \/ /\ rq \in [type : {"json"}, body : JsonBodies, fields : JsonFields]
          /\ parts = <<>>
       \/ /\ rq \in [type : {"form"}, body : Forms, fields : FormFields, converts : BOOLEAN]
          /\ parts = rq.body
    /\ touched = [n \in DOMAIN parts |-> {}]
    /\ reader = [r \in {"log", "convert"} |->
                    [pc |-> "new", todo |-> {}, name |-> "", taken |-> <<>>, seen |-> parts,
                     shared |-> FALSE]]
    /\ got = [r \in {"log", "convert"} |-> {}]

\* The log keeps the body that it passes on: there is one reading of it.
ReadJson ==
    /\ rq.type = "json"
    /\ At("convert", "new")
    /\ got' = [r \in {"log", "convert"} |-> {EncryptBody(rq.body, rq.fields)}]
    /\ reader' = [r \in {"log", "convert"} |-> [reader[r] EXCEPT !.pc = "done"]]
    /\ UNCHANGED <<rq, parts, touched>>

ReadForm(r) ==
    \/ Subscribe(r) \/ Look(r) \/ Put(r) \/ Encoded(r)
    \/ Read(r) \/ Collected(r) \/ Open(r) \/ Close(r) \/ Finish(r)

\* Without the conversion the microservice gets the bytes of the client.
PassForm ==
    /\ rq.type = "form"
    /\ ~rq.converts
    /\ At("convert", "new")
    /\ reader' = [reader EXCEPT !["convert"].pc = "done"]
    /\ got' = [got EXCEPT !["convert"] = {ToLog(rq.body)}]
    /\ UNCHANGED <<rq, parts, touched>>

Next ==
    \/ ReadJson
    \/ PassForm
    \/ rq.type = "form" /\ ReadForm("log")
    \/ rq.type = "form" /\ rq.converts /\ ReadForm("convert")

Spec == Init /\ [][Next]_vars

-----------------------------------------------------------------------------
(* Properties.                                                              *)

\* The texts in a configured field, whatever its value is; `at` is the names on
\* the way to a node, arrays not counted.
RECURSIVE Meant(_, _, _)
Meant(node, at, paths) ==
    CASE node.kind = "object" ->
            UNION {Meant(node.of[k], Append(at, k), paths) : k \in DOMAIN node.of}
      [] node.kind = "array" -> UNION {Meant(node.of[i], at, paths) : i \in DOMAIN node.of}
      [] OTHER -> IF \E p \in paths : IsPrefix(p, at) THEN node.of ELSE {}

\* Those among them that are the value of a configured field themselves.
RECURSIVE Values(_, _, _)
Values(node, at, paths) ==
    CASE node.kind = "object" ->
            UNION {IF node.of[k].kind = "text"
                   THEN IF Append(at, k) \in paths THEN node.of[k].of ELSE {}
                   ELSE Values(node.of[k], Append(at, k), paths) : k \in DOMAIN node.of}
      [] node.kind = "array" -> UNION {Values(node.of[i], at, paths) : i \in DOMAIN node.of}
      [] OTHER -> {}

\* For a form, all that is in parts of a configured name.
ToBeSealed ==
    IF rq.type = "json" THEN Meant(rq.body, <<>>, ToSet(rq.fields))
    ELSE UNION {AllAtoms(rq.body[n]) :
                n \in {m \in DOMAIN rq.body : \E f \in rq.fields : Fold[f] = Fold[m]}}

\* What is in a configured field of a JSON body whose value is an array or an
\* object: encryptPath leaves such a value as it is, though nothing that is
\* written of encryptFields says so.
Composite ==
    IF rq.type = "json" THEN ToBeSealed \ Values(rq.body, <<>>, ToSet(rq.fields)) ELSE {}

Sent ==
    IF rq.type = "json" THEN Atoms(rq.body, "text")
    ELSE UNION {AllAtoms(rq.body[n]) : n \in DOMAIN rq.body}

\* The log never gets a configured field in plain, and neither does the
\* microservice, but for two gaps: the arrays and objects of JSON bodies
\* (Composite), and the forms of routes that do not convert them.  Only
\* configured fields are encrypted, and nothing is lost, unless the two readers
\* meet in a buffer.  This is so whichever of them comes first, however they
\* overlap while the one map changes under them, and in whatever order fields
\* are configured that lie below each other (EncryptWebExchange.encodeMultiPart,
\* EncryptResponseDecorator.encryptPath).
BodiesAreSealed ==
    \A r \in DOMAIN got : \A tree \in got[r] :
        r = "log" \/ rq.type = "json" \/ rq.converts =>
            /\ Atoms(tree, "text") \cap ToBeSealed \subseteq Composite
            /\ Atoms(tree, "sealed") \subseteq ToBeSealed
            /\ ~reader[r].shared => Atoms(tree, "text") \cup Atoms(tree, "sealed") = Sent
=============================================================================
