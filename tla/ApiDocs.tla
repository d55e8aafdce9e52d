------------------------------ MODULE ApiDocs -------------------------------
(***************************************************************************)
(* The API's documentation: the gateway serves the Swagger UI page from its *)
(* class path (SwaggerApiGatewayFilter) and the OpenAPI document from a     *)
(* directory that its operator fills (OpenApiDocGatewayFilter).  The page's *)
(* initializer, into which the gateway writes the document's URL, runs in a *)
(* browser, which asks for the document and keeps it as long as the gateway *)
(* allows.                                                                  *)
(*                                                                          *)
(* A URI is the sequence of what stands between its slashes, and each of    *)
(* these the sequence of what stands between its dots: "/docs/index.html"   *)
(* is <<docs, <<"index", "html">>>>, "/docs/" ends in an empty name.        *)
(***************************************************************************)
EXTENDS Integers, Sequences, SequencesExt

CONSTANTS
    Configs,               \* how gateway.base and opendoc may be set
    MaxAge,                \* the day a client may keep the document, in ticks
    MaxTime, MaxVersion, MaxLosses   \* bounds of the model

Uri == Seq(Seq(STRING))

Settings == [base : Uri, swaggerUri : Uri, openApiUri : Uri, openApiFileUri : Uri]

ASSUME ConfigAssumption == Configs \subseteq Settings
ASSUME DocsAssumption == {MaxAge, MaxTime, MaxVersion, MaxLosses} \subseteq Nat

VARIABLES
    config,   \* the settings this gateway was started with
    disk,     \* what is in openApiFilesPath under the document's name
    version,  \* documents published so far
    clock,
    page,     \* a browser's tab
    cache,    \* the browser's HTTP cache: a document, fresh before "until"
    losses,   \* connections lost so far
    gone      \* history: when each content was last on the disk

vars == <<config, disk, version, clock, page, cache, losses, gone>>

Absent == 0  \* no such file
Torn == -1   \* the file while it is being written over
Contents == -1..MaxVersion

Html == "text/html"
Png == "image/png"
Css == "text/css"
JavaScript == "application/javascript"
Json == "application/json"
Yaml == "text/yaml"

NoUri == <<>>

-----------------------------------------------------------------------------
(* What the gateway answers to a GET.                                       *)

\* OpenApiFiltersConfig puts the base path in front of what is configured.
SwaggerUriPath == config.base \o config.swaggerUri
OpenApiUri == config.base \o config.openApiUri
ApiFilePath == config.base \o config.openApiFileUri

\* The regular expression (urlPath)(.*) of FileGatewayFilter, and its group 2.
Covers(urlPath, uri) == IsStrictPrefix(urlPath, uri)
FilePath(urlPath, uri) == SubSeq(uri, Len(urlPath) + 1, Len(uri))

\* ^([a-zA-Z0-9_\-()])+(\.png|...)$: one name, one dot, a known extension.
Named(path, extensions) ==
    /\ Len(path) = 1
    /\ Len(path[1]) = 2
    /\ path[1][1] # ""
    /\ path[1][2] \in extensions

\* The files beside swagger-initializer.js, as far as a page asks for them.
Initializer == <<"swagger-initializer", "js">>
Bundle == <<"swagger-ui-bundle", "js">>
Preset == <<"swagger-ui-standalone-preset", "js">>
Index == <<"index", "html">>
\* What index.html links, in its order.
Linked == <<<<"swagger-ui", "css">>, <<"index", "css">>, <<"favicon-32x32", "png">>,
            <<"favicon-16x16", "png">>, Bundle, Preset, Initializer>>
ClassPath == {Index} \cup {Linked[i] : i \in DOMAIN Linked}

\* GlobalErrorAttributes: an ApiException has the status its code begins with,
\* any other exception is a 500 with code 5000.
Failed(status) == [status |-> status, type |-> Json, url |-> NoUri, doc |-> Absent, maxAge |-> 0]
BadFilename == Failed(500)
NoSuchResource == Failed(500)
NoRoute == Failed(404)

SwaggerType(extension) ==
    CASE extension = "html" -> Html
      [] extension = "png" -> Png
      [] extension = "js" -> JavaScript
      [] extension = "css" -> Css

\* Mutant: the placeholder is left in the initializer.
SwaggerFile_Placeholder(path) ==
    IF ~Named(path, {"png", "css", "html", "js"}) THEN BadFilename
    ELSE IF path[1] \notin ClassPath THEN NoSuchResource
    ELSE [status |-> 200, type |-> SwaggerType(path[1][2]), doc |-> Absent, maxAge |-> 0,
          url |-> IF path[1] = Initializer THEN <<<<"@apiPath@">>>> ELSE NoUri]

\* SwaggerApiGatewayFilter.  Only the initializer has an @apiPath@ to replace.
SwaggerFile(path) ==
    IF ~Named(path, {"png", "css", "html", "js"}) THEN BadFilename
    ELSE IF path[1] \notin ClassPath THEN NoSuchResource
    ELSE [status |-> 200, type |-> SwaggerType(path[1][2]), doc |-> Absent, maxAge |-> 0,
          url |-> IF path[1] = Initializer THEN ApiFilePath ELSE NoUri]

\* Mutant: the document may be kept for twice as long.
DocFile_TwoDays(path) ==
    IF ~Named(path, {"yaml", "json"}) THEN BadFilename
    ELSE IF disk = Absent \/ path # <<Last(config.openApiFileUri)>> THEN NoSuchResource
    ELSE [status |-> 200, type |-> IF path[1][2] = "yaml" THEN Yaml ELSE Json,
          url |-> NoUri, doc |-> disk, maxAge |-> 2 * MaxAge]

\* OpenApiDocGatewayFilter: the file is read as it is at this moment.
DocFile(path) ==
    IF ~Named(path, {"yaml", "json"}) THEN BadFilename
    ELSE IF disk = Absent \/ path # <<Last(config.openApiFileUri)>> THEN NoSuchResource
    ELSE [status |-> 200, type |-> IF path[1][2] = "yaml" THEN Yaml ELSE Json,
          url |-> NoUri, doc |-> disk, maxAge |-> MaxAge]

\* Mutant: the route of the documents, which covers the page's too, comes first.
Answer_DocsFirst(uri) ==
    IF Covers(OpenApiUri, uri) THEN DocFile(FilePath(OpenApiUri, uri))
    ELSE IF Covers(SwaggerUriPath, uri) THEN SwaggerFile(FilePath(SwaggerUriPath, uri))
    ELSE NoRoute

\* The routes "swagger" and "openApi", in the order of their definition.
Answer(uri) ==
    IF Covers(SwaggerUriPath, uri) THEN SwaggerFile(FilePath(SwaggerUriPath, uri))
    ELSE IF Covers(OpenApiUri, uri) THEN DocFile(FilePath(OpenApiUri, uri))
    ELSE NoRoute

-----------------------------------------------------------------------------
(* The browser.                                                             *)

NoPage == [pc |-> "closed", next |-> 1, ran |-> {}, url |-> NoUri, doc |-> Absent, at |-> 0]

\* What the user may type: the page, its directory, a name that is not there.
Entries == {Index, <<"">>, <<"missing", "html">>}

Open(entry) ==
    /\ page.pc \in {"closed", "broken"}
    /\ page' = [NoPage EXCEPT !.pc =
                    IF Answer(Append(SwaggerUriPath, entry)).type = Html THEN "loading" ELSE "broken"]
    /\ UNCHANGED <<config, disk, version, clock, cache, losses, gone>>

\* A linked file arrived or did not; a script that arrived runs at once.
Loaded(answer) ==
    [page EXCEPT !.pc = IF page.next = Len(Linked) THEN "loaded" ELSE "loading",
                 !.next = IF page.next = Len(Linked) THEN 1 ELSE page.next + 1,
                 !.ran = @ \cup (IF answer.type = JavaScript THEN {Linked[page.next]} ELSE {}),
                 !.url = IF answer.url # NoUri THEN answer.url ELSE @]

Load ==
    /\ page.pc = "loading"
    /\ page' = Loaded(Answer(Append(SwaggerUriPath, Linked[page.next])))
    /\ UNCHANGED <<config, disk, version, clock, cache, losses, gone>>

LoadLost ==
    /\ page.pc = "loading"
    /\ losses < MaxLosses
    /\ losses' = losses + 1
    /\ page' = Loaded(NoRoute)
    /\ UNCHANGED <<config, disk, version, clock, cache, gone>>

\* Mutant: the page goes on without what it needs.
OnLoad_Unguarded ==
    /\ page.pc = "loaded"
    /\ page' = [page EXCEPT !.pc = "fetching"]
    /\ UNCHANGED <<config, disk, version, clock, cache, losses, gone>>

\* window.onload: set by the initializer if that ran; it calls SwaggerUIBundle
\* with the URL and with SwaggerUIStandalonePreset, which must be defined.
OnLoad ==
    /\ page.pc = "loaded"
    /\ page' = [page EXCEPT !.pc =
                    IF {Initializer, Bundle, Preset} \subseteq page.ran THEN "fetching" ELSE "broken"]
    /\ UNCHANGED <<config, disk, version, clock, cache, losses, gone>>

Show(doc) == page' = [page EXCEPT !.pc = "shown", !.doc = doc, !.at = clock]

FetchCached ==
    /\ page.pc = "fetching"
    /\ clock < cache.until
    /\ Show(cache.doc)
    /\ UNCHANGED <<config, disk, version, clock, cache, losses, gone>>

FetchDoc ==
    /\ page.pc = "fetching"
    /\ clock >= cache.until
    /\ LET answer == Answer(page.url) IN
       \/ /\ answer.doc # Absent
          /\ Show(answer.doc)
          /\ cache' = [doc |-> answer.doc, until |-> clock + answer.maxAge]
       \/ /\ answer.doc = Absent
          /\ page' = [page EXCEPT !.pc = "broken"]
          /\ UNCHANGED cache
    /\ UNCHANGED <<config, disk, version, clock, losses, gone>>

FetchLost ==
    /\ page.pc = "fetching"
    /\ losses < MaxLosses
    /\ losses' = losses + 1
    /\ page' = [page EXCEPT !.pc = "broken"]
    /\ UNCHANGED <<config, disk, version, clock, cache, gone>>

\* The tab is closed; the browser's cache stays.
Close ==
    /\ page.pc = "shown"
    /\ page' = NoPage
    /\ UNCHANGED <<config, disk, version, clock, cache, losses, gone>>

-----------------------------------------------------------------------------
(* The operator and the clock.                                              *)

\* A document is copied over the one before: begun, then done.
Overwrite ==
    /\ disk # Torn
    /\ version < MaxVersion
    /\ disk' = Torn
    /\ gone' = [gone EXCEPT ![disk] = clock]
    /\ UNCHANGED <<config, version, clock, page, cache, losses>>

Written ==
    /\ disk = Torn
    /\ version' = version + 1
    /\ disk' = version + 1
    /\ gone' = [gone EXCEPT ![Torn] = clock]
    /\ UNCHANGED <<config, clock, page, cache, losses>>

Tick ==
    /\ clock < MaxTime
    /\ clock' = clock + 1
    /\ UNCHANGED <<config, disk, version, page, cache, losses, gone>>

-----------------------------------------------------------------------------
Init ==
    /\ config \in Configs
    /\ disk = Absent
    /\ version = 0
    /\ clock = 0
    /\ page = NoPage
    /\ cache = [doc |-> Absent, until |-> 0]
    /\ losses = 0
    /\ gone = [v \in Contents |-> 0]

Browse == Load \/ OnLoad \/ FetchCached \/ FetchDoc

Next ==
    \/ \E entry \in Entries : Open(entry)
    \/ Browse \/ LoadLost \/ FetchLost \/ Close
    \/ Overwrite \/ Written \/ Tick

\* A browser goes on loading a page that is open.
Spec == Init /\ [][Next]_vars /\ WF_vars(Browse)

-----------------------------------------------------------------------------
(* Properties.                                                              *)

TypeOK ==
    /\ config \in Configs
    /\ disk \in Contents
    /\ version \in 0..MaxVersion
    /\ clock \in 0..MaxTime
    /\ page.pc \in {"closed", "loading", "loaded", "fetching", "shown", "broken"}
    /\ page.next \in DOMAIN Linked
    /\ page.ran \subseteq {Initializer, Bundle, Preset}
    /\ page.url \in {NoUri, ApiFilePath}
    /\ page.doc \in Contents
    /\ page.at \in 0..MaxTime
    /\ cache \in [doc : Contents, until : 0..(MaxTime + MaxAge)]
    /\ losses \in 0..MaxLosses
    /\ gone \in [Contents -> 0..MaxTime]

\* When the page asks for the document, it asks at an address where the
\* gateway serves it, whatever was lost before: the URL that went into the
\* script and the route that serves the file come from different settings.
AsksWhereItIs ==
    page.pc = "fetching" => (disk # Absent <=> Answer(page.url).status = 200)

\* Settings that fit together, as the defaults do: the document has a name that
\* DocFile reads, right below the route of the documents, and is not below the
\* page's, which comes first.  Nothing in the gateway compares them.
FitTogether(c) ==
    /\ Covers(c.openApiUri, c.openApiFileUri)
    /\ Named(FilePath(c.openApiUri, c.openApiFileUri), {"yaml", "json"})
    /\ ~Covers(c.swaggerUri, c.openApiFileUri)

\* What a page shows was still on the disk less than a day before it was
\* shown, or is on it now: a document read while it was being written over is
\* forgotten in time, too (CacheControl.maxAge in OpenApiDocGatewayFilter).
LastOnDisk(v) == IF disk = v THEN clock ELSE gone[v]
ShownIsRecent == page.pc = "shown" => page.at <= LastOnDisk(page.doc) + MaxAge

\* A user who opens the page again when it is broken sees the document in the
\* end, once there is one and connections are no longer lost.
PageRecovers ==
    (<>[](disk # Absent) /\ WF_vars(Open(Index))) => []<>(page.pc = "shown")
=============================================================================
