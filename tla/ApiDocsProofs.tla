---------------------------- MODULE ApiDocsProofs ----------------------------
(***************************************************************************)
(* Proofs about ApiDocs, for any settings and any age that the gateway      *)
(* allows a client's copy.                                                  *)
(*                                                                          *)
(* A content's last time on the disk only grows, and what the gateway sends *)
(* is what is on the disk now; so whatever the browser keeps or shows may   *)
(* be measured by it (IInv).                                                *)
(*                                                                          *)
(* A URL is known to the page only from the initializer that it ran, and the*)
(* gateway wrote ApiFilePath there (PageInv).  That the routes serve the    *)
(* document at ApiFilePath is a fact about sequences: the base path stands  *)
(* before everything, so it cancels (BaseOnBoth).  The settings that nobody *)
(* made fit together (DefaultsFit).                                         *)
(***************************************************************************)
EXTENDS ApiDocs, SequenceTheorems, TLAPS

\* The part of the type invariant that the argument needs.
Types ==
    /\ disk \in Contents /\ version \in 0..MaxVersion
    /\ disk = Torn => version < MaxVersion
    /\ clock \in Nat
    /\ gone \in [Contents -> Nat]
    /\ cache \in [doc : Contents, until : Nat]
    /\ page = [pc |-> page.pc, next |-> page.next, ran |-> page.ran, url |-> page.url,
               doc |-> page.doc, at |-> page.at]
    /\ page.doc \in Contents /\ page.at \in Nat

CacheInv == cache.until <= LastOnDisk(cache.doc) + MaxAge

IInv ==
    /\ Types
    /\ \A v \in Contents : gone[v] <= clock
    /\ CacheInv
    /\ ShownIsRecent

LEMMA Constants == MaxAge \in Nat /\ MaxTime \in Nat /\ MaxVersion \in Nat
  BY DocsAssumption

LEMMA InitIInv == Init => IInv
  BY Constants DEF Init, IInv, Types, CacheInv, ShownIsRecent, LastOnDisk, NoPage, Contents, Absent, Torn

\* A document comes only from the disk, and may be kept for MaxAge.
LEMMA AnswerIs ==
  ASSUME NEW uri
  PROVE  Answer(uri).doc # Absent => Answer(uri).doc = disk /\ Answer(uri).maxAge = MaxAge
<1>1. \A path : SwaggerFile(path).doc = Absent
  BY DEF SwaggerFile, BadFilename, NoSuchResource, Failed
<1>2. \A path : DocFile(path).doc # Absent => DocFile(path).doc = disk /\ DocFile(path).maxAge = MaxAge
  BY DEF DocFile, BadFilename, NoSuchResource, Failed
<1>3. NoRoute.doc = Absent
  BY DEF NoRoute, Failed
<1> QED
  BY <1>1, <1>2, <1>3 DEF Answer

-----------------------------------------------------------------------------
(* The browser's steps that show nothing.                                   *)

LEMMA PageStep ==
  ASSUME IInv, UNCHANGED <<disk, version, clock, cache, gone>>,
         page' = [pc |-> page'.pc, next |-> page'.next, ran |-> page'.ran, url |-> page'.url,
                  doc |-> page'.doc, at |-> page'.at],
         page'.doc \in Contents, page'.at \in Nat, page'.pc # "shown"
  PROVE  IInv'
  BY DEF IInv, Types, CacheInv, ShownIsRecent, LastOnDisk

LEMMA OpenOK == ASSUME IInv, NEW entry \in Entries, Open(entry) PROVE IInv'
<1>1. /\ page' = [pc |-> page'.pc, next |-> page'.next, ran |-> page'.ran, url |-> page'.url,
                  doc |-> page'.doc, at |-> page'.at]
      /\ page'.doc = Absent /\ page'.at = 0 /\ page'.pc \in {"loading", "broken"}
  BY DEF Open, NoPage
<1> QED
  BY <1>1, Constants, PageStep DEF Open, Contents, Absent

LEMMA LoadedIs ==
  ASSUME Types, NEW answer
  PROVE  LET p == Loaded(answer) IN
         /\ p = [pc |-> p.pc, next |-> p.next, ran |-> p.ran, url |-> p.url, doc |-> p.doc, at |-> p.at]
         /\ p.doc = page.doc /\ p.at = page.at /\ p.pc \in {"loaded", "loading"}
         /\ p.next = IF page.next = Len(Linked) THEN 1 ELSE page.next + 1
         /\ p.ran = page.ran \cup (IF answer.type = JavaScript THEN {Linked[page.next]} ELSE {})
         /\ p.url = IF answer.url # NoUri THEN answer.url ELSE page.url
<1>1. ASSUME NEW pc, NEW next, NEW ran, NEW url
      PROVE  [page EXCEPT !.pc = pc, !.next = next, !.ran = ran, !.url = url] =
                 [pc |-> pc, next |-> next, ran |-> ran, url |-> url,
                  doc |-> page.doc, at |-> page.at]
  <2> DEFINE p == [pc |-> pc, next |-> next, ran |-> ran, url |-> url,
                   doc |-> page.doc, at |-> page.at]
             one == [page EXCEPT !.pc = pc]
             two == [one EXCEPT !.next = next]
             three == [two EXCEPT !.ran = ran]
             four == [three EXCEPT !.url = url]
  <2>1. one = [pc |-> pc, next |-> page.next, ran |-> page.ran, url |-> page.url,
               doc |-> page.doc, at |-> page.at]
    BY DEF Types
  <2>2. two = [pc |-> pc, next |-> next, ran |-> page.ran, url |-> page.url,
               doc |-> page.doc, at |-> page.at]
    <3> HIDE DEF one
    <3> QED
      BY <2>1
  <2>3. three = [pc |-> pc, next |-> next, ran |-> ran, url |-> page.url,
                 doc |-> page.doc, at |-> page.at]
    <3> HIDE DEF two
    <3> QED
      BY <2>2
  <2>4. four = p
    <3> HIDE DEF three
    <3> QED
      BY <2>3
  <2> QED
    BY <2>4
<1> DEFINE pc == IF page.next = Len(Linked) THEN "loaded" ELSE "loading"
           next == IF page.next = Len(Linked) THEN 1 ELSE page.next + 1
           ran == page.ran \cup (IF answer.type = JavaScript THEN {Linked[page.next]} ELSE {})
           url == IF answer.url # NoUri THEN answer.url ELSE page.url
<1>2. Loaded(answer) = [page EXCEPT !.pc = pc, !.next = next, !.ran = ran, !.url = url]
  BY DEF Loaded
<1>3. pc \in {"loaded", "loading"}
  OBVIOUS
<1>4. LET p == Loaded(answer) IN
      /\ p = [pc |-> p.pc, next |-> p.next, ran |-> p.ran, url |-> p.url, doc |-> p.doc, at |-> p.at]
      /\ p.doc = page.doc /\ p.at = page.at
      /\ p.pc = pc /\ p.next = next /\ p.ran = ran /\ p.url = url
  <2> HIDE DEF pc, next, ran, url
  <2> QED
    BY <1>1, <1>2
<1> QED
  BY <1>3, <1>4

LEMMA LoadOK == ASSUME IInv, Load \/ LoadLost PROVE IInv'
<1>1. PICK answer : page' = Loaded(answer)
  BY DEF Load, LoadLost
<1>2. UNCHANGED <<disk, version, clock, cache, gone>>
  BY DEF Load, LoadLost
<1>3. /\ page' = [pc |-> page'.pc, next |-> page'.next, ran |-> page'.ran, url |-> page'.url,
                  doc |-> page'.doc, at |-> page'.at]
      /\ page'.doc = page.doc /\ page'.at = page.at /\ page'.pc # "shown"
  BY <1>1, LoadedIs DEF IInv
<1>4. page'.doc \in Contents /\ page'.at \in Nat
  BY <1>3 DEF IInv, Types
<1> QED
  BY <1>2, <1>3, <1>4, PageStep

LEMMA LosingOK == ASSUME IInv, OnLoad \/ FetchLost PROVE IInv'
<1>1. /\ page' = [pc |-> page'.pc, next |-> page'.next, ran |-> page'.ran, url |-> page'.url,
                  doc |-> page'.doc, at |-> page'.at]
      /\ page'.doc = page.doc /\ page'.at = page.at /\ page'.pc \in {"fetching", "broken"}
  BY DEF IInv, Types, OnLoad, FetchLost
<1>2. page'.doc \in Contents /\ page'.at \in Nat /\ page'.pc # "shown"
  BY <1>1 DEF IInv, Types
<1>3. UNCHANGED <<disk, version, clock, cache, gone>>
  BY DEF OnLoad, FetchLost
<1> QED
  BY <1>1, <1>2, <1>3, PageStep

LEMMA CloseOK == ASSUME IInv, Close PROVE IInv'
<1>1. /\ page' = [pc |-> page'.pc, next |-> page'.next, ran |-> page'.ran, url |-> page'.url,
                  doc |-> page'.doc, at |-> page'.at]
      /\ page'.doc = Absent /\ page'.at = 0 /\ page'.pc = "closed"
  BY DEF Close, NoPage
<1> QED
  BY <1>1, Constants, PageStep DEF Close, Contents, Absent

-----------------------------------------------------------------------------
(* The document.                                                            *)

LEMMA ShowIs ==
  ASSUME Types, NEW doc, Show(doc)
  PROVE  /\ page' = [pc |-> page'.pc, next |-> page'.next, ran |-> page'.ran, url |-> page'.url,
                     doc |-> page'.doc, at |-> page'.at]
         /\ page'.doc = doc /\ page'.at = clock /\ page'.pc = "shown"
  BY DEF Types, Show

\* From the cache: it is still fresh, so the content was there recently.
LEMMA FetchCachedOK == ASSUME IInv, FetchCached PROVE IInv'
<1>1. /\ page' = [pc |-> page'.pc, next |-> page'.next, ran |-> page'.ran, url |-> page'.url,
                  doc |-> page'.doc, at |-> page'.at]
      /\ page'.doc = cache.doc /\ page'.at = clock
  BY ShowIs DEF IInv, FetchCached
<1>2. UNCHANGED <<disk, version, clock, cache, gone>> /\ clock < cache.until
  BY DEF FetchCached
<1>3. LastOnDisk(cache.doc) \in Nat
  BY DEF IInv, Types, LastOnDisk
<1>4. Types'
  BY <1>1, <1>2 DEF IInv, Types
<1>5. ShownIsRecent'
  <2>1. LastOnDisk(page.doc)' = LastOnDisk(cache.doc)
    BY <1>1, <1>2 DEF LastOnDisk
  <2> QED
    BY <1>1, <1>2, <1>3, <2>1, Constants DEF IInv, CacheInv, Types, ShownIsRecent
<1> QED
  BY <1>2, <1>4, <1>5 DEF IInv, CacheInv, LastOnDisk

LEMMA FetchDocOK == ASSUME IInv, FetchDoc PROVE IInv'
<1> DEFINE answer == Answer(page.url)
<1>1. UNCHANGED <<disk, version, clock, gone>>
  BY DEF FetchDoc
<1>2. CASE answer.doc # Absent
  <2>1. answer.doc = disk /\ answer.maxAge = MaxAge
    BY <1>2, AnswerIs
  <2>2. Show(disk) /\ cache' = [doc |-> disk, until |-> clock + MaxAge]
    BY <1>2, <2>1 DEF FetchDoc
  <2>3. /\ page' = [pc |-> page'.pc, next |-> page'.next, ran |-> page'.ran, url |-> page'.url,
                    doc |-> page'.doc, at |-> page'.at]
        /\ page'.doc = disk /\ page'.at = clock
    BY <2>2, ShowIs DEF IInv
  <2>4. Types'
    BY <1>1, <2>2, <2>3, Constants DEF IInv, Types
  <2>5. CacheInv'
    BY <1>1, <2>2, Constants DEF IInv, Types, CacheInv, LastOnDisk
  <2>6. ShownIsRecent'
    BY <1>1, <2>3, Constants DEF IInv, Types, ShownIsRecent, LastOnDisk
  <2> QED
    BY <1>1, <2>4, <2>5, <2>6 DEF IInv
<1>3. CASE answer.doc = Absent
  <2>1. page' = [page EXCEPT !.pc = "broken"] /\ UNCHANGED cache
    BY <1>3 DEF FetchDoc
  <2>2. /\ page' = [pc |-> page'.pc, next |-> page'.next, ran |-> page'.ran, url |-> page'.url,
                    doc |-> page'.doc, at |-> page'.at]
        /\ page'.doc = page.doc /\ page'.at = page.at /\ page'.pc # "shown"
    BY <2>1 DEF IInv, Types
  <2>3. page'.doc \in Contents /\ page'.at \in Nat
    BY <2>2 DEF IInv, Types
  <2> QED
    BY <1>1, <2>1, <2>2, <2>3, PageStep
<1> QED
  BY <1>2, <1>3

-----------------------------------------------------------------------------
(* The operator and the clock: the last time on the disk grows.             *)

LEMMA LaterOnDisk ==
  ASSUME IInv, Types', \A v \in Contents : gone'[v] <= clock', UNCHANGED <<page, cache>>,
         \A v \in Contents : LastOnDisk(v) <= LastOnDisk(v)'
  PROVE  IInv'
<1>1. \A v \in Contents : LastOnDisk(v) \in Nat /\ LastOnDisk(v)' \in Nat
  BY DEF IInv, Types, LastOnDisk
<1>2. cache.doc \in Contents /\ page.doc \in Contents /\ cache.until \in Nat /\ page.at \in Nat
  BY DEF IInv, Types
<1>3. /\ CacheInv' <=> cache.until <= LastOnDisk(cache.doc)' + MaxAge
      /\ ShownIsRecent' <=> (page.pc = "shown" => page.at <= LastOnDisk(page.doc)' + MaxAge)
  BY DEF CacheInv, ShownIsRecent
<1>4. CacheInv' /\ ShownIsRecent'
  BY <1>1, <1>2, <1>3, Constants DEF IInv, CacheInv, ShownIsRecent
<1> QED
  BY <1>4 DEF IInv

LEMMA OverwriteOK == ASSUME IInv, Overwrite PROVE IInv'
<1>1. Types'
  BY Constants DEF IInv, Types, Overwrite, Contents, Torn
<1>2. \A v \in Contents : gone'[v] <= clock' /\ LastOnDisk(v) <= LastOnDisk(v)'
  BY DEF IInv, Types, Overwrite, LastOnDisk, Torn
<1> QED
  BY <1>1, <1>2, LaterOnDisk DEF Overwrite

LEMMA WrittenOK == ASSUME IInv, Written PROVE IInv'
<1>1. Types'
  BY Constants DEF IInv, Types, Written, Contents, Torn
<1>2. \A v \in Contents : gone'[v] <= clock' /\ LastOnDisk(v) <= LastOnDisk(v)'
  BY DEF IInv, Types, Written, LastOnDisk, Torn
<1> QED
  BY <1>1, <1>2, LaterOnDisk DEF Written

LEMMA TickOK == ASSUME IInv, Tick PROVE IInv'
<1>1. Types'
  BY DEF IInv, Types, Tick
<1>2. \A v \in Contents : gone'[v] <= clock' /\ LastOnDisk(v) <= LastOnDisk(v)'
  BY DEF IInv, Types, Tick, LastOnDisk
<1> QED
  BY <1>1, <1>2, LaterOnDisk DEF Tick

-----------------------------------------------------------------------------
LEMMA NextOK == IInv /\ [Next]_vars => IInv'
<1> SUFFICES ASSUME IInv, [Next]_vars PROVE IInv'
  OBVIOUS
<1>1. CASE UNCHANGED vars
  BY <1>1 DEF vars, IInv, Types, CacheInv, ShownIsRecent, LastOnDisk
<1>2. CASE Next
  BY <1>2, OpenOK, LoadOK, LosingOK, CloseOK, FetchCachedOK, FetchDocOK, OverwriteOK, WrittenOK,
     TickOK
     DEF Next, Browse
<1> QED
  BY <1>1, <1>2

\* What a page shows was on the disk less than MaxAge before it was shown, also
\* if it was read while it was being written over, whatever the settings, the
\* lost connections and the age allowed (OpenApiDocGatewayFilter).
THEOREM ShownRecent == Spec => []ShownIsRecent
<1>1. IInv => ShownIsRecent
  BY DEF IInv
<1> QED
  BY <1>1, InitIInv, NextOK, PTL DEF Spec

-----------------------------------------------------------------------------
(* What the gateway answers for a URI that is put together from settings.   *)

LEMMA UrisOK ==
  ASSUME config \in Configs
  PROVE  /\ config.base \in Uri /\ config.swaggerUri \in Uri
         /\ config.openApiUri \in Uri /\ config.openApiFileUri \in Uri
         /\ SwaggerUriPath \in Uri /\ OpenApiUri \in Uri /\ ApiFilePath \in Uri
<1>1. /\ config.base \in Uri /\ config.swaggerUri \in Uri
      /\ config.openApiUri \in Uri /\ config.openApiFileUri \in Uri
  BY ConfigAssumption DEF Settings
<1>. QED BY <1>1, ConcatProperties DEF Uri, SwaggerUriPath, OpenApiUri, ApiFilePath

LEMMA PrefixMeans ==
  ASSUME NEW S, NEW s \in Seq(S), NEW t \in Seq(S)
  PROVE  IsPrefix(s, t) <=> Len(s) <= Len(t) /\ \A i \in 1..Len(s) : s[i] = t[i]
<1>1. Len(s) \in Nat /\ Len(t) \in Nat
  BY LenProperties
<1>2. \A i \in 1..Len(s) : s[i] \in S
  BY ElementOfSeq
<1>3. \A i \in 1..Len(t) : t[i] \in S
  BY ElementOfSeq
<1>4. SubSeq(s, 1, Len(s)) = s
  BY SubSeqFull
<1>5. CASE Len(s) <= Len(t)
  <2> DEFINE u == SubSeq(t, 1, Len(s))
  <2>1. \A i \in 1..Len(s) : t[i] \in S
    BY <1>1, <1>3, <1>5
  <2>2. u \in Seq(S) /\ Len(u) = Len(s) /\ \A i \in 1..Len(s) : u[i] = t[i]
    <3>1. /\ u \in Seq(S)
          /\ Len(u) = IF 1 <= Len(s) THEN Len(s) - 1 + 1 ELSE 0
          /\ \A i \in 1..(Len(s) - 1 + 1) : u[i] = t[1 + i - 1]
      BY <1>1, <2>1, SubSeqProperties
    <3> HIDE DEF u
    <3> QED
      BY <1>1, <3>1
  <2> HIDE DEF u
  <2>3. s = u <=> \A i \in 1..Len(s) : s[i] = t[i]
    <3>1. ASSUME \A i \in 1..Len(s) : s[i] = t[i] PROVE s = u
      <4>1. \A i \in 1..Len(s) : s[i] = u[i]
        BY <2>2, <3>1
      <4> QED
        BY <2>2, <4>1, SeqEqual
    <3> QED
      BY <2>2, <3>1
  <2>4. IsPrefix(s, t) <=> s = u
    BY <1>4, <1>5 DEF IsPrefix, u
  <2> QED
    BY <1>5, <2>3, <2>4
<1>6. CASE ~(Len(s) <= Len(t))
  BY <1>6 DEF IsPrefix
<1> QED
  BY <1>5, <1>6

LEMMA CoversMeans ==
  ASSUME NEW S, NEW s \in Seq(S), NEW t \in Seq(S)
  PROVE  Covers(s, t) <=> Len(s) < Len(t) /\ \A i \in 1..Len(s) : s[i] = t[i]
<1>1. Len(s) \in Nat /\ Len(t) \in Nat
  BY LenProperties
<1>2. ASSUME Len(s) = Len(t), \A i \in 1..Len(s) : s[i] = t[i] PROVE s = t
  BY <1>2, SeqEqual
<1> QED
  BY <1>1, <1>2, PrefixMeans DEF Covers, IsStrictPrefix

\* FilePath takes what is behind the route, name by name.
LEMMA FilePathMeans ==
  ASSUME NEW S, NEW s \in Seq(S), NEW t \in Seq(S), Len(s) < Len(t)
  PROVE  /\ FilePath(s, t) \in Seq(S) /\ Len(FilePath(s, t)) = Len(t) - Len(s)
         /\ \A i \in 1..(Len(t) - Len(s)) : FilePath(s, t)[i] = t[Len(s) + i]
<1> DEFINE m == Len(s) + 1
           n == Len(t)
<1>1. m \in Int /\ n \in Int /\ Len(s) \in Nat /\ m <= n
  BY LenProperties
<1>2. \A i \in m..n : t[i] \in S
  <2>1. \A i \in 1..Len(t) : t[i] \in S
    BY ElementOfSeq
  <2> QED
    BY <1>1, <2>1
<1>3. FilePath(s, t) = SubSeq(t, m, n)
  BY DEF FilePath
<1>4. /\ SubSeq(t, m, n) \in Seq(S)
      /\ Len(SubSeq(t, m, n)) = IF m <= n THEN n - m + 1 ELSE 0
      /\ \A i \in 1..(n - m + 1) : SubSeq(t, m, n)[i] = t[m + i - 1]
  <2> HIDE DEF m, n
  <2> QED
    BY <1>1, <1>2, SubSeqProperties
<1>5. n - m + 1 = Len(t) - Len(s) /\ \A i \in Int : m + i - 1 = Len(s) + i
  BY <1>1
<1>6. \A i \in 1..(Len(t) - Len(s)) : FilePath(s, t)[i] = t[Len(s) + i]
  <2> TAKE i \in 1..(Len(t) - Len(s))
  <2> QED
    BY <1>1, <1>3, <1>4, <1>5
<1> QED
  BY <1>1, <1>3, <1>4, <1>5, <1>6

\* What stands right below a route is covered by it, and only the last name is
\* looked up.
LEMMA RightBelow ==
  ASSUME NEW S, NEW s \in Seq(S), NEW x \in S
  PROVE  Covers(s, Append(s, x)) /\ FilePath(s, Append(s, x)) = <<x>>
<1> DEFINE t == Append(s, x)
<1>1. /\ t \in Seq(S) /\ Len(t) = Len(s) + 1 /\ Len(s) \in Nat
      /\ \A i \in 1..Len(s) : t[i] = s[i]
      /\ t[Len(s) + 1] = x
  BY AppendProperties, LenProperties
<1> HIDE DEF t
<1>2. Covers(s, t)
  BY <1>1, CoversMeans
<1>3. FilePath(s, t) \in Seq(S) /\ Len(FilePath(s, t)) = 1 /\ FilePath(s, t)[1] = x
  <2>1. Len(s) < Len(t) /\ Len(t) - Len(s) = 1 /\ 1 \in 1..1
    BY <1>1
  <2>2. /\ FilePath(s, t) \in Seq(S) /\ Len(FilePath(s, t)) = Len(t) - Len(s)
        /\ \A i \in 1..(Len(t) - Len(s)) : FilePath(s, t)[i] = t[Len(s) + i]
    BY <1>1, <2>1, FilePathMeans
  <2> QED
    BY <1>1, <2>1, <2>2
<1>4. <<x>> \in Seq(S) /\ Len(<<x>>) = 1 /\ <<x>>[1] = x
  OBVIOUS
<1>5. FilePath(s, t) = <<x>>
  <2>1. \A i \in 1..Len(FilePath(s, t)) : FilePath(s, t)[i] = <<x>>[i]
    BY <1>3, <1>4
  <2> QED
    BY <1>3, <1>4, <2>1, SeqEqual
<1> QED
  BY <1>2, <1>5 DEF t

LEMMA ConcatIs ==
  ASSUME NEW S, NEW base \in Seq(S), NEW s \in Seq(S)
  PROVE  /\ base \o s \in Seq(S) /\ Len(base \o s) = Len(base) + Len(s)
         /\ \A i \in 1..Len(base) : (base \o s)[i] = base[i]
         /\ \A i \in 1..Len(s) : (base \o s)[Len(base) + i] = s[i]
<1>1. Len(base) \in Nat /\ Len(s) \in Nat
  BY LenProperties
<1>2. /\ base \o s \in Seq(S) /\ Len(base \o s) = Len(base) + Len(s)
      /\ \A i \in 1..(Len(base) + Len(s)) :
            (base \o s)[i] = IF i <= Len(base) THEN base[i] ELSE s[i - Len(base)]
  BY ConcatProperties
<1>3. ASSUME NEW i \in 1..Len(base) PROVE (base \o s)[i] = base[i]
  <2>1. i \in 1..(Len(base) + Len(s)) /\ i <= Len(base)
    BY <1>1
  <2> QED
    BY <1>2, <2>1
<1>4. ASSUME NEW i \in 1..Len(s) PROVE (base \o s)[Len(base) + i] = s[i]
  <2> DEFINE j == Len(base) + i
  <2>1. j \in 1..(Len(base) + Len(s)) /\ ~(j <= Len(base)) /\ j - Len(base) = i
    BY <1>1
  <2> HIDE DEF j
  <2>2. (base \o s)[j] = s[i]
    BY <1>2, <2>1
  <2> QED
    BY <2>2 DEF j
<1> QED
  BY <1>2, <1>3, <1>4

\* The base path makes no difference to what is below what.
LEMMA BaseOnBoth ==
  ASSUME NEW S, NEW base \in Seq(S), NEW s \in Seq(S), NEW t \in Seq(S)
  PROVE  /\ Covers(base \o s, base \o t) <=> Covers(s, t)
         /\ Covers(s, t) => FilePath(base \o s, base \o t) = FilePath(s, t)
<1> DEFINE bs == base \o s
           bt == base \o t
           b == Len(base)
<1>1. b \in Nat /\ Len(s) \in Nat /\ Len(t) \in Nat
  BY LenProperties
<1>2. /\ bs \in Seq(S) /\ Len(bs) = b + Len(s)
      /\ \A i \in 1..b : bs[i] = base[i]
      /\ \A i \in 1..Len(s) : bs[b + i] = s[i]
  BY ConcatIs
<1>3. /\ bt \in Seq(S) /\ Len(bt) = b + Len(t)
      /\ \A i \in 1..b : bt[i] = base[i]
      /\ \A i \in 1..Len(t) : bt[b + i] = t[i]
  BY ConcatIs
<1> HIDE DEF bs, bt, b
<1>4. ASSUME Covers(bs, bt) PROVE Covers(s, t)
  <2>1. Len(bs) < Len(bt) /\ \A i \in 1..Len(bs) : bs[i] = bt[i]
    BY <1>2, <1>3, <1>4, CoversMeans
  <2>2. Len(s) < Len(t)
    BY <1>1, <1>2, <1>3, <2>1
  <2>3. ASSUME NEW i \in 1..Len(s) PROVE s[i] = t[i]
    <3>1. bs[b + i] = s[i] /\ bt[b + i] = t[i] /\ b + i \in 1..Len(bs)
      <4>1. b + i \in 1..(b + Len(s)) /\ i \in 1..Len(t)
        BY <1>1, <2>2
      <4> QED
        BY <1>2, <1>3, <4>1
    <3> QED
      BY <2>1, <3>1
  <2> QED
    BY <2>2, <2>3, CoversMeans
<1>5. ASSUME Covers(s, t)
      PROVE  Covers(bs, bt) /\ FilePath(bs, bt) = FilePath(s, t)
  <2>1. Len(s) < Len(t) /\ \A i \in 1..Len(s) : s[i] = t[i]
    BY <1>5, CoversMeans
  <2>2. Len(bs) < Len(bt) /\ Len(bt) - Len(bs) = Len(t) - Len(s)
    BY <1>1, <1>2, <1>3, <2>1
  <2>3. ASSUME NEW i \in 1..Len(bs) PROVE bs[i] = bt[i]
    <3>1. CASE i <= b
      <4>1. i \in 1..b
        BY <1>1, <1>2, <3>1
      <4> QED
        BY <1>2, <1>3, <4>1
    <3>2. CASE ~(i <= b)
      <4>1. PICK j \in 1..Len(s) : i = b + j /\ j \in 1..Len(t)
        <5>1. i - b \in 1..Len(s) /\ i - b \in 1..Len(t) /\ i = b + (i - b)
          BY <1>1, <1>2, <2>1, <3>2
        <5> QED
          BY <5>1
      <4> QED
        BY <1>2, <1>3, <2>1, <4>1
    <3> QED
      BY <3>1, <3>2
  <2>4. Covers(bs, bt)
    BY <1>2, <1>3, <2>2, <2>3, CoversMeans
  <2> DEFINE f == FilePath(bs, bt)
             g == FilePath(s, t)
  <2>5. /\ f \in Seq(S) /\ Len(f) = Len(t) - Len(s)
        /\ \A i \in 1..(Len(t) - Len(s)) : f[i] = bt[Len(bs) + i]
    <3>1. /\ f \in Seq(S) /\ Len(f) = Len(bt) - Len(bs)
          /\ \A i \in 1..(Len(bt) - Len(bs)) : f[i] = bt[Len(bs) + i]
      <4>1. bs \in Seq(S) /\ bt \in Seq(S) /\ Len(bs) < Len(bt)
        BY <1>2, <1>3, <2>2
      <4> QED
        BY <4>1, FilePathMeans
    <3> HIDE DEF f
    <3> QED
      BY <2>2, <3>1
  <2>6. /\ g \in Seq(S) /\ Len(g) = Len(t) - Len(s)
        /\ \A i \in 1..(Len(t) - Len(s)) : g[i] = t[Len(s) + i]
    BY <2>1, FilePathMeans
  <2> HIDE DEF f, g
  <2>7. ASSUME NEW i \in 1..Len(f) PROVE f[i] = g[i]
    <3> DEFINE j == Len(s) + i
    <3>1. i \in 1..(Len(t) - Len(s)) /\ j \in 1..Len(t) /\ Len(bs) + i = b + j
      BY <1>1, <1>2, <2>1, <2>5
    <3>2. f[i] = bt[Len(bs) + i] /\ g[i] = t[j]
      BY <2>5, <2>6, <3>1
    <3> HIDE DEF j
    <3>3. bt[b + j] = t[j]
      BY <1>3, <3>1
    <3> QED
      BY <3>1, <3>2, <3>3
  <2>8. f = g
    BY <2>5, <2>6, <2>7, SeqEqual
  <2> QED
    BY <2>4, <2>8 DEF f, g
<1> QED
  BY <1>4, <1>5 DEF bs, bt-----------------------------------------------------------------------------
(* Every variable stays in its type, and a page that ran the initializer     *)
(* knows where the gateway put the document.                                 *)

\* Whatever the settings, a file that the page links is the page's own.
LEMMA LinkedIs ==
  ASSUME NEW i \in DOMAIN Linked
  PROVE  /\ Linked[i] \in ClassPath
         /\ Named(<<Linked[i]>>, {"png", "css", "html", "js"})
         /\ Linked[i][2] = "js" => Linked[i] \in {Initializer, Bundle, Preset}
<1>1. DOMAIN Linked = 1..7
  BY DEF Linked
<1>2. Linked[i] \in ClassPath
  BY DEF ClassPath
<1>3. i \in {1, 2, 3, 4, 5, 6, 7}
  BY <1>1
<1>4. Linked[i] \in {<<"swagger-ui", "css">>, <<"index", "css">>, <<"favicon-32x32", "png">>,
                     <<"favicon-16x16", "png">>, Bundle, Preset, Initializer}
  BY <1>3 DEF Linked
<1> DEFINE x == Linked[i]
<1>5. /\ Len(x) = 2 /\ x[1] # "" /\ x[2] \in {"png", "css", "js"}
      /\ x[2] = "js" => x \in {Initializer, Bundle, Preset}
  <2> HIDE DEF x
  <2>1. x \in {<<"swagger-ui", "css">>, <<"index", "css">>, <<"favicon-32x32", "png">>,
               <<"favicon-16x16", "png">>, Bundle, Preset, Initializer}
    BY <1>4 DEF x
  <2>2. PICK a \in {"swagger-ui", "index", "favicon-32x32", "favicon-16x16", "swagger-ui-bundle",
                    "swagger-ui-standalone-preset", "swagger-initializer"},
            b \in {"png", "css", "js"} :
            x = <<a, b>> /\ (b = "js" => x \in {Initializer, Bundle, Preset})
    BY <2>1 DEF Bundle, Preset, Initializer
  <2>3. Len(<<a, b>>) = 2 /\ <<a, b>>[1] = a /\ <<a, b>>[2] = b
    OBVIOUS
  <2>4. a # ""
    OBVIOUS
  <2> QED
    BY <2>2, <2>3, <2>4
<1> HIDE DEF x
<1>6. Named(<<x>>, {"png", "css", "html", "js"})
  BY <1>5 DEF Named
<1> QED
  BY <1>2, <1>5, <1>6 DEF x

LEMMA PageAnswers ==
  ASSUME config \in Configs, NEW i \in DOMAIN Linked
  PROVE  LET answer == Answer(Append(SwaggerUriPath, Linked[i])) IN
         /\ answer.type = JavaScript => Linked[i] \in {Initializer, Bundle, Preset}
         /\ answer.url = IF Linked[i] = Initializer THEN ApiFilePath ELSE NoUri
<1> DEFINE x == Linked[i]
           uri == Append(SwaggerUriPath, x)
<1>1. /\ x \in ClassPath
      /\ Named(<<x>>, {"png", "css", "html", "js"})
      /\ x[2] = "js" => x \in {Initializer, Bundle, Preset}
  BY LinkedIs
<1> HIDE DEF x
<1>2. Covers(SwaggerUriPath, uri) /\ FilePath(SwaggerUriPath, uri) = <<x>>
  <2> DEFINE S == Seq(STRING) \cup {x}
  <2>1. SwaggerUriPath \in Seq(Seq(STRING)) /\ Seq(STRING) \subseteq S /\ x \in S
    BY UrisOK DEF Uri
  <2> HIDE DEF S
  <2>2. SwaggerUriPath \in Seq(S)
    BY <2>1, SeqMonotonic
  <2> QED
    BY <2>1, <2>2, RightBelow
<1>3. Answer(uri) = SwaggerFile(<<x>>)
  BY <1>2 DEF Answer
<1>4. SwaggerFile(<<x>>) =
          [status |-> 200, type |-> SwaggerType(x[2]), doc |-> Absent, maxAge |-> 0,
           url |-> IF x = Initializer THEN ApiFilePath ELSE NoUri]
  BY <1>1 DEF SwaggerFile
<1>5. x[2] \in {"png", "css", "html", "js"}
  BY <1>1 DEF Named
<1>6. SwaggerType(x[2]) = JavaScript => x[2] = "js"
  BY <1>5 DEF SwaggerType, Html, Png, Css, JavaScript
<1> QED
  BY <1>1, <1>3, <1>4, <1>6 DEF x

\* The initializer that ran is the one into which the URL was written.
PageInv ==
    /\ Initializer \in page.ran => page.url = ApiFilePath
    /\ page.pc = "fetching" => Initializer \in page.ran

TInv == IInv /\ TypeOK /\ PageInv

LEMMA InitTInv == Init => TInv
<1> SUFFICES ASSUME Init PROVE TInv
  OBVIOUS
<1>1. DOMAIN Linked = 1..7
  BY DEF Linked
<1>2. MaxLosses \in Nat
  BY DocsAssumption
<1>3. TypeOK
  BY <1>1, <1>2, Constants DEF Init, TypeOK, NoPage, Contents, Absent
<1>4. PageInv
  BY DEF Init, PageInv, NoPage
<1> QED
  BY <1>3, <1>4, InitIInv DEF TInv

LEMMA ApiFilePathSame == ASSUME config' = config PROVE ApiFilePath' = ApiFilePath
  BY DEF ApiFilePath

\* A step of the page alone.
LEMMA PageTyped ==
  ASSUME TInv, UNCHANGED <<config, disk, version, clock, gone>>,
         losses' \in 0..MaxLosses, cache' \in [doc : Contents, until : 0..(MaxTime + MaxAge)],
         page'.pc \in {"closed", "loading", "loaded", "fetching", "shown", "broken"},
         page'.next \in DOMAIN Linked, page'.ran \subseteq {Initializer, Bundle, Preset},
         page'.url \in {NoUri, ApiFilePath}, page'.doc \in Contents, page'.at \in 0..MaxTime,
         Initializer \in page'.ran => page'.url = ApiFilePath,
         page'.pc = "fetching" => Initializer \in page'.ran
  PROVE  TypeOK' /\ PageInv'
<1>1. ApiFilePath' = ApiFilePath
  BY ApiFilePathSame
<1> QED
  BY <1>1 DEF TInv, TypeOK, PageInv

LEMMA ResetTyped ==
  ASSUME TInv, UNCHANGED <<config, disk, version, clock, cache, losses, gone>>,
         page'.pc \in {"closed", "loading", "broken"}, page'.next = 1, page'.ran = {},
         page'.url = NoUri, page'.doc = Absent, page'.at = 0
  PROVE  TypeOK' /\ PageInv'
<1>1. 1 \in DOMAIN Linked
  BY DEF Linked
<1>2. /\ losses' \in 0..MaxLosses /\ cache' \in [doc : Contents, until : 0..(MaxTime + MaxAge)]
      /\ page'.doc \in Contents /\ page'.at \in 0..MaxTime
  BY Constants DEF TInv, TypeOK, Contents, Absent
<1>3. /\ page'.pc \in {"closed", "loading", "loaded", "fetching", "shown", "broken"}
      /\ page'.next \in DOMAIN Linked /\ page'.ran \subseteq {Initializer, Bundle, Preset}
      /\ page'.url \in {NoUri, ApiFilePath}
      /\ Initializer \in page'.ran => page'.url = ApiFilePath
      /\ page'.pc = "fetching" => Initializer \in page'.ran
  BY <1>1
<1> QED
  BY <1>2, <1>3, PageTyped

LEMMA OpenTyped == ASSUME TInv, NEW entry \in Entries, Open(entry) PROVE TypeOK' /\ PageInv'
<1>1. /\ page'.pc \in {"closed", "loading", "broken"} /\ page'.next = 1 /\ page'.ran = {}
      /\ page'.url = NoUri /\ page'.doc = Absent /\ page'.at = 0
  BY DEF Open, NoPage
<1> QED
  BY <1>1, ResetTyped DEF Open

LEMMA CloseTyped == ASSUME TInv, Close PROVE TypeOK' /\ PageInv'
<1>1. /\ page'.pc \in {"closed", "loading", "broken"} /\ page'.next = 1 /\ page'.ran = {}
      /\ page'.url = NoUri /\ page'.doc = Absent /\ page'.at = 0
  BY DEF Close, NoPage
<1> QED
  BY <1>1, ResetTyped DEF Close

\* Only the initializer brings a URL, and a page runs it with that URL.
LEMMA LoadedTyped ==
  ASSUME TInv, NEW answer, page' = Loaded(answer), losses' \in 0..MaxLosses,
         UNCHANGED <<config, disk, version, clock, cache, gone>>,
         answer.type = JavaScript => Linked[page.next] \in {Initializer, Bundle, Preset},
         answer.url \in {NoUri, ApiFilePath},
         answer.type = JavaScript /\ Linked[page.next] = Initializer => answer.url = ApiFilePath
  PROVE  TypeOK' /\ PageInv'
<1>1. /\ page'.doc = page.doc /\ page'.at = page.at /\ page'.pc \in {"loaded", "loading"}
      /\ page'.next = IF page.next = Len(Linked) THEN 1 ELSE page.next + 1
      /\ page'.ran = page.ran \cup (IF answer.type = JavaScript THEN {Linked[page.next]} ELSE {})
      /\ page'.url = IF answer.url # NoUri THEN answer.url ELSE page.url
  BY LoadedIs DEF TInv, IInv
<1>2. DOMAIN Linked = 1..7 /\ Len(Linked) = 7
  BY DEF Linked
<1>3. page'.next \in DOMAIN Linked
  BY <1>1, <1>2 DEF TInv, TypeOK
<1>4. page.ran \subseteq {Initializer, Bundle, Preset} /\ page.url \in {NoUri, ApiFilePath}
  BY DEF TInv, TypeOK
<1>5. page'.ran \subseteq {Initializer, Bundle, Preset}
  BY <1>1, <1>4
<1>6. page'.url \in {NoUri, ApiFilePath}
  BY <1>1, <1>4
<1>7. Initializer \in page'.ran => page'.url = ApiFilePath
  BY <1>1, <1>4 DEF TInv, PageInv
<1>8. /\ page'.pc \in {"closed", "loading", "loaded", "fetching", "shown", "broken"}
      /\ page'.pc = "fetching" => Initializer \in page'.ran
      /\ page'.doc \in Contents /\ page'.at \in 0..MaxTime
      /\ cache' \in [doc : Contents, until : 0..(MaxTime + MaxAge)]
  BY <1>1 DEF TInv, TypeOK
<1> QED
  BY <1>3, <1>5, <1>6, <1>7, <1>8, PageTyped

LEMMA LoadTyped == ASSUME TInv, Load PROVE TypeOK' /\ PageInv'
<1> DEFINE answer == Answer(Append(SwaggerUriPath, Linked[page.next]))
<1>1. config \in Configs /\ page.next \in DOMAIN Linked /\ losses \in 0..MaxLosses
  BY DEF TInv, TypeOK
<1>2. /\ answer.type = JavaScript => Linked[page.next] \in {Initializer, Bundle, Preset}
      /\ answer.url = IF Linked[page.next] = Initializer THEN ApiFilePath ELSE NoUri
  BY <1>1, PageAnswers
<1>3. page' = Loaded(answer) /\ UNCHANGED <<config, disk, version, clock, cache, losses, gone>>
  BY DEF Load
<1> HIDE DEF answer
<1> QED
  BY <1>1, <1>2, <1>3, LoadedTyped

LEMMA LoadLostTyped == ASSUME TInv, LoadLost PROVE TypeOK' /\ PageInv'
<1>1. NoRoute.type # JavaScript /\ NoRoute.url = NoUri
  BY DEF NoRoute, Failed, Json, JavaScript
<1>2. losses' \in 0..MaxLosses
  BY DocsAssumption DEF LoadLost, TInv, TypeOK
<1> QED
  BY <1>1, <1>2, LoadedTyped DEF LoadLost

\* What keeps the page but for its state.
LEMMA PcTyped ==
  ASSUME TInv, NEW pc \in {"fetching", "broken"}, page' = [page EXCEPT !.pc = pc],
         UNCHANGED <<config, disk, version, clock, cache, gone>>, losses' \in 0..MaxLosses,
         pc = "fetching" => Initializer \in page.ran
  PROVE  TypeOK' /\ PageInv'
<1>1. /\ page'.pc = pc /\ page'.next = page.next /\ page'.ran = page.ran /\ page'.url = page.url
      /\ page'.doc = page.doc /\ page'.at = page.at
  BY DEF TInv, IInv, Types
<1> QED
  BY <1>1, PageTyped DEF TInv, TypeOK, PageInv

LEMMA OnLoadTyped == ASSUME TInv, OnLoad PROVE TypeOK' /\ PageInv'
<1> DEFINE pc == IF {Initializer, Bundle, Preset} \subseteq page.ran THEN "fetching" ELSE "broken"
<1>1. pc \in {"fetching", "broken"} /\ (pc = "fetching" => Initializer \in page.ran)
  OBVIOUS
<1>2. page' = [page EXCEPT !.pc = pc] /\ UNCHANGED <<config, disk, version, clock, cache, losses, gone>>
  BY DEF OnLoad
<1> HIDE DEF pc
<1>3. losses' \in 0..MaxLosses
  BY <1>2 DEF TInv, TypeOK
<1> QED
  BY <1>1, <1>2, <1>3, PcTyped

LEMMA FetchLostTyped == ASSUME TInv, FetchLost PROVE TypeOK' /\ PageInv'
<1>1. losses' \in 0..MaxLosses
  BY DocsAssumption DEF FetchLost, TInv, TypeOK
<1> QED
  BY <1>1, PcTyped DEF FetchLost

LEMMA ShowTyped ==
  ASSUME TInv, NEW doc \in Contents, Show(doc),
         UNCHANGED <<config, disk, version, clock, losses, gone>>,
         cache' \in [doc : Contents, until : 0..(MaxTime + MaxAge)]
  PROVE  TypeOK' /\ PageInv'
<1>1. /\ page'.doc = doc /\ page'.at = clock /\ page'.pc = "shown" /\ page'.next = page.next
      /\ page'.ran = page.ran /\ page'.url = page.url
  BY DEF TInv, IInv, Types, Show
<1> QED
  BY <1>1, PageTyped DEF TInv, TypeOK, PageInv

LEMMA FetchCachedTyped == ASSUME TInv, FetchCached PROVE TypeOK' /\ PageInv'
<1>1. cache.doc \in Contents /\ cache' \in [doc : Contents, until : 0..(MaxTime + MaxAge)]
  BY DEF TInv, TypeOK, FetchCached
<1> QED
  BY <1>1, ShowTyped DEF FetchCached

LEMMA FetchDocTyped == ASSUME TInv, FetchDoc PROVE TypeOK' /\ PageInv'
<1> DEFINE answer == Answer(page.url)
<1>1. CASE answer.doc # Absent
  <2>1. answer.doc = disk /\ answer.maxAge = MaxAge
    BY <1>1, AnswerIs
  <2>2. Show(disk) /\ cache' = [doc |-> disk, until |-> clock + MaxAge]
    BY <1>1, <2>1 DEF FetchDoc
  <2>3. disk \in Contents /\ clock \in 0..MaxTime
    BY DEF TInv, TypeOK
  <2>4. cache' \in [doc : Contents, until : 0..(MaxTime + MaxAge)]
    BY <2>2, <2>3, Constants
  <2> QED
    BY <2>2, <2>3, <2>4, ShowTyped DEF FetchDoc
<1>2. CASE answer.doc = Absent
  <2>1. page' = [page EXCEPT !.pc = "broken"] /\ UNCHANGED cache
    BY <1>2 DEF FetchDoc
  <2>2. losses' \in 0..MaxLosses
    BY DEF FetchDoc, TInv, TypeOK
  <2> QED
    BY <2>1, <2>2, PcTyped DEF FetchDoc
<1> QED
  BY <1>1, <1>2

LEMMA RestTyped ==
  ASSUME TInv, UNCHANGED <<config, page, cache, losses>>,
         disk' \in Contents, version' \in 0..MaxVersion, clock' \in 0..MaxTime,
         gone' \in [Contents -> 0..MaxTime]
  PROVE  TypeOK' /\ PageInv'
<1>1. ApiFilePath' = ApiFilePath
  BY ApiFilePathSame
<1> QED
  BY <1>1 DEF TInv, TypeOK, PageInv

LEMMA OperatorTyped == ASSUME TInv, Overwrite \/ Written \/ Tick PROVE TypeOK' /\ PageInv'
<1>1. /\ disk \in Contents /\ version \in 0..MaxVersion /\ clock \in 0..MaxTime
      /\ gone \in [Contents -> 0..MaxTime]
      /\ disk = Torn => version < MaxVersion
  BY DEF TInv, IInv, Types, TypeOK
<1>2. CASE Overwrite
  <2>1. disk' \in Contents /\ gone' \in [Contents -> 0..MaxTime]
    BY <1>1, <1>2, Constants DEF Overwrite, Contents, Torn
  <2> QED
    BY <1>1, <1>2, <2>1, RestTyped DEF Overwrite
<1>3. CASE Written
  <2>1. /\ disk' \in Contents /\ version' \in 0..MaxVersion
        /\ gone' \in [Contents -> 0..MaxTime]
    BY <1>1, <1>3, Constants DEF Written, Contents, Torn
  <2> QED
    BY <1>1, <1>3, <2>1, RestTyped DEF Written
<1>4. CASE Tick
  <2>1. clock' \in 0..MaxTime
    BY <1>1, <1>4, Constants DEF Tick
  <2> QED
    BY <1>1, <1>4, <2>1, RestTyped DEF Tick
<1> QED
  BY <1>2, <1>3, <1>4

LEMMA NextTInv == TInv /\ [Next]_vars => TInv'
<1> SUFFICES ASSUME TInv, [Next]_vars PROVE TypeOK' /\ PageInv'
  BY NextOK DEF TInv
<1>1. CASE UNCHANGED vars
  <2>1. UNCHANGED <<config, disk, version, clock, page, cache, losses, gone>>
    BY <1>1 DEF vars
  <2> QED
    BY <2>1, RestTyped DEF TInv, TypeOK
<1>2. CASE Next
  BY <1>2, OpenTyped, LoadTyped, LoadLostTyped, OnLoadTyped, CloseTyped, FetchCachedTyped,
     FetchDocTyped, FetchLostTyped, OperatorTyped
     DEF Next, Browse
<1> QED
  BY <1>1, <1>2

\* Every variable of the documentation's model stays in its type, whatever the
\* settings; in particular a script that runs is one of the page's own, and the
\* page knows no URL but the one the gateway writes (SwaggerApiGatewayFilter).
THEOREM TypeCorrect == Spec => []TypeOK
<1>1. TInv => TypeOK
  BY DEF TInv
<1> QED
  BY <1>1, InitTInv, NextTInv, PTL DEF Spec

-----------------------------------------------------------------------------
(* Where the page asks.                                                      *)

\* With settings that fit together the routes serve the document at the URL
\* that goes into the initializer, whenever there is a document.
LEMMA DocumentServed ==
  ASSUME config \in Configs, FitTogether(config)
  PROVE  Answer(ApiFilePath).status = 200 <=> disk # Absent
<1> DEFINE uri == config.openApiFileUri
           path == FilePath(config.openApiUri, uri)
<1>1. /\ config.base \in Seq(Seq(STRING)) /\ config.swaggerUri \in Seq(Seq(STRING))
      /\ config.openApiUri \in Seq(Seq(STRING)) /\ uri \in Seq(Seq(STRING))
  BY UrisOK DEF Uri
<1>2. /\ Covers(config.openApiUri, uri) /\ ~Covers(config.swaggerUri, uri)
      /\ Named(path, {"yaml", "json"})
  BY DEF FitTogether
<1>3. ~Covers(SwaggerUriPath, ApiFilePath)
  BY <1>1, <1>2, BaseOnBoth DEF SwaggerUriPath, ApiFilePath
<1>4. Covers(OpenApiUri, ApiFilePath) /\ FilePath(OpenApiUri, ApiFilePath) = path
  BY <1>1, <1>2, BaseOnBoth DEF OpenApiUri, ApiFilePath
<1>5. path = <<Last(uri)>>
  <2>1. /\ Len(config.openApiUri) \in Nat /\ Len(uri) \in Nat
        /\ Len(config.openApiUri) < Len(uri)
    BY <1>1, <1>2, CoversMeans, LenProperties
  <2>2. /\ path \in Seq(Seq(STRING)) /\ Len(path) = Len(uri) - Len(config.openApiUri)
        /\ \A i \in 1..(Len(uri) - Len(config.openApiUri)) :
              path[i] = uri[Len(config.openApiUri) + i]
    BY <1>1, <2>1, FilePathMeans
  <2>3. Len(path) = 1
    BY <1>2 DEF Named
  <2> HIDE DEF path, uri
  <2>4. 1 \in 1..(Len(uri) - Len(config.openApiUri)) /\ Len(config.openApiUri) + 1 = Len(uri)
    <3>1. Len(uri) - Len(config.openApiUri) = 1
      BY <2>2, <2>3
    <3> QED
      BY <2>1, <3>1
  <2>5. path[1] = Last(uri)
    BY <2>2, <2>4 DEF Last
  <2> QED
    BY <2>2, <2>3, <2>5
<1> HIDE DEF path, uri
<1>6. Answer(ApiFilePath) = DocFile(path)
  BY <1>3, <1>4 DEF Answer
<1>7. CASE disk = Absent
  <2>1. DocFile(path) = NoSuchResource
    BY <1>2, <1>7 DEF DocFile
  <2> QED
    BY <1>6, <1>7, <2>1 DEF NoSuchResource, Failed
<1>8. CASE disk # Absent
  <2>1. DocFile(path).status = 200
    BY <1>2, <1>5, <1>8 DEF DocFile, uri
  <2> QED
    BY <1>6, <1>8, <2>1
<1> QED
  BY <1>7, <1>8

\* Whatever was lost before, a page that asks for the document asks where the
\* gateway serves it, for all settings that fit together: no base path, no name
\* of the document and no place of the page can make a difference
\* (SwaggerApiGatewayFilter and OpenApiDocGatewayFilter).
THEOREM AsksCorrect == Spec => [](FitTogether(config) => AsksWhereItIs)
<1>1. TInv => (FitTogether(config) => AsksWhereItIs)
  <2> SUFFICES ASSUME TInv, FitTogether(config), page.pc = "fetching"
               PROVE  disk # Absent <=> Answer(page.url).status = 200
    BY DEF AsksWhereItIs
  <2>1. page.url = ApiFilePath
    BY DEF TInv, PageInv
  <2>2. config \in Configs
    BY DEF TInv, TypeOK
  <2> QED
    BY <2>1, <2>2, DocumentServed
<1> QED
  BY <1>1, InitTInv, NextTInv, PTL DEF Spec
-----------------------------------------------------------------------------
(* The settings that nobody made.                                           *)

Docs == <<<<"openapi">>, <<"docs">>>>
YamlName == <<"openapi", "yaml">>

\* OpenApiProperties as they are, below any base path.
Defaults(c) ==
    /\ c.openApiUri = Docs
    /\ c.openApiFileUri = Append(Docs, YamlName)
    /\ c.swaggerUri = Append(Docs, <<"swagger-ui">>)

LEMMA DefaultsFit == ASSUME NEW c, Defaults(c) PROVE FitTogether(c)
<1> DEFINE S == {<<"openapi">>, <<"docs">>, <<"swagger-ui">>, YamlName}
<1>1. Docs \in Seq(S) /\ YamlName \in S /\ <<"swagger-ui">> \in S /\ Len(Docs) = 2
  BY DEF Docs
<1>2. Covers(Docs, Append(Docs, YamlName)) /\ FilePath(Docs, Append(Docs, YamlName)) = <<YamlName>>
  <2> HIDE DEF S
  <2> QED
    BY <1>1, RightBelow
<1>3. Named(<<YamlName>>, {"yaml", "json"})
  <2>1. Len(YamlName) = 2 /\ YamlName[1] = "openapi" /\ YamlName[2] = "yaml" /\ "openapi" # ""
    BY DEF YamlName
  <2> HIDE DEF YamlName
  <2> QED
    BY <2>1 DEF Named
<1>4. ~Covers(Append(Docs, <<"swagger-ui">>), Append(Docs, YamlName))
  <2> DEFINE s == Append(Docs, <<"swagger-ui">>)
             t == Append(Docs, YamlName)
  <2>1. s \in Seq(S) /\ t \in Seq(S) /\ Len(s) = 3 /\ Len(t) = 3
    <3> HIDE DEF S
    <3>1. \A x \in S : Append(Docs, x) \in Seq(S) /\ Len(Append(Docs, x)) = Len(Docs) + 1
      BY <1>1, AppendProperties
    <3>2. Len(Docs) + 1 = 3
      BY <1>1
    <3> QED
      BY <1>1, <3>1, <3>2
  <2> HIDE DEF s, t, S
  <2>2. ~Covers(s, t)
    BY <2>1, CoversMeans
  <2> QED
    BY <2>2 DEF s, t
<1> QED
  BY <1>2, <1>3, <1>4 DEF Defaults, FitTogether

\* An operator who sets nothing but a base path gets a page that works: the
\* defaults of OpenApiProperties fit together, at every depth of the base path.
THEOREM DefaultsAsk == Spec => [](Defaults(config) => AsksWhereItIs)
<1>1. Defaults(config) => FitTogether(config)
  BY DefaultsFit
<1> QED
  BY <1>1, AsksCorrect, PTL
=============================================================================
