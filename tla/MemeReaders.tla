----------------------------- MODULE MemeReaders ----------------------------
(****************************************************************************)
(* The readers of the index: search through the pipeline of searchers (for  *)
(* the webapp and for inline queries of the bot), export, delete-all and    *)
(* the random meme, while memes are uploaded and deleted.  A reader gets    *)
(* one page per query and goes on after the last sort key, so each page     *)
(* sees another state of the index.  One action is one remote call with the *)
(* code that follows it.  A page is a set: what counts is which memes are   *)
(* on it and the sort key of the last one.                                  *)
(****************************************************************************)
EXTENDS Integers, Sequences, FiniteSets, FiniteSetsExt

CONSTANTS
  Memes,      \* ImageIds, naturals in the order in which the index sorts them
  Owner,      \* the AccountId of each meme
  Account,    \* the account of the sessions
  Videos,     \* the memes whose Type is video, the others are images
  Matching,   \* the memes whose Result matches the searched text
  Near,       \* how near each meme's embedding is to that of the text
  TextScore,  \* what a match of the text adds to the score
  First,      \* the creation time of each meme already there at the beginning
  PageSize,   \* 100 for export and delete-all, the client's for a search
  MaxCreated, \* bound: creation times
  Sessions,   \* requests, and searches of several pages
  Kinds,      \* what each session may be
  Queries,    \* what is searched for ...
  Types,      \* ... and of what type
  Faults      \* what may fail

ASSUME ConstantsAssumption ==
  /\ Memes \subseteq Nat \ {0} /\ IsFiniteSet(Memes)
  /\ Videos \subseteq Memes /\ Matching \subseteq Memes
  /\ DOMAIN First \subseteq Memes /\ \A m \in DOMAIN First : First[m] \in 1 .. MaxCreated
  /\ Near \in [Memes -> Nat] /\ TextScore \in Nat
  /\ PageSize \in Nat \ {0} /\ MaxCreated \in Nat \ {0}
  /\ Kinds \in [Sessions -> SUBSET
       {"export", "exportAll", "wipe", "delete", "web", "inline", "random"}]
  /\ Faults \subseteq {"query", "client", "bucket", "index"}

VARIABLES
  docs,     \* the documents in the index
  orig,     \* the originals and ...
  thumbs,   \* ... the thumbnails in the bucket
  created,  \* Created of each meme, 0 before the upload sets it
  doomed,   \* history: the memes whose deletion has begun
  session

vars == <<docs, orig, thumbs, created, doomed, session>>

NoKey == <<>>
None == [searcher |-> "none", key |-> NoKey]
Query == [of : {"all", "text"}, id : {0}] \cup [of : {"id"}, id : Memes]
NoQuery == [of |-> "all", id |-> 0]
TypeTag == {"", "image", "video"}

ASSUME QueryAssumption == /\ Queries \subseteq Query /\ NoQuery \in Queries
                          /\ Types \subseteq TypeTag /\ "" \in Types

Step == {"idle", "fetch", "original", "thumbnail", "send", "purge", "purgeThumb",
         "remove", "count", "pick", "end", "failed", "broken"}
Idle == [step |-> "idle", kind |-> "web", query |-> NoQuery, type |-> "",
         key |-> NoKey, after |-> None, page |-> {}, todo |-> {}, total |-> 0,
         error |-> FALSE,
         \* history: how often each meme was handled; the memes that were there
         \* from the beginning and that nobody else has removed; whether the
         \* index has not changed
         shown |-> [m \in Memes |-> 0], stood |-> {}, quiet |-> TRUE]

Init == /\ docs = DOMAIN First /\ orig = docs /\ thumbs = docs
        /\ created = [m \in Memes |-> IF m \in docs THEN First[m] ELSE 0]
        /\ doomed = {}
        /\ session = [s \in Sessions |-> Idle]

-----------------------------------------------------------------------------
(* Queries.  `sort` gives the sort values of each meme, a sequence *)

Below(a, b) == \E i \in DOMAIN a : a[i] < b[i] /\ \A j \in 1 .. i - 1 : a[j] = b[j]

\* Sort options: all fields in the same direction.
Precedes(a, b, order) == IF order = "desc" THEN Below(b, a) ELSE Below(a, b)

\* Mutant of SearchAfter: it includes the key.
SearchFrom(hits, sort, order, key) ==
  IF key = NoKey THEN hits ELSE {m \in hits : ~Precedes(sort[m], key, order)}

\* search_after: what comes strictly after the key.
SearchAfter(hits, sort, order, key) ==
  IF key = NoKey THEN hits ELSE {m \in hits : Precedes(key, sort[m], order)}

\* The first `size` of them; the index picks any of those with equal values.
Pages(hits, sort, order, size) ==
  {P \in SUBSET hits :
     /\ Cardinality(P) = IF Cardinality(hits) < size THEN Cardinality(hits) ELSE size
     /\ \A m \in P, k \in hits \ P : ~Precedes(sort[k], sort[m], order)}

\* The sort values of the last hit.
extractSortKey(P, sort, order) ==
  IF P = {} THEN NoKey
  ELSE CHOOSE v \in {sort[m] : m \in P} : \A m \in P : ~Precedes(v, sort[m], order)

Answers(hits, sort, order, key, size) ==
  {[hits |-> P, key |-> extractSortKey(P, sort, order)] :
     P \in Pages(SearchAfter(hits, sort, order, key), sort, order, size)}

accountIdsQuery(a) == {m \in docs : Owner[m] = a}
typeQuery(t) == IF t = "" THEN docs ELSE {m \in docs : (m \in Videos) = (t = "video")}
Scope(t) == accountIdsQuery(Account) \cap typeQuery(t)

ByCreated == [m \in Memes |-> <<created[m]>>]
ById == [m \in Memes |-> <<m>>]

GetByAccountIdOrderByCreated(t, key) == Answers(Scope(t), ByCreated, "desc", key, PageSize)
GetAll(key) == Answers(docs, ById, "asc", key, PageSize)
GetById(id) == {m \in accountIdsQuery(Account) : m = id}

\* The kNN part of a hybrid search knows only the PageSize nearest memes.
Nearest(S) == {m \in S : Cardinality({k \in S : Near[k] > Near[m]}) < PageSize}

TextMatches(q, t) == IF q.of = "text" THEN Scope(t) \cap Matching ELSE {}

\* A meme found both by its text and by its embedding has the sum as its score.
Score(m, texts, near) == (IF m \in texts THEN TextScore ELSE 0)
                           + (IF m \in near THEN Near[m] ELSE 0)

\* Mutant of ByScore: no tie-break by ImageId.
ByScoreAlone(texts, near) == [m \in texts \cup near |-> <<Score(m, texts, near)>>]

ByScore(texts, near) == [m \in texts \cup near |-> <<Score(m, texts, near), m>>]

SearchHybridOrderByScore(q, t, key) ==
  LET texts == TextMatches(q, t)
      near == Nearest(Scope(t))
  IN Answers(texts \cup near, ByScore(texts, near), "desc", key, PageSize)

-----------------------------------------------------------------------------
(* The pipeline of searchers *)

Searchers == <<"id_searcher", "hybrid_searcher", "all_searcher">>
NoHits == [hits |-> {}, key |-> NoKey]

IdSearcher(q, key) ==
  IF q.of = "id" /\ key = NoKey THEN {[hits |-> GetById(q.id), key |-> NoKey]} ELSE {NoHits}
HybridSearcher(q, t, key) ==
  IF q.of = "all" THEN {NoHits} ELSE SearchHybridOrderByScore(q, t, key)
AllSearcher(q, t, key) ==
  IF q.of = "all" THEN GetByAccountIdOrderByCreated(t, key) ELSE {NoHits}

Ask(searcher, q, t, key) ==
  CASE searcher = "id_searcher" -> IdSearcher(q, key)
    [] searcher = "hybrid_searcher" -> HybridSearcher(q, t, key)
    [] searcher = "all_searcher" -> AllSearcher(q, t, key)

\* The first searcher with results answers; `after` names the one to go on with.
Search(q, t, after) ==
  LET Resumed(i) == after # None /\ Searchers[i] = after.searcher
      Asked == {i \in DOMAIN Searchers : after = None \/ \E k \in 1 .. i : Resumed(k)}
      Reply(i) == Ask(Searchers[i], q, t, IF Resumed(i) THEN after.key ELSE NoKey)
      Finding == {i \in Asked : \E r \in Reply(i) : r.hits # {}}
      i == Min(Finding)
  IN IF Finding = {} THEN {[hits |-> {}, after |-> None]}
     ELSE {[hits |-> r.hits,
            after |-> IF r.key = NoKey THEN None
                      ELSE [searcher |-> Searchers[i], key |-> r.key]] : r \in Reply(i)}

-----------------------------------------------------------------------------
(* Sessions *)

Now(s) == session[s].step
Pick(S) == CHOOSE m \in S : \A k \in S : m <= k
\* (2 stands for more than once)
Count(f, S) == [m \in Memes |-> IF m \in S /\ f[m] < 2 THEN f[m] + 1 ELSE f[m]]
\* The named fields of the session change.
Go(s, changes) ==
  session' = [session EXCEPT ![s] =
    [f \in DOMAIN @ |-> IF f \in DOMAIN changes THEN changes[f] ELSE @[f]]]

Outcome(fault) == IF fault \in Faults THEN BOOLEAN ELSE {TRUE}

\* What `s` did to `m` in the index changes the index for the others.
Changed(sessions, s, m) ==
  [t \in Sessions |-> [sessions[t] EXCEPT
     !.quiet = FALSE, !.stood = IF t = s THEN @ ELSE @ \ {m}]]

\* A request arrives.  DeleteMeme reads the document first.
Begin(s, kind, q, t) ==
  LET page == IF kind = "delete" THEN GetById(q.id) ELSE {} IN
  /\ Now(s) = "idle" /\ kind \in Kinds[s]
  /\ CASE kind \in {"web", "inline"} -> TRUE
       [] kind = "delete" -> q.of = "id"
       [] kind = "export" -> q.of # "text"
       [] OTHER -> q = NoQuery
  /\ kind \in {"web", "inline", "random"} \/ t = ""
  /\ Go(s, [kind |-> kind, query |-> q, type |-> t, page |-> page, todo |-> page,
            stood |-> docs, quiet |-> TRUE,
            step |-> CASE kind = "random" -> "count"
                       [] kind = "delete" -> IF page = {} THEN "failed" ELSE "purge"
                       [] OTHER -> "fetch"])
  /\ UNCHANGED <<docs, orig, thumbs, created, doomed>>

\* A query or, before a hybrid search, the embedding of its text fails.
QueryFails(s) ==
  /\ "query" \in Faults /\ Now(s) \in {"fetch", "count", "pick"}
  /\ Go(s, [step |-> "failed"])
  /\ UNCHANGED <<docs, orig, thumbs, created, doomed>>

\* The webapp's client goes on as long as there is a cursor; the bot hands it to
\* Telegram only after a full page.
WebNext(r) == r.after
InlineNext(r) == IF Cardinality(r.hits) = PageSize THEN r.after ELSE None

SearchPage(s) ==
  /\ Now(s) = "fetch" /\ session[s].kind \in {"web", "inline"}
  /\ \E r \in Search(session[s].query, session[s].type, session[s].after) :
       LET next == IF session[s].kind = "web" THEN WebNext(r) ELSE InlineNext(r) IN
       Go(s, [shown |-> Count(session[s].shown, r.hits), after |-> next,
              step |-> IF next = None THEN "end" ELSE "fetch"])
  /\ UNCHANGED <<docs, orig, thumbs, created, doomed>>

-----------------------------------------------------------------------------
(* Export and delete-all *)

\* One meme, those of the account, or all.
ListPage(s) ==
  LET q == session[s].query IN
  CASE q.of = "id" -> {[hits |-> GetById(q.id), key |-> NoKey]}
    [] q.of # "id" /\ session[s].kind = "exportAll" -> GetAll(session[s].key)
    [] OTHER -> GetByAccountIdOrderByCreated("", session[s].key)

\* Mutant of ExportPage: the cursor stays where it was.
ExportPageAgain(s) ==
  /\ Now(s) = "fetch" /\ session[s].kind \in {"export", "exportAll"}
  /\ \E r \in ListPage(s) :
       Go(s, [page |-> r.hits, todo |-> r.hits,
              step |-> IF r.hits = {} THEN "end" ELSE "original"])
  /\ UNCHANGED <<docs, orig, thumbs, created, doomed>>

ExportPage(s) ==
  /\ Now(s) = "fetch" /\ session[s].kind \in {"export", "exportAll"}
  /\ \E r \in ListPage(s) :
       Go(s, [page |-> r.hits, todo |-> r.hits, key |-> r.key,
              step |-> IF r.hits = {} THEN "end" ELSE "original"])
  /\ UNCHANGED <<docs, orig, thumbs, created, doomed>>

\* exportOne: a missing blob breaks the whole export off.
ExportOriginal(s) ==
  /\ Now(s) = "original"
  /\ Go(s, [step |-> IF Pick(session[s].todo) \in orig THEN "thumbnail" ELSE "broken"])
  /\ UNCHANGED <<docs, orig, thumbs, created, doomed>>

ExportThumbnail(s) ==
  LET m == Pick(session[s].todo)
      rest == session[s].todo \ {m}
  IN /\ Now(s) = "thumbnail"
     /\ IF m \in thumbs
          THEN Go(s, [todo |-> rest, step |-> IF rest = {} THEN "send" ELSE "original"])
          ELSE Go(s, [step |-> "broken"])
     /\ UNCHANGED <<docs, orig, thumbs, created, doomed>>

\* Mutant of AfterPage: a full page is the last one too.
AfterPageFull(s) ==
  IF session[s].query.of = "id" \/ Cardinality(session[s].page) <= PageSize
    THEN "end" ELSE "fetch"

\* A page that is not full is the last one.
AfterPage(s) ==
  IF session[s].query.of = "id" \/ Cardinality(session[s].page) < PageSize
    THEN "end" ELSE "fetch"

\* The callback streams the page to the client, which may be gone.
ExportCallback(s) ==
  /\ Now(s) = "send"
  /\ \E ok \in Outcome("client") :
       Go(s, IF ok THEN [shown |-> Count(session[s].shown, session[s].page),
                         step |-> AfterPage(s)]
             ELSE [step |-> "failed"])
  /\ UNCHANGED <<docs, orig, thumbs, created, doomed>>

\* Mutant of WipePage: an empty page is not noticed.
WipePageUnchecked(s) ==
  /\ Now(s) = "fetch" /\ session[s].kind = "wipe"
  /\ \E r \in GetByAccountIdOrderByCreated("", session[s].key) :
       Go(s, [page |-> r.hits, todo |-> r.hits, key |-> r.key, step |-> "purge"])
  /\ UNCHANGED <<docs, orig, thumbs, created, doomed>>

WipePage(s) ==
  /\ Now(s) = "fetch" /\ session[s].kind = "wipe"
  /\ \E r \in GetByAccountIdOrderByCreated("", session[s].key) :
       Go(s, [page |-> r.hits, todo |-> r.hits, key |-> r.key,
              step |-> IF r.hits = {} THEN "end" ELSE "purge"])
  /\ UNCHANGED <<docs, orig, thumbs, created, doomed>>

\* DeleteMeme and DeleteAll delete the two blobs, each of which may fail ...
PurgeOriginal(s) ==
  LET m == Pick(session[s].todo) IN
  /\ Now(s) = "purge"
  /\ doomed' = doomed \cup {m}
  /\ \E ok \in Outcome("bucket") :
       /\ orig' = IF ok THEN orig \ {m} ELSE orig
       /\ Go(s, [step |-> "purgeThumb", error |-> ~ok])
  /\ UNCHANGED <<docs, thumbs, created>>

\* ... which ends DeleteMeme, while DeleteAll only logs it.
AfterPurge(s, error) ==
  IF session[s].kind = "delete" /\ error THEN "failed" ELSE "remove"

PurgeThumbnail(s) ==
  LET m == Pick(session[s].todo) IN
  /\ Now(s) = "purgeThumb"
  /\ \E ok \in Outcome("bucket") :
       /\ thumbs' = IF ok THEN thumbs \ {m} ELSE thumbs
       /\ Go(s, [step |-> AfterPurge(s, session[s].error \/ ~ok)])
  /\ UNCHANGED <<docs, orig, created, doomed>>

\* The document goes last; again DeleteAll goes on after an error.
RemoveMetadata(s) ==
  LET m == Pick(session[s].todo)
      rest == session[s].todo \ {m}
      step == CASE session[s].kind = "delete" -> "end"
                [] session[s].kind # "delete" /\ rest # {} -> "purge"
                [] OTHER -> AfterPage(s)
      handled == [session EXCEPT ![s].todo = rest, ![s].shown = Count(@, {m})]
  IN /\ Now(s) = "remove"
     /\ \E ok \in Outcome("index") :
          LET next == IF session[s].kind = "delete" /\ ~ok THEN "failed" ELSE step
              after == [handled EXCEPT ![s].step = next]
          IN /\ docs' = IF ok THEN docs \ {m} ELSE docs
             /\ session' = IF ok THEN Changed(after, s, m) ELSE after
     /\ UNCHANGED <<orig, thumbs, created, doomed>>

-----------------------------------------------------------------------------
(* The random meme *)

\* GetRandom counts the memes, ...
CountMemes(s) ==
  LET n == Cardinality(Scope(session[s].type)) IN
  /\ Now(s) = "count"
  /\ Go(s, [total |-> n, step |-> IF n = 0 THEN "end" ELSE "pick"])
  /\ UNCHANGED <<docs, orig, thumbs, created, doomed>>

\* The hit at `offset`, in an order the query leaves open.
HitsFrom(offset, S) == IF offset < Cardinality(S) THEN {{m} : m \in S} ELSE {{}}

\* Mutant of PickMeme: the offset may be one too far.
PickMemeBeyond(s) ==
  /\ Now(s) = "pick"
  /\ \E offset \in 0 .. session[s].total :
       \E hits \in HitsFrom(offset, Scope(session[s].type)) :
         Go(s, [shown |-> Count(session[s].shown, hits), step |-> "end"])
  /\ UNCHANGED <<docs, orig, thumbs, created, doomed>>

\* ... then draws one of so many, as the index is by then.
PickMeme(s) ==
  /\ Now(s) = "pick"
  /\ \E offset \in 0 .. session[s].total - 1 :
       \E hits \in HitsFrom(offset, Scope(session[s].type)) :
         Go(s, [shown |-> Count(session[s].shown, hits), step |-> "end"])
  /\ UNCHANGED <<docs, orig, thumbs, created, doomed>>

-----------------------------------------------------------------------------
(* Uploads *)

Latest == Max({created[m] : m \in Memes})

\* CreateMeme takes the time before it stores the blobs and the document, ...
Create(m) ==
  /\ created[m] = 0
  /\ \E t \in {Latest, Latest + 1} :
       /\ t \in 1 .. MaxCreated
       /\ created' = [created EXCEPT ![m] = t]
  /\ UNCHANGED <<docs, orig, thumbs, doomed, session>>

Incoming(m) == created[m] > 0 /\ m \notin docs \cup doomed

\* Mutant of SaveMetadata: the document does not wait for the blobs.
SaveMetadataFirst(m) ==
  /\ Incoming(m)
  /\ docs' = docs \cup {m}
  /\ session' = [s \in Sessions |-> [session[s] EXCEPT !.quiet = FALSE]]
  /\ UNCHANGED <<orig, thumbs, created, doomed>>

\* (nobody reads the blobs of a meme that is not in the index)
StoreBlobs(m) ==
  /\ Incoming(m) /\ m \notin orig
  /\ orig' = orig \cup {m} /\ thumbs' = thumbs \cup {m}
  /\ UNCHANGED <<docs, created, doomed, session>>

SaveMetadata(m) ==
  /\ Incoming(m) /\ m \in orig
  /\ docs' = docs \cup {m}
  /\ session' = [s \in Sessions |-> [session[s] EXCEPT !.quiet = FALSE]]
  /\ UNCHANGED <<orig, thumbs, created, doomed>>

-----------------------------------------------------------------------------
Move(s) == \/ QueryFails(s)
           \/ SearchPage(s) \/ ExportPage(s) \/ ExportOriginal(s) \/ ExportThumbnail(s)
           \/ ExportCallback(s) \/ WipePage(s) \/ PurgeOriginal(s) \/ PurgeThumbnail(s)
           \/ RemoveMetadata(s) \/ CountMemes(s) \/ PickMeme(s)

Final == {"end", "failed", "broken"}

\* The last session has ended: nothing is left to look at.
Rest == /\ \A s \in Sessions : Now(s) \in Final
        /\ UNCHANGED vars

Next == \/ \E s \in Sessions, kind \in UNION {Kinds[t] : t \in Sessions},
              q \in Queries, t \in Types : Begin(s, kind, q, t)
        \/ \E s \in Sessions : Move(s)
        \/ \E m \in Memes : Create(m) \/ StoreBlobs(m) \/ SaveMetadata(m)
        \/ Rest

Spec == Init /\ [][Next]_vars

\* A request goes on, and clients ask for the next page.
Fairness == \A s \in Sessions : WF_vars(Move(s))

FairSpec == Spec /\ Fairness

-----------------------------------------------------------------------------
(* Properties *)

\* Every variable has its type.
TypeOK ==
  /\ docs \subseteq Memes /\ orig \subseteq Memes /\ thumbs \subseteq Memes
  /\ doomed \subseteq Memes
  /\ created \in [Memes -> 0 .. MaxCreated]
  /\ \A s \in Sessions :
       LET r == session[s] IN
       /\ r.step \in Step /\ r.query \in Query /\ r.type \in TypeTag
       /\ r.page \subseteq Memes /\ r.todo \subseteq r.page /\ r.stood \subseteq Memes
       /\ r.after # None => r.after.key # NoKey
       /\ r.step \in {"original", "thumbnail", "purge", "purgeThumb", "remove"} => r.todo # {}
       /\ r.total <= Cardinality(Memes)

Listing(s) == session[s].kind \notin {"delete", "random"} /\ session[s].query.of = "all"

\* A walk through the pages handles no meme twice, whatever is uploaded and deleted
\* between two pages.
ListedOnce == \A s \in Sessions, m \in Memes : Listing(s) => session[s].shown[m] <= 1

Listed(s) == {m \in Memes : session[s].shown[m] > 0}
Ended(s) == session[s].step = "end"
Wanted(s) ==
  LET type == session[s].type IN
  {m \in session[s].stood :
     \/ session[s].kind = "exportAll"
     \/ Owner[m] = Account /\ (type = "" \/ (m \in Videos) = (type = "video"))}

\* A walk that comes to its end has handled every meme that was there the whole
\* time, unless another one has the same creation time (MetadataStorageService.go:191
\* sorts by Created alone, so one of the two may fall between two pages).
NoneLeftOut ==
  \A s \in Sessions : Listing(s) /\ Ended(s) =>
    \A m \in Wanted(s) :
      \/ m \in Listed(s)
      \/ /\ session[s].kind # "exportAll"
         /\ \E k \in Listed(s) : k # m /\ created[k] = created[m]

\* A search by text or id shows no meme twice and finds every match of its text, as
\* long as the index does not change meanwhile.
SearchIsExact ==
  \A s \in Sessions :
    LET r == session[s] IN
    r.kind \in {"web", "inline"} /\ r.quiet =>
      /\ \A m \in Memes : r.shown[m] <= 1
      /\ Ended(s) => TextMatches(r.query, r.type) \subseteq Listed(s)

\* An export breaks off for want of a blob only at a meme that is being deleted.
BrokenByDeletion ==
  \A s \in Sessions : Now(s) = "broken" => Pick(session[s].todo) \in doomed

\* When the index does not change meanwhile, a random meme is found if there is one.
RandomFinds ==
  \A s \in Sessions :
    session[s].kind = "random" /\ Ended(s) /\ session[s].quiet =>
      (Listed(s) = {} <=> Wanted(s) = {})

\* Every request and every walk through the pages ends.
EverySessionEnds == \A s \in Sessions : Now(s) \notin {"idle"} \cup Final ~> Now(s) \in Final

=============================================================================
