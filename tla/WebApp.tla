-------------------------------- MODULE WebApp --------------------------------
(****************************************************************************)
(* One page of the web frontend and the webapp-service behind it: searches  *)
(* that replace or extend the grid, an upload, edits, deletions and         *)
(* recomputes, each a request that is served and answered later, in any     *)
(* order, unless it is aborted.  A request with several calls is served in  *)
(* stages.                                                                  *)
(****************************************************************************)
EXTENDS Integers, Sequences, FiniteSets, FiniteSetsExt

CONSTANTS
  Memes,       \* memes, numbered as they are created
  Old,         \* those that are there from the beginning
  Queries,
  ByCreation,  \* of them those that list memes by creation, as the empty one does
  Rankings,    \* how each query may rank the memes, 0 for one it does not find: a text query
               \* by score and id, which depend on all that is indexed
  PageSize,
  Slots,       \* requests under way: a bound
  MaxPolls,    \* polls of a recompute job
  WritePolls,  \* polls within the write timeout of the server
  MaxEvents    \* bound: what the user does and the requests that fail, together

VARIABLES
  version,    \* of each meme in storage-service; 0: not yet created, -1: deleted
  webJobs,    \* the recompute job of each meme
  ranking,    \* how the last search ranked the memes
  page,       \* the store of the frontend; the grid: in which versions each meme is shown
  requests,   \* the requests under way
  clicks,     \* history: what the user did
  mishaps,    \* history: requests that failed
  drift,      \* history: "reordered": the index changed since the first page of a text query
              \* was read, "mixed": and a later page was read after that
  conflict    \* history: since the last fresh load, a search ran beside another request,
              \* two requests changed one meme, the effect of one was not answered, or the
              \* first page was read only after an upload had been shown

webVars == <<version, webJobs, ranking, page, requests, clicks, mishaps, drift, conflict>>

NoPage == 0
NoSlot == 0

ASSUME WebAssumption ==
  /\ Memes \subseteq Nat \ {0} /\ IsFiniteSet(Memes) /\ Old \subseteq Memes
  /\ "none" \notin Queries /\ Rankings \in [Queries -> SUBSET [Memes -> Nat]]
  /\ \A q \in Queries : \A order \in Rankings[q], m, k \in Memes :
       order[m] = order[k] /\ order[m] # 0 => m = k
  /\ ByCreation \subseteq Queries /\ \A q \in ByCreation : Rankings[q] = {[m \in Memes |-> m]}
  /\ PageSize \in Nat \ {0} /\ NoSlot \notin Slots
  /\ MaxPolls \in Nat /\ WritePolls \in Nat /\ MaxEvents \in Nat

\* Of each meme the versions it is shown in; their order is layout.
NothingShown == [m \in Memes |-> <<>>]

Free == [kind |-> "none", meme |-> 0, query |-> "none", after |-> NoPage, base |-> NothingShown,
         stage |-> 0, polls |-> 0, state |-> "sent", data |-> NothingShown, next |-> NoPage]

WebInit ==
  /\ version = [m \in Memes |-> IF m \in Old THEN 1 ELSE 0]
  /\ webJobs = [m \in Memes |-> "none"] /\ ranking = [m \in Memes |-> 0]
  /\ page = [query |-> "none", memes |-> NothingShown, next |-> NoPage, more |-> TRUE,
             loading |-> FALSE, controller |-> NoSlot]
  /\ requests = [s \in Slots |-> Free]
  /\ clicks = 0 /\ mishaps = 0 /\ drift = "none" /\ conflict = FALSE

Stored(m) == version[m] > 0
UnderWay(kind) == \E s \in Slots : requests[s].kind = kind
About(m) == (\E s \in Slots : requests[s].meme = m) \/ webJobs[m] = "running"

-----------------------------------------------------------------------------
(* Sending a request *)

Search == {"load", "more"}

\* (a load is thought to be safe beside another)
Conflicts(r, o) ==
  /\ o.kind # "none" /\ ~(r.kind = "load" /\ o.kind = "load")
  /\ r.kind \in Search \/ o.kind \in Search \/ r.meme = o.meme

\* The slots of `aborted` are given up.
SendRequest(s, r, aborted) ==
  LET others == {requests[t] : t \in Slots \ aborted}
      beside == \/ \E o \in others : Conflicts(r, o)
                \/ r.kind = "more" /\ r.after = NoPage /\ r.base # NothingShown
  IN /\ requests[s].kind = "none" /\ clicks + mishaps < MaxEvents
     /\ clicks' = clicks + 1
     /\ requests' = [t \in Slots |->
                       IF t = s THEN r ELSE IF t \in aborted THEN Free ELSE requests[t]]
     /\ conflict' = IF r.kind = "load" THEN beside \/ \E m \in Memes : webJobs[m] = "running"
                    ELSE conflict \/ beside \/ (r.meme \in Memes /\ webJobs[r.meme] = "running")
     /\ UNCHANGED <<version, webJobs, ranking, mishaps>>

Loading(q, s) == [query |-> q, memes |-> NothingShown, next |-> NoPage, more |-> TRUE,
                  loading |-> TRUE, controller |-> s]

\* Mutant of Load: the load before is not aborted.
LoadBeside(s, q) ==
  /\ q # page.query
  /\ SendRequest(s, [Free EXCEPT !.kind = "load", !.query = q], {})
  /\ page' = Loading(q, s) /\ drift' = "none"

\* The query changes, or the page opens; its first page replaces the grid.
Load(s, q) ==
  /\ q # page.query
  /\ SendRequest(s, [Free EXCEPT !.kind = "load", !.query = q], {page.controller})
  /\ page' = Loading(q, s) /\ drift' = "none"

\* The end of the grid comes into view, or the last memes are browsed.  What the answer
\* will be added to is taken now.
LoadMore(s) ==
  /\ page.query \in Queries /\ ~page.loading /\ page.more
  /\ SendRequest(s, [Free EXCEPT !.kind = "more", !.query = page.query, !.after = page.next,
                          !.base = page.memes], {})
  /\ page' = [page EXCEPT !.loading = TRUE] /\ UNCHANGED drift

Shown == {m \in Memes : page.memes[m] # <<>>}

RequestAbout(kind, m) == [Free EXCEPT !.kind = kind, !.meme = m, !.stage = 1]

\* A new meme is numbered after those created before it.
\* Only the upload dialog, the wait for a recompute and a deletion exclude a second of their kind.
StartUpload(s) ==
  /\ page.query \in Queries /\ ~UnderWay("upload") /\ ~UnderWay("recompute")
  /\ \E m \in Memes : /\ \A k \in Memes : version[k] # 0 => k < m
                      /\ SendRequest(s, RequestAbout("upload", m), {})
  /\ UNCHANGED <<page, drift>>

\* Bound: a meme has one recompute job at a time.
HandleRecompute(s) ==
  /\ ~UnderWay("upload") /\ ~UnderWay("recompute")
  /\ \E m \in Shown : /\ webJobs[m] # "running"
                      /\ SendRequest(s, RequestAbout("recompute", m), {})
  /\ UNCHANGED <<page, drift>>

HandleConfirmDelete(s) ==
  /\ ~UnderWay("upload") /\ ~UnderWay("recompute") /\ ~UnderWay("delete")
  /\ \E m \in Shown : SendRequest(s, RequestAbout("delete", m), {})
  /\ UNCHANGED <<page, drift>>

HandleFieldSave(s) ==
  /\ ~UnderWay("upload") /\ ~UnderWay("recompute")
  /\ \E m \in Shown : SendRequest(s, RequestAbout("update", m), {})
  /\ UNCHANGED <<page, drift>>

-----------------------------------------------------------------------------
(* webapp-service and storage-service *)

\* A call does what it should, nothing, or what it should without an answer.
Outcomes == IF clicks + mishaps < MaxEvents THEN {"ok", "refused", "lost"} ELSE {"ok"}

\* The answer: memes with their versions, failed unless all went well.
Respond(s, how, data, next) ==
  /\ requests' = [requests EXCEPT ![s].state = IF how = "ok" THEN "ok" ELSE "failed",
                                  ![s].data = data, ![s].next = next]
  /\ mishaps' = IF how = "ok" THEN mishaps ELSE mishaps + 1
  /\ conflict' = (conflict \/ how = "lost")

Awaits(s, kind) == requests[s].kind = kind /\ requests[s].state = "sent"

Dtos(memes) == [m \in Memes |-> IF m \in memes THEN <<version'[m]>> ELSE <<>>]

\* A page of the memes that rank highest below the cursor ...
SearchMeme(order, after) ==
  LET found == {m \in Memes : order[m] > 0 /\ Stored(m) /\ (after = NoPage \/ order[m] < after)}
  IN {m \in found : Cardinality({k \in found : order[k] > order[m]}) < PageSize}

\* ... and the cursor of the next one; without results there is none.
NextPage(order, results) == IF results = {} THEN NoPage ELSE Min({order[m] : m \in results})

\* While nothing is indexed, the pages of a query are read in one order.
Settled(r) == drift = "none" /\ ranking \in Rankings[r.query]

SearchMemes(s) ==
  LET r == requests[s] IN
  /\ \E kind \in Search : Awaits(s, kind)
  /\ UNCHANGED <<version, webJobs, page, clicks>>
  /\ \/ /\ "refused" \in Outcomes /\ Respond(s, "refused", NothingShown, NoPage)
        /\ UNCHANGED <<ranking, drift>>
     \/ /\ ranking' \in IF r.after # NoPage /\ Settled(r) THEN {ranking} ELSE Rankings[r.query]
        /\ LET results == SearchMeme(ranking', r.after)
           IN Respond(s, "ok", Dtos(results), NextPage(ranking', results))
        /\ drift' = IF r.after = NoPage \/ Settled(r) THEN "none" ELSE "mixed"

\* What is indexed may change how a text query ranks the memes.
Reindexed == /\ drift' = IF /\ version' # version /\ drift = "none"
                            /\ page.query \notin ByCreation THEN "reordered" ELSE drift
             /\ UNCHANGED ranking

\* The upload goes to a URL the page asks for and is then created; only the last of its
\* three requests leaves anything in storage-service.
NextStage(s) ==
  /\ \E how \in Outcomes \ {"lost"} :
       IF how = "ok" THEN /\ requests' = [requests EXCEPT ![s].stage = @ + 1]
                          /\ UNCHANGED <<mishaps, conflict>>
       ELSE Respond(s, how, NothingShown, NoPage)
  /\ UNCHANGED <<version, webJobs, ranking, page, clicks, drift>>

GetUploadUrl(s) == Awaits(s, "upload") /\ requests[s].stage = 1 /\ NextStage(s)
UploadToS3Post(s) == Awaits(s, "upload") /\ requests[s].stage = 2 /\ NextStage(s)

Create(m, new) == version' = IF new THEN [version EXCEPT ![m] = 1] ELSE version

\* A duplicate is not shown.
ParseByToken(s) ==
  /\ Awaits(s, "upload") /\ requests[s].stage = 3
  /\ \E how \in Outcomes : \E new \in IF how = "refused" THEN {FALSE} ELSE BOOLEAN :
       /\ Create(requests[s].meme, new)
       /\ Respond(s, how, IF new THEN Dtos({requests[s].meme}) ELSE NothingShown, NoPage)
  /\ Reindexed /\ UNCHANGED <<webJobs, page, clicks>>

\* An update or deletion of a meme that is gone is an error.
Change(s, changed) ==
  LET m == requests[s].meme IN
  /\ \E how \in IF Stored(m) THEN Outcomes ELSE {"refused"} :
       /\ version' = IF how = "refused" THEN version ELSE [version EXCEPT ![m] = changed]
       /\ Respond(s, how, Dtos({m}), NoPage)
  /\ Reindexed /\ UNCHANGED <<webJobs, page, clicks>>

ServeUpdate(s) == Awaits(s, "update") /\ Change(s, version[requests[s].meme] + 1)
ServeDelete(s) == Awaits(s, "delete") /\ Change(s, -1)

StartRecomputeJobById(s) ==
  /\ Awaits(s, "recompute") /\ requests[s].stage = 1
  /\ \E how \in Outcomes :
       /\ webJobs' = IF how = "refused" THEN webJobs
                     ELSE [webJobs EXCEPT ![requests[s].meme] = "running"]
       /\ IF how = "ok" THEN /\ requests' = [requests EXCEPT ![s].stage = 2]
                             /\ UNCHANGED <<mishaps, conflict>>
          ELSE Respond(s, how, NothingShown, NoPage)
  /\ UNCHANGED <<version, ranking, page, clicks, drift>>

\* A job may last: it ends done, with the meme recomputed or an error about it that is only
\* logged, or failed.  It saves the copy it has read, also of a meme deleted meanwhile.
RecomputeEnds(m) ==
  /\ webJobs[m] = "running"
  /\ \E state \in {"done", "failed"}, saved \in BOOLEAN :
       /\ saved => state = "done"
       /\ webJobs' = [webJobs EXCEPT ![m] = state]
       /\ version' = IF saved THEN [version EXCEPT ![m] = IF @ > 0 THEN @ + 1 ELSE 1] ELSE version
  /\ Reindexed /\ UNCHANGED <<page, requests, clicks, mishaps, conflict>>

\* Mutant of TimedOut: the job is polled until it ends.
NeverTimedOut(polls) == FALSE

TimedOut(polls) == polls >= MaxPolls

\* A recompute that is not seen to the end is given up; its job goes on.
PollRecompute(s) ==
  LET r == requests[s] IN
  /\ Awaits(s, "recompute") /\ r.stage = 2
  /\ \/ /\ ~TimedOut(r.polls) /\ webJobs[r.meme] = "done"
        /\ requests' = [requests EXCEPT ![s].stage = 3]
        /\ UNCHANGED <<mishaps, conflict>>
     \/ /\ ~TimedOut(r.polls) /\ webJobs[r.meme] = "running"
        /\ requests' = [requests EXCEPT ![s].polls = IF @ < MaxPolls THEN @ + 1 ELSE @]
        /\ UNCHANGED <<mishaps, conflict>>
     \/ /\ ~TimedOut(r.polls) /\ webJobs[r.meme] = "failed"
        /\ requests' = [requests EXCEPT ![s].state = "failed"]
        /\ UNCHANGED <<mishaps, conflict>>
     \/ /\ ~TimedOut(r.polls) /\ clicks + mishaps < MaxEvents
        /\ Respond(s, "lost", NothingShown, NoPage)
     \/ /\ TimedOut(r.polls)
        /\ requests' = [requests EXCEPT ![s].state = "failed"]
        /\ conflict' = TRUE /\ UNCHANGED mishaps
  /\ UNCHANGED <<version, webJobs, ranking, page, clicks, drift>>

\* After the write timeout of the server an answer cannot be written any more.
InTime(polls) == polls <= WritePolls

GetRecomputed(s) ==
  LET r == requests[s] IN
  /\ Awaits(s, "recompute") /\ r.stage = 3
  /\ UNCHANGED <<version, webJobs, ranking, page, clicks, drift>>
  /\ \E how \in Outcomes :
       LET read == how = "ok" /\ Stored(r.meme) /\ InTime(r.polls) IN
       /\ requests' = [requests EXCEPT ![s].state = IF read THEN "ok" ELSE "failed",
                                       ![s].data = Dtos({r.meme})]
       /\ mishaps' = IF how = "ok" THEN mishaps ELSE mishaps + 1
       /\ conflict' = (conflict \/ ~read)

-----------------------------------------------------------------------------
(* Answers at the page *)

Replaced(memes, m, meme) == [memes EXCEPT ![m] = [i \in DOMAIN @ |-> meme]]

Joined(memes, others) == [m \in Memes |-> memes[m] \o others[m]]

\* What each answer does to the store.
Loaded(r) == [page EXCEPT !.memes = r.data, !.next = r.next, !.loading = FALSE,
                          !.more = r.data # NothingShown /\ r.next # NoPage, !.controller = NoSlot]

LoadedMore(r) == [page EXCEPT !.memes = Joined(r.base, r.data), !.next = r.next, !.loading = FALSE,
                              !.more = r.data # NothingShown /\ r.next # NoPage]

Applied(r) ==
  CASE r.kind = "load" -> Loaded(r)
    [] r.kind = "more" -> LoadedMore(r)
    [] r.kind = "upload" -> [page EXCEPT !.memes = Joined(r.data, @)]
    [] r.kind = "delete" -> [page EXCEPT !.memes[r.meme] = <<>>]
    [] OTHER -> [page EXCEPT !.memes = Replaced(@, r.meme, r.data[r.meme][1])]

\* An error ends the wait; otherwise it is only logged.
Erred(r) == CASE r.kind = "load" -> [page EXCEPT !.loading = FALSE, !.controller = NoSlot]
              [] r.kind = "more" -> [page EXCEPT !.loading = FALSE]
              [] OTHER -> page

Deliver(s) ==
  LET r == requests[s] IN
  /\ r.kind # "none" /\ r.state # "sent"
  /\ page' = IF r.state = "ok" THEN Applied(r) ELSE Erred(r)
  /\ requests' = [requests EXCEPT ![s] = Free]
  /\ UNCHANGED <<version, webJobs, ranking, clicks, mishaps, drift, conflict>>

-----------------------------------------------------------------------------
Click == \E s \in Slots : \/ \E q \in Queries : Load(s, q)
                          \/ LoadMore(s) \/ StartUpload(s) \/ HandleRecompute(s)
                          \/ HandleConfirmDelete(s) \/ HandleFieldSave(s)

WebStep ==
  \E s \in Slots : \/ SearchMemes(s) \/ GetUploadUrl(s) \/ UploadToS3Post(s) \/ ParseByToken(s)
                  \/ ServeUpdate(s) \/ ServeDelete(s)
                  \/ StartRecomputeJobById(s) \/ PollRecompute(s) \/ GetRecomputed(s)
                  \/ Deliver(s)

WebNext == Click \/ WebStep \/ \E m \in Memes : RecomputeEnds(m)

WebSpec == WebInit /\ [][WebNext]_webVars

\* Calls end and answers or errors arrive; nothing is assumed of jobs, or of the user.
WebFairness == WF_webVars(WebStep)

WebFairSpec == WebSpec /\ WebFairness

-----------------------------------------------------------------------------
(* Properties *)

Grid == [Memes -> Seq(Int)]

WebPage == [query : Queries \cup {"none"}, memes : Grid, next : Nat, more : BOOLEAN,
            loading : BOOLEAN, controller : Slots \cup {NoSlot}]

WebRequest ==
  [kind : {"none", "load", "more", "upload", "update", "delete", "recompute"},
   meme : Memes \cup {0}, query : Queries \cup {"none"}, after : Nat, base : Grid,
   stage : 0 .. 3, polls : 0 .. MaxPolls, state : {"sent", "ok", "failed"}, data : Grid,
   next : Nat]

WebTypeOK ==
  /\ version \in [Memes -> Int] /\ webJobs \in [Memes -> {"none", "running", "done", "failed"}]
  /\ ranking \in [Memes -> Nat] /\ page \in WebPage /\ requests \in [Slots -> WebRequest]
  /\ clicks \in Nat /\ mishaps \in Nat
  /\ drift \in {"none", "reordered", "mixed"} /\ conflict \in BOOLEAN

\* The memes a query may find.
Matching(query) == {m \in Memes : \E order \in Rankings[query] : order[m] > 0}

Complete(m) == IF page.next = NoPage THEN ~page.more ELSE ranking[m] >= page.next

\* Unless requests were in conflict, the grid has nothing of another query and nothing
\* deleted, and each copy in it as the meme is stored - but for memes a request is under way
\* about.  No meme is shown twice, and none that the query found as far as it was read is
\* left out: always when the query lists memes by creation, and until a text query is read
\* on in an order that a change of the index may have made another.
ShowsCurrentQuery ==
  ~conflict /\ ~UnderWay("load") =>
    /\ \A m \in Shown :
         /\ m \in (Memes \ Old) \/ m \in Matching(page.query)
         /\ About(m) \/ \A i \in DOMAIN page.memes[m] : page.memes[m][i] = version[m]
         /\ Len(page.memes[m]) = 1 \/ drift = "mixed"
    /\ page.query \in Queries /\ drift # "mixed" =>
         \A m \in Memes : Stored(m) /\ ranking[m] > 0 /\ Complete(m) => m \in Shown \/ About(m)

\* Every wait of the page ends, though a recompute job may not: once the user stops,
\* nothing is loading and no request, dialog or progress is left.
PageSettles == []<>(~page.loading /\ \A s \in Slots : requests[s].kind = "none")

=============================================================================
