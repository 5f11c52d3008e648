# Memelo in TLA+

Specifications of the memelo services (`src/`), checked with TLC and, where a
module of proofs exists, proved with TLAPS.  Every definition is translated from
the source; `PROJECT.json` names the lines each one stands for.  Paths below are
relative to `src/services/` unless they start with `src/`.

## 1. The system

| component | state it keeps | operations | talks to |
|---|---|---|---|
| storage-service, meme CRUD (`storage-service/service/MemeCrudService.go`, `PipelineSaveService.go`) | none of its own; documents in Elasticsearch, blobs in a bucket | create, update, get, random, search, delete, delete all | extract pipeline, metadata and media storage |
| storage-service, extract pipeline (`MetadataExtractService.go`, `EP*.go`) | a `MetadataPipelineContext` per request | hash, duplicate checks, conversion, embeddings, LLM extraction, thumbnail | both stores, ffmpeg-service, LLM |
| storage-service, recompute (`RecomputeService.go`) | a map of jobs (cache of 256, one hour), a pool of 4 workers per job | start, start by id, status | extract pipeline, both stores |
| storage-service, storages (`storage/*.go`) | the index and the bucket | save, delete, queries with a sort-key cursor | Elasticsearch, S3 |
| storage-service, search and export (`SearchPipeline*.go`, `ExportService.go`) | none of its own; the cursor is the client's | search with a pipeline of three searchers, export through a callback | storages |
| storage-service, index migrator (`storage/elastic_migrator.go`) | the last applied migration, in an index of its own | bring the index up to date at startup | Elasticsearch |
| storage-service, ffmpeg client (`service/ffmpeg`) | none | run a remote job and poll it | ffmpeg-service, temporary bucket |
| youtube-service (`youtube-service/service`) | job map, semaphore, timers, cleaner | CreateJob, RunSync, GetJob, download | external downloader, temporary bucket |
| ffmpeg-service (`ffmpeg-service/service/FfmpegJobService.go`) | job cache, semaphore, timers | CreateJob, GetJob | ffmpeg binary, temporary bucket |
| common (`common/temp`, `common/service`) | a temporary object: local copy, S3 path, once and closed flags | upload, download, close | S3 |
| telegram-service | update channel, dispatcher | webhook, messages, inline queries, chosen results | storage-, auth- and youtube-service |
| auth-service | users, their Telegram links and permission codes (SQL); nothing writes them | look up who a Telegram account is and what it may do; the web login and `GetUser` have no caller | SQL |
| webapp-service, backend | none; upload tokens are signed and given to the page | HTTP handlers, storage proxy; no login | storage-service, temporary bucket |
| webapp-service, frontend (`frontend/src`) | the store: query, grid, next page, requests under way | load, load more, upload, edit, delete, recompute | backend |

What is hard in it:

* **Two stores, no transaction, no lock.**  A meme is a document in the index
  and two blobs in the bucket.  Every request is a sequence of remote calls that
  interleaves with those of other requests and may stop after any of them.
* **Copies that live long.**  A request reads a whole document, works for seconds
  or minutes and indexes the whole document again.
* **Jobs.**  Three services run jobs in goroutines behind a semaphore, answer
  polls from memory and delete temporary objects by timer or by ticker.
* **Pages** continue after the last sort key of documents that change meanwhile.
* **Shared temporary objects** are uploaded and downloaded at most once and closed
  by several owners, on paths that fail half way.
* **Fan-out.**  The slices of a video are cut, embedded and described in parallel,
  each call retried on its own, cancelled together, and put in order at the end.
* **Replicas.**  Several processes may migrate one index at the same time, and stop
  between a migration and its record.
* **Late answers.**  The page sends requests that are answered in any order; the bot
  answers for jobs of other services, while it may be told to stop.

What makes the components correct:

* meme CRUD and extract pipeline: a document leads to its blobs, and when nothing
  fails every blob is led to by a document; an upload is recognised when its bytes
  come again; what a user typed survives;
* recompute: a job visits each meme at most once and is done when all are;
* job services: at most the configured number of jobs run, each once; an outcome
  does not change; a temporary object lives for its retention and no longer, and
  somebody always knows of it;
* extract pipeline: the slices cover the video, the results are those of the slices
  and in their order, what is retried does no harm, nothing stays in the temporary
  bucket;
* search, export, delete-all: no meme twice, none that stays left out, and an end;
* migrator: no document loses its embedding, nothing is served before it is migrated;
* telegram and auth: an update is handled to the end, nothing happens without the
  permission for it, and what the bot says is so;
* webapp: the grid shows what the query finds, as it is stored, and no wait lasts.

The hazards at their lines are in `PROJECT.json`.

## 2. The modules

| module | models | extends or instantiates |
|---|---|---|
| `MemeStore` | requests that change memes: CRUD, the pipeline's result, one recompute worker, both stores | |
| `MemeStoreProofs` | all safety properties of the store, proved | `MemeStore`, TLAPS |
| `JobLifecycle` | abstract: what the job services promise | |
| `VideoJobs` | the YouTube service's jobs, timers and cleaner | implements `JobLifecycle` |
| `VideoJobsProofs` | type correctness, retention and the refinement, proved | `VideoJobs`, TLAPS |
| `FfmpegJobs` | the FFmpeg service's jobs, timers and cache | implements `JobLifecycle` |
| `FfmpegJobsProofs` | type correctness, the outputs and the refinement, proved | `FfmpegJobs`, TLAPS |
| `RecomputeJobs` | a recompute job: pages, worker pool, wait group, status | |
| `RecomputeJobsProofs` | type correctness, once and complete, proved | `RecomputeJobs`, TLAPS |
| `MemeReaders` | search, random, export, delete-all, page by page beside uploads and deletions | |
| `MemeReadersProofs` | all safety properties of the sessions, proved | `MemeReaders`, TLAPS |
| `TempData` | operators: one temporary object, local and in the bucket | |
| `VideoExtract` | one extract pipeline: encoder, slices, models, duplicates, thumbnail, Close | `TempData` |
| `VideoExtractProofs` | slices, results and survival of failures, proved | `VideoExtract`, TLAPS |
| `AuthService` | operators: the authorization of a Telegram account | |
| `YouTubeDownload` | operators: the download behind a YouTube job | |
| `TelegramBot` | webhook, dispatcher, handlers, stop | `TempData`, `AuthService`, `YouTubeDownload` |
| `TelegramBotProofs` | type correctness, permissions and answers, proved | `TelegramBot`, TLAPS |
| `IndexMigrator` | replicas that migrate the index and serve | |
| `WebApp` | one page of the frontend and the requests it sends | |
| `MCServices` | `VideoExtract`, `TelegramBot`, `IndexMigrator` and `WebApp`, one of them in each behaviour | extends all four |
| `ServicesProofs` | the migrator, the page, and the four machines together, proved | `MCServices`, `TelegramBotProofs`, `VideoExtractProofs`, TLAPS |
| `MC...` | values of the constants for TLC | the module it names |

### MemeStore

`docs` is the index, `orig` and `thumbs` the bucket; each process (an RPC handler
or a recompute worker) has a program counter `pc`, which is the next remote call it
will make, and its locals `req`.  One action is one remote call with the code that
follows it up to the next one:

| action | code |
|---|---|
| `CreateMeme`, `UpdateMeme`, `RecomputeMeme`, `DeleteMeme` | a request starts and, except for a create, reads its document |
| `ReadOriginal`, `CheckDuplicateByHash`, `ExtractMedia` | the extract pipeline |
| `DropDuplicate` | `recomputeOne` deletes the duplicate's document |
| `PurgeOriginal`, `PurgeThumbnail`, `RemoveMetadata` | the deletions of `DeleteMeme`, `DeleteAll` and `recomputeOne`, each of which may fail after having worked |
| `PutOriginal`, `PutThumbnail`, `SaveMetadata` | `PipelineSave.Save` and the end of `UpdateMeme` |
| `Abort` | a step returns an error, or the service stops |

A document keeps its hash, whether its text was typed by a user, and the Edited
flag.  MD5 is taken to be injective, so a hash is a content: a file and how often
it was re-encoded.  A conversion changes the bytes, up to `MaxEncodings` times.
The embedding search and the LLM that confirms a duplicate may name any other
live meme or none.  Saves and deletions in the index wait for a refresh in the
code (`refresh: true`), so a query sees every earlier save.  A put into the
bucket that reports an error is taken to have stored nothing.

### VideoJobs and FfmpegJobs

`job` is the entity the client polls, `slots` the goroutines in the semaphore,
`object` what is in the temporary bucket.  In `VideoJobs`, `listed` is the job map
and `cleaner` the ticker's goroutine in the middle of its `Range`: it visits the
jobs one at a time, and closes the result and forgets the job in two steps, as the
code releases the lock in between.  `RunSync` is a call with `sync`: it is in no map
and leaves a timer.  In `FfmpegJobs`, `work` holds the locals of the job goroutine
(the outputs uploaded and not yet closed), `wake` the timer, `cached` the keys of
the cache.  Time is a counter that stops at `MaxTime`; timers fire at any time
after they are due.

### RecomputeJobs

`state`, `processed` and `errors` are the job a client polls, `page`, `cursor` and
`more` the locals of its goroutine, `sem` and `wg` the pool and the wait group.
`live` is the index, restricted to what the job's query finds: memes are uploaded
and deleted while the job runs, and a worker that indexes its copy brings back a
meme deleted meanwhile.  A worker records an error, then its meme, and its two
deferred calls run one after the other, so a slot is free before the wait group
knows.  `FetchFails` ends the job at once while its workers go on, as the code
does.

### MemeReaders

`MemeStore` has what requests do to memes; here are those that read many of them
with a cursor.  A `session` is a search of the webapp or of an inline query, an
export of an account or of all, a delete-all, a single deletion or a random draw;
its record holds the page in hand, the memes on it still `todo`, the sort key after
which the next page begins and, as history, how often each meme was `shown`, which
memes `stood` there all the while, and whether the index was `quiet`.  A page is a
set of memes: the answer of a query is any set the sort order allows as the next
`PageSize` (`Answers`), so that equal sort keys are served in any order.

| action | code |
|---|---|
| `Begin`, `QueryFails` | a request arrives, a query of it fails |
| `SearchPage` | `SearchService.Search`: id, hybrid and all-memes searcher, and the cursor that names the next |
| `ListPage`, `ExportPage`, `ExportOriginal`, `ExportThumbnail`, `ExportCallback` | `ExportService.Export` and its stream |
| `WipePage`, `PurgeOriginal`, `PurgeThumbnail`, `RemoveMetadata` | `DeleteAll` and `DeleteMeme` |
| `CountMemes`, `PickMeme` | `GetRandom`: count, then read at a random offset |
| `StoreBlobs`, `SaveMetadata` | an upload meanwhile |

### VideoExtract and TempData

One pipeline, from `Encode` to the `Close` of its context.  `run` is the context and
the step, `media` the slices with the call under way about each, `jobs` the jobs at
ffmpeg-service, `bucket` the temporary bucket, `faults` how often something failed.
`TempData` has the object of `common/temp`: content held by the process, an object
of the bucket, or both, and the `sync.Once` that upload and download share.

| action | code |
|---|---|
| `SubmitMain`, `PollMain`, `TimeoutMain` | the jobs that convert, probe and slice, and the client's deadline |
| `JobEnds`, `Expire`, `ExpireRest` | ffmpeg-service ends a job; its outputs expire |
| `SubmitFrame`, `PollFrame` | one frame of each slice, all in parallel |
| `Attempt`, `GiveUp` | one try at the model: inline, by URL or with a frame, by provider (`Provider`: the model that embeds and the one that extracts are configured apart) |
| `EmbedDone`, `CheckDuplicateImage`, `CheckDuplicate`, `CheckDuplicateVideo` | the errgroup is done; duplicates by embedding |
| `ExtractDone`, `CombineResults`, `ImageThumbnail`, `SaveMeme`, `ClosePipeline` | the rest of the pipeline, in order |
| `Cancel` | the caller goes away |

Slices are computed, not assumed: `SliceVideoWithOverlap` has the arithmetic of
`VideoSlicer.go` in units of a fraction of a second, the last slice that is shorter
than the overlap left out.

### TelegramBot, AuthService, YouTubeDownload

An update is posted, waits in the channel of `QueueSize`, and gets a handler of its
own; `handler` is the call each handler makes next.  `InvokeWithPermission` asks
auth-service (`AuthService` has the tables and the lookup), then come the handlers
of messages with a media or a document, YouTube links, text, `/start`, inline
queries and chosen results.  A YouTube link starts a job of youtube-service, polled
until it ends or is forgotten; `YouTubeDownload` gives the states its download may
go through.  `Stop` cancels the context of all handlers, then the server refuses
requests, then the process is down.  `broken` remembers which kinds of calls have
failed, and each kind may fail from then on.

### IndexMigrator

`content` is what the migrations tell apart in each document; `history` the last
migration recorded.  Each `replica` goes through: is there a history, create it,
read the last migration, send the request of the next one, wait, record it, serve.
The request (`task`) is a task of Elasticsearch and goes on document by document
(`UpdateByQuery`) when the replica that sent it has stopped; a document that
somebody else has written since is a version conflict, which fails the request.
A replica that serves may `Save` documents while others still migrate.

### WebApp

`page` is the store of the frontend and `requests` the requests under way, each
served in stages by the backend (`SearchMemes`; `GetUploadUrl`, `UploadToS3Post`,
`ParseByToken`; `ServeUpdate`, `ServeDelete`; `StartRecomputeJobById`, `PollRecompute`,
`GetRecomputed`) and then delivered to the page in any order (`Deliver`) or lost.
`version` is what storage-service has of each meme, so a grid that shows an old
version is told from one that does not; of each meme the grid has the versions it is
shown in, so that one shown twice is told too.

A page of a search is the memes that rank highest below the cursor (`SearchMeme`,
`NextPage`).  The empty query ranks memes by their creation, and so do their numbers
(`ByCreation`).  A text query ranks them by a score and the id (`SearchHybridOrderByScore`),
and the score depends on all that is indexed: `Rankings` has the orders a query may
give, `ranking` the one of the last search.  As long as nothing is indexed the pages of a
query are read in one order; after an upload, edit, deletion or recompute a text query
may rank the memes in any other way, also a new one below the cursor.  `drift` records
that: the index changed since the first page of the text query on the screen
("reordered"), and a later page was read after that ("mixed").

`conflict` records that requests were under way together which the frontend does not
keep apart: a search beside anything but a load, two about one meme, one whose effect
was not answered.

### MCServices

The four machines share no state, so a behaviour of the module is a behaviour of one
of them, chosen in the initial state; the others rest.  This makes their state
spaces add up instead of multiply.

## 3. What is checked

| run | instance | shows |
|---|---|---|
| `MemeStore_concurrent` | 2 memes, 1 file, 2 processes, every operation, faults; recompute without duplicate check | `TypeOK`, `BlobsBehindDocuments`, `ManualTextIsMarkedEdited` |
| `MemeStore_serial` | 2 memes, 2 files, 1 process, every operation, duplicate checks, faults | `ManualTextSurvives`, `StoredOnce` |
| `MemeStore_cleanup` | 3 memes, 2 files, 3 processes, create, delete and wipe, no faults | `StoresAgreeWhenIdle` |
| `VideoJobs` | 2 calls, 1 slot, retentions never, default and short, failing deletions, fairness | `TypeOK`, `KeptWhileRetained`, `OrphansAreLate`, `ImplementsLifecycle`, `EveryCallEnds`, `ObjectsAreReleased` |
| `FfmpegJobs` | 2 jobs, 1 slot, up to 2 outputs, a cache of 1, failing deletions, fairness | `TypeOK`, `OutputsComplete`, `FailedJobsLeaveNothing`, `ImplementsLifecycle`, `EveryJobEnds`, `OutputsAreReleased` |
| `RecomputeJobs` | 3 memes, pages of 2, 2 workers, failing queries, fairness | `TypeOK`, `AtMostOnce`, `DoneMeansAll`, `JobEnds` |
| `MemeReaders` | 4 memes of 2 accounts, pages of 1, a reading and a deleting session, an upload, faults, fairness | `TypeOK`, `ListedOnce`, `NoneLeftOut`, `SearchIsExact`, `BrokenByDeletion`, `RandomFinds`, `EverySessionEnds` |
| `Services` | one of four machines (below), faults and crashes, fairness | `TypesOK`; pipeline: `SlicesCoverVideo`, `ResultsMatchSlices`, `SurvivesTransientFailures`, `EndsReleased`; bot: `OnlyPermitted`, `RepliesTellTruth`, `UpdatesEnd`; migrations: `NoEmbeddingLost`; page: `ShowsCurrentQuery`, `PageSettles` |

Four runs find a disagreement between the code and what it says of itself:

| run | property violated | what happens |
|---|---|---|
| `MemeStore_stale_copy` | `ManualTextSurvives` | a recompute worker indexes a copy older than a user's edit |
| `MemeStore_wrong_blobs` | `BlobsBehindDocuments` | after dropping a duplicate, recompute deletes its own meme's blobs |
| `VideoJobs_orphan` | `NoOrphans` | a download that outlives its retention leaves an object nobody deletes |
| `FfmpegJobs_expiry` | `RetainedJobsReachable` | the cache forgets jobs that are kept for longer than the default |

`StoredOnce` is checked where requests do not overlap and speaks of documents that
carry the hash of an upload.  Both limits are the code's.  `CreateMeme` looks the
hash up long before it indexes the document (`MemeCrudService.go:74` and `:109`),
so overlapping uploads of the same bytes are both stored; and a recompute replaces
the hash of the uploaded bytes by that of the stored conversion
(`RecomputeService.go:263`), so that the same bytes come in again unless the
embedding search recognises them.  No text of the repository promises otherwise
for these cases.

`ManualTextSurvives` holds of requests that do not overlap; `MemeStore_stale_copy`
shows what an overlap does.  `StoresAgreeWhenIdle` is about runs without faults: a
crash after a blob was stored, or a deletion that `DeleteAll` ignores, leaves
blobs nobody sweeps.

`ManualTextSurvives` is about text that is marked as edited: its document keeps the mark
and the text until a recompute told to include edited memes handles it, whatever the
sixteen combinations of options ask for.  It does not say what becomes of text whose mark
such a recompute cleared: with the extractor off, `recomputeOne` keeps the text and drops
the mark (`RecomputeService.go:260`), and the next recompute may replace it, told to
include edited memes or not.

Some properties say what they except, because the code does no better and promises
no more:

* `NoneLeftOut` excepts a meme with the same creation time as one that was handled.
  Walks of an account sort by the creation time alone and continue after the last one
  (`MetadataStorageService.go:191`), so of two equal ones at the edge of a page the
  second is skipped.
* `ObjectsAreReleased` and `OutputsAreReleased` say that the deletion of each overdue
  object is attempted, not that it succeeds.  One that the bucket refuses is "stuck": the
  cleaner closes the result, which only logs the error, and forgets the job
  (`VideoJobService.go:145-149`); a timer closes the outputs once
  (`FfmpegJobService.go:185-189`).  Nobody tries again, and the object stays for ever.
  Nor do they count the objects of jobs that finished too late for the cleaner
  (`VideoJobs_orphan`).
* `EndsReleased` excepts the video the pipeline uploaded when its size cannot be found:
  `MediaEncoderService.go:114` returns without it, and no context owns it yet.
* `ShowsCurrentQuery` is about requests that were not in conflict, and `conflict`
  records when they are: a search beside another request other than a search that
  replaces it; two requests about one meme; a request that had an effect but no
  answer; a first page that is read after an upload was shown.  The frontend has no
  protection there.  `loadMore` writes back the memes it took before its request
  (`mediaStore.ts:47`), so an edit or deletion answered meanwhile is undone on the
  screen; and a recompute that runs beside an edit shows what it read last.
  Without any conflict it excepts a text query that is read on after the index has
  changed ("mixed"): the next page begins at a score and an id, on whose other side the
  change may have moved a meme, so that one may be shown twice and another left out.
  That no copy is stale, deleted or of another query holds there too.  Only one
  page is modelled: what another tab does is not shown until the next load.
* `RepliesTellTruth` excepts a process that has been told to stop and calls that fail;
  a failure of auth-service reads as "forbidden".

Noticed on the way, and in the models as the code has it: `PermissionService.go:16-19`
says that every resolved user that is not blocked may search, while `IsAllowed` allows
a search without asking auth-service at all.  The branch of `RandomQueryProcessor` for
a random meme that is nil cannot be reached, as storage-service answers NotFound for an
empty library; `/random` then is not answered.  The refusal of an inline query is not
marked personal, the results are (`InlineHandlerService.go:124`).

**Bounds.**  Two processes are enough for every check-then-act and stale-copy
interleaving, as those pair one reader with one writer; the run of three adds a
deletion and a wipe of the same meme beside an upload.  Two memes give a meme and
its duplicate; in the cleanup run the third lets one be deleted and its file stored
again.  `MaxEncodings` of 1 tells an upload from a conversion.  Two jobs and one slot make one job
wait for the other; `MaxTime` leaves room for the default retention, a tick after
it, and a job that is late; calls come at time 0 (`LastSubmit`), as only the time
since a call matters and the second may wait for the first.  Three memes and
pages of two give a full page, a short one, and a meme that comes before or after
the cursor.  Deleted ids are not handed out again, so a run ends
when they are used up; the requests that find nothing (`MemeNotFound`), the clock
and the rest of a finished system (`Rest`) keep these systems going.  Only the run
`Services` turns the deadlock check off: a pipeline is done, a bot is down, all
replicas serve, a user has stopped clicking.
Symmetry over memes, files and processes is used for the safety runs of
`MemeStore` only.


In `MemeReaders`, pages of one put every meme at the edge of a page; of four memes
one belongs to another account, one is uploaded meanwhile, and two may get the same
creation time.  The two sessions are one that reads and one that deletes, as walks do
not change what other walks see.

In `Services`: a video of 11 units with slices of 8 that overlap by 4 gives two
slices, one of them shortened, and one of 1 unit rounds to no second; all four
combinations of the providers are in it; two attempts and
two faults let a call fail once, fail for good, and fail beside another; `Share` of 60
percent makes one duplicate slice of two too few.  Two updates in a channel of one
make the webhook wait; the first takes every form, the second comes beside it; two
faults let one call fail and another one deny it.  Two polls tell a job that ends in
time from one that does not, and one poll within the write timeout an answer that is
late.  Two documents, of the two contents the old versions left, two replicas and one
crash give a request left behind by its replica that conflicts with that of the other.
Three memes in pages of one, two requests at a time and four clicks or failures give
a load beside a load, and a change beside each.  Two queries, one that lists by creation
and one that ranks by a score with three rankings to choose from, give pages read in one
order, in another after a change, and a meme moved across the cursor.  All of these are constants; no
definition is replaced by a configuration.

**Options of recompute.**  `MemeStore_serial` has all sixteen combinations.
`ManualTextIsMarkedEdited` is checked (`MemeStore_concurrent`) for options that include
edited memes only together with the extractor, which is what the webapp sends.  The API
of storage-service accepts the others too: with the extractor off, `recomputeOne` clears
the mark of text it keeps (`RecomputeService.go:260`), and the property does not hold.

**Fairness.**  Weak fairness of every goroutine's next step and of timers: the Go
scheduler runs every runnable goroutine, and a channel serves its blocked senders
in order, so a free slot reaches the job that waits.  Weak fairness of the end of
a download (the downloader polls at most 100 times) and of an ffmpeg run (the
process is taken to end).  Weak fairness of the clock.  In `RecomputeJobs`,
weak fairness of the job's goroutine and of each worker: its calls return, with
or without an error.  No fairness of calls, nor of the success of a download, nor
of uploads and deletions.
In `MemeReaders`, weak fairness of each session that has begun: its calls return.  In
`Services`, weak fairness of the step of the pipeline, of the handlers and the
dispatcher, and of the requests of the page (`Step` of each machine), and, apart from
it, that an ffmpeg job ends and its outputs expire, the time of their service going on
whether the pipeline does or not.  Nothing is assumed of a recompute job the page
polls, nor of users, uploads or replicas.

## 4. What is proved

`MemeStoreProofs`, for all values of the constants that satisfy
`ConstantsAssumption` and `NoneIsNoDoc`:

* `TypeCorrect`: `Spec => []TypeOK`.  `TypeOK` is not inductive: a process about
  to save must hold a document, one about to put an original must hold bytes.
  `LocalOK(label, r)` says what the locals must be at each label; `TypeInv` is
  `TypeOK` with `LocalOK` for every process, and is preserved by every action.
* `BlobsStayBehindDocuments`: if no option checks for duplicates (`NoDedupe`),
  `Spec => []BlobsBehindDocuments`.  The assumption is necessary: the run
  `MemeStore_wrong_blobs` violates the property with it dropped.  The inductive
  invariant `BlobInv` adds that every process that deletes has its meme doomed,
  that every process past an upload has stored the blob (unless doomed), and that
  the id of an unfinished create is no other process's and in no document.
* `ManualTextStaysMarked`: if options that include edited memes also extract
  (`ExtractsWhatItIncludes`, what the webapp sends; see "Options of recompute"),
  `Spec => []ManualTextIsMarkedEdited`, for any number of overlapping requests.
  Copies are indexed long after they were read, so `TextInv` says the same of the copy
  each request holds, and that a recompute that has not extracted yet holds an edited
  copy only if it was told to include such.
* `SerialUploadsStoredOnce` and `SerialManualTextSurvives`: `StoredOnce` and
  `ManualTextSurvives` where requests do not overlap (`Serial`: there is one process)
  and an upload can be told from its conversion (`TellsConversions`), for any options
  of recompute.  Both limits are the code's (section 3), and so is what
  `ManualTextSurvives` leaves out: text whose mark a recompute has cleared.  `SerialInv` ties the one request to the index it looked into:
  a create past its hash lookup has bytes no document carries, an update writes the hash
  and the text of the document that is there, a recompute has an edited document only
  if told to; what a recompute hashes is a stored conversion, which is no upload.
* `StoresAgree`: for creates, deletions and wipes without faults
  (`CreatesAndDeletesOnly`, the ones of `MemeStore_cleanup`), any number of them at a
  time, `Spec => []StoresAgreeWhenIdle`.  The property says nothing of states in which
  a request is under way; `AgreeInv` does: what one store holds of a meme and another
  does not is the unfinished work of a create that alone has the id, or of a deletion
  whose meme no save will bring back.

`VideoJobsProofs`, for all values of the constants that satisfy
`ConstantsAssumption`, any set of calls, finite or not:

* `VideoTypeCorrect`: `Spec => []TypeOK`, which is inductive.
* `VideoJobsImplementLifecycle`: `Spec => ImplementsLifecycle`.  The lifecycle
  bounds the running jobs, the code the slots taken; the inductive invariant
  `SlotInv` ties them together: the slots are finitely many and every running job
  holds one.  Each step of the service is then one of the lifecycle or leaves every
  status as it was.
* `VideosAreKeptWhileRetained` and `VideoOrphansAreLate`: `Spec => []KeptWhileRetained`
  and `Spec => []OrphansAreLate`.  `RetentionInv` says of each job when it may have left
  the map (`ListInv`) and its object the bucket (`ObjectInv`): only once its time is
  over, in the middle of the cleaner's two steps too (`CleanerInv`), or by the timer of
  a sync call; and an object that is stored while nobody looks after it was stored
  after the cleaner's last visit.

`FfmpegJobsProofs`, for all values of the constants that satisfy
`ConstantsAssumption`: `FfmpegTypeCorrect`, `OutputsStayComplete`,
`FailuresLeaveNothing` and `FfmpegJobsImplementLifecycle`.  One invariant,
`FfmpegInv`, carries them all.  It says of each job: while it uploads, the outputs
uploaded are the first ones (`UploadOK`); its state follows its goroutine, and a
running one holds a slot (`StateOK`); what is stored is what the goroutine or the
timer still holds, so nothing after an error and everything before the timer
(`OutputOK`); the timer counts from the end of the job (`TimerOK`).  The bound on the
running jobs follows as in `VideoJobsProofs`.

`RecomputeJobsProofs`, for any set of memes, page size and pool that satisfy its
assumption: `RecomputeTypeCorrect`, `RecomputedAtMostOnce` and `DoneHasAll`.  The
invariant `RecomputeInv` says that a meme on the page was not handed to a worker yet and
is recorded by one worker only (`CountedOnce`), that what is on the page or was handed
out is not past the cursor (`CursorInv`), that every meme that stayed and is not past
the cursor is on the page or was handed out (`CoverInv`), and that a job that is done
has nothing left (`DoneInv`).  That a page is a
prefix of what comes after the cursor is the lemma `PageIsPrefix`.

`MemeReadersProofs`, for any memes, accounts, page size and number of sessions that
satisfy the assumptions of `MemeReaders`: `TypesHold`, `MemesAreListedOnce`,
`MemesAreNotLeftOut`, `ExportsBreakAtDeletions`, `RandomMemeIsFound` and
`SearchFindsAll`.  None of these properties is inductive, since a session is in the
middle of a page most of the time.  `ReadersInv` says of each session, as predicates of
its record and of the index: a meme on its page lost blobs only to a deletion
(`BlobsKept`); what stood from its start is there or was handled (`StoodThere`); a walk
has handled what comes before its key, and what comes after it is on the page or still
to come (`Walked`); a random draw counted what is there (`Drawn`); a search has handled
the hits down to its key, and its cursor names the searcher that goes on (`Found`), the
last three as long as nobody changes the index.  The lemmas about the answer of a query
(`PageFacts`, `OneFieldPage`, `NextPage`, `SearchRanked`) say that any page the sort
order allows continues where the key points, whatever order equal keys are served in.

`TelegramBotProofs`, for any updates, users and faults: `TypesHold` and
`BotDoesOnlyPermitted` if the rows of `integration_telegram` have an order
(`RowsAreOrdered`: they are read in the order of their ids) and the bounds are numbers
(`BoundsAreNaturals`); `BotTellsTruth` if, besides, no Telegram account is in two rows
(`AccountsLinkedOnce`).  auth-service answers with the first row that has the account,
so with two rows "forbidden" could be said of what the other user may do; the schema
does not exclude it, the service only reads these tables, and the instance TLC checks
has no such account.  `BotInv` says of each update: which forms lead to which step
(`FormInv`); that no step with an effect is reached without the permission, and no
effect exists without it (`PermitInv`); what the answer prepared says of the meme
(`AnswerInv`) and of the permission (`ForbiddenInv`); that the chat holds what was
answered, once (`ChatInv`); that a temporary object is with a handler that will delete
it (`TmpInv`); and of the channel that it holds each waiting update once (`QueueInv`).

`VideoExtractProofs`, for any durations, slice interval, overlap, providers, number of
attempts and number of failures that satisfy `ExtractAssumption`: `ExtractTypes`,
`VideosAreCovered`, `ResultsAreComplete` and `TransientFailuresAreSurvived`.  The slices
are numbered from 1 without a gap (`SlicesNumbered`, by the least number that is none),
each moment is in the last slice that starts before it (`SlicesCover`), and rounding to
seconds keeps both (`SliceTimes`).  `OrderInv` says of the results that came, and of the
embeddings, that they enumerate the slices done, each once and in any order; sorting an
enumeration of `1 .. n` gives `1 .. n` (`SortedBySlice`, by counting).  For the failures
the invariant has to say where everything is: `SoundInv` states that as long as nothing
went wrong that the code does not retry (`Clean`), what is still needed can be read,
from memory or from the bucket, the video is located once a job has read it, and a call
that was tried n times was failed n times by the model.  A failed pipeline is then
`Excused`.

`ServicesProofs`, of `IndexMigrator`, for any documents, replicas and number of crashes:
`MigratorInvariant` and `NoLoss`, that is `Spec => []NoEmbeddingLost`.  That property
is not inductive; `MigratorInv` adds what stands behind the record of a migration, a
replica's next one (`ReplicaInv`) and a request under way (`TaskInv`): each has
brought every document, or all it does not still have to visit, to where it should be.
What one migration reached the others keep, and a document that has it is left alone,
which is why running one again does no harm.

`ServicesProofs`, of `WebApp`, for any memes, queries, page size, polls and number of
requests that satisfy `WebAssumption` (memes are positive numbers and finitely many, no
ranking puts two hits in one place, and that of a query by creation is the order of the
numbers): `WebTypes`, and `GridShowsQuery`, that is
`WebSpec => []ShowsCurrentQuery`.  The property looks at the grid while requests are
under way, and each of them will change it, so `WebInv` says what each may rely on.
Without a conflict requests keep to themselves (`Apart`): a search is alone, no two
requests are about one meme, and a recompute job that runs has a request that polls it.
The answer of a load or of the next page is the page storage-service would still give,
and is added to what was taken from the store (`LoadOK`, `MoreOK`); an upload, edit,
deletion or recompute knows of its meme what the grid shows of it and whether its call
has had its effect (`UploadOK`, `UpdateOK`, `DeleteOK`, `RecomputeOK`).  What is shown
of a meme no request is about is right (`ShownRight`): once, as stored, not beyond the
cursor, and nothing down to the cursor is left out.  What of this speaks of the order
holds as long as the pages were read in one (`drift`): once the index has changed under a
text query a meme may stand beyond the cursor, and once that query is read on it may be
there twice; `CursorRight` and `MoreOK` say which of the two a state is in.  That a page added below the cursor
keeps this is `AnswerShows`: a page is full down to its last meme (`PageIsFull`, by
counting), its last meme is the next cursor (`NextIsLast`), and it is empty only if
nothing is left (`EmptyPage`, by the least count).  A conflict ends all of this until a
fresh load: `TypedInv`, which holds even then, says that a load under way is the one in
the controller, so that a load leaves no other behind.

`ServicesProofs`, of the machines together: `MachinesAreTheirSpecs`, each of the four is
as specified whichever of them runs, so that what is proved of each holds of the run
`Services` for every value of the constants (`AllTypesHold`, `PromisesAreKept`), under
the hypotheses on the bot's tables stated above.

The inductive invariants of these proofs were checked by TLC on the instances of the
runs before they were proved.

Every safety property of the passing runs is proved.  Only model-checked: liveness under
fairness (`EveryCallEnds`, `ObjectsAreReleased`,
`EveryJobEnds`, `OutputsAreReleased`, `JobEnds`, `EverySessionEnds`, `EndsReleased`,
`UpdatesEnd`, `PageSettles`), which is out of the prover's reach.

## 5. Not modelled, and the plan

* auth-service: the web login (webapp-basic) and `GetUser`, which no service calls,
  and the SQL migrations.
* telegram-service: the layout of results and the encoding of page offsets.
* webapp frontend: drafts, selection, the page of a single meme (`getById`), replacing
  a meme's media, layout; backend: configuration and the signature of upload tokens.
* common: concurrent calls on one temporary object (`S3WrappedData.Close` beside a
  reader); in the code modelled one goroutine at a time has it.
* storage-service: presigned URLs, the creation of the bucket and of the index, the
  cache of recompute jobs, `WaitForJob`, which nothing calls; prompts, the parsing of
  the models' answers, image libraries.
* ffmpeg-service: command lines and local files.
* Wiring, configuration, logging, generated code and deployment.

What would come next: the codec of page offsets, and the drafts of the meme dialog.
