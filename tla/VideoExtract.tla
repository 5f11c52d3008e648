----------------------------- MODULE VideoExtract -----------------------------
(****************************************************************************)
(* The extract pipeline of one meme, from the encoder to the Close of its   *)
(* context: the jobs it gives to ffmpeg-service, the slices of a video that *)
(* are embedded and described in parallel by a language model, with         *)
(* retries, and the temporary objects all this leaves in the bucket.        *)
(* Durations are in fractions of a second.                                  *)
(****************************************************************************)
EXTENDS Integers, Sequences, FiniteSets, Functions, TempData

CONSTANTS
  Second,      \* units of time in a second
  Interval,    \* VideoSliceIntervalSec
  Overlap,     \* videoSliceOverlap, less than the interval
  Durations,   \* of videos
  MaxSlices,   \* bound: slices of a video
  Providers,   \* whose models are configured: gemini, openrouter
  Attempts,    \* retryAttempt
  Share,       \* PercentageDuplicatePartsThreshold, in percent
  ExtractFaults    \* bound: failures of any kind

VARIABLES
  run,       \* the pipeline: its step, input and outcome
  mp4,       \* VideoMp4, for an image ImageOriginalJpeg
  media,     \* VideoSlices, for an image the image itself, and the call about each
  embedded,  \* the slices whose embeddings are in the context, as they came
  results,   \* the slices whose results are in the context
  jobs,      \* ffmpeg jobs
  bucket,    \* the temporary bucket
  faults     \* history: how often something failed

extractVars == <<run, mp4, media, embedded, results, jobs, bucket, faults>>

-----------------------------------------------------------------------------
(* Slices *)

StartOf(i) == (i - 1) * (Interval - Overlap)

\* A slice starts every step, but for a tail the slice before has in its overlap.
Shorter(s, total, length) == total - s < length /\ s > 0

\* Mutant of Slices: a tail shorter than the interval is left out.
FullSlices(total) ==
  {i \in 1 .. total : StartOf(i) < total /\ ~Shorter(StartOf(i), total, Interval)}

Slices(total) ==
  {i \in 1 .. total : StartOf(i) < total /\ ~Shorter(StartOf(i), total, Overlap)}

SliceEnd(s, total) == IF s + Interval > total THEN total ELSE s + Interval

\* The times reported are whole seconds.
SliceOf(s, i, total) ==
  [from |-> s, to |-> SliceEnd(s, total),
   startTime |-> s \div Second, endTime |-> SliceEnd(s, total) \div Second,
   data |-> Wrapped(<<"slice", i>>), frame |-> FromPath(<<"frame", i>>),
   state |-> "todo", tries |-> 0]

SliceVideoWithOverlap(total) == [i \in Slices(total) |-> SliceOf(StartOf(i), i, total)]

\* The one part of an image; `frame` is the image it may be a duplicate of.
ImagePart == [SliceOf(0, 1, 0) EXCEPT !.data = WrappedLocal, !.frame = FromPath(<<"stored", 0>>)]

\* The interval is greater than the overlap (VideoSlicer.go:26), something is tried at least
\* once, at a model that is known; the bound has room for the slices of every video.
ASSUME ExtractAssumption ==
  /\ Second \in Nat \ {0} /\ Overlap \in Nat /\ Interval \in Nat /\ Overlap < Interval
  /\ Durations \subseteq Nat /\ Attempts \in Nat \ {0}
  /\ Providers \subseteq {"gemini", "openrouter"}
  /\ MaxSlices \in Nat /\ \A total \in {0} \cup Durations : Slices(total) \subseteq 1 .. MaxSlices

-----------------------------------------------------------------------------
Fault == {"llm", "get", "put", "delete", "index", "job", "timeout", "expiry", "cancel"}

\* A job is named by what it makes; one frame is taken of each slice.
MainJob == {<<"convert", 0>>, <<"size", 0>>, <<"slice", 0>>, <<"thumb", 0>>}
Job == MainJob \cup {<<"frame", i>> : i \in 1 .. MaxSlices}

ExtractInit ==
  /\ run = [step |-> "idle", type |-> "image", embedder |-> "gemini", extractor |-> "gemini",
            duration |-> 0, cancelled |-> FALSE, kept |-> FALSE, tries |-> 0, outcome |-> "none", left |-> {}]
  /\ mp4 = WrappedLocal /\ media = <<>> /\ embedded = <<>> /\ results = <<>>
  /\ jobs = [j \in Job |-> "none"] /\ bucket = {}
  /\ faults = [k \in Fault |-> 0]

Outputs(j) ==
  IF j = <<"slice", 0>> THEN {<<"slice", i>> : i \in Slices(run.duration)}
  ELSE {j}

-----------------------------------------------------------------------------
(* Faults, and access to temporary data *)

Injected == faults["llm"] + faults["get"] + faults["put"] + faults["delete"] + faults["index"]
              + faults["job"] + faults["timeout"] + faults["expiry"] + faults["cancel"]
Succeeds(fault) == IF Injected < ExtractFaults THEN BOOLEAN ELSE {TRUE}
Blame(failed) == faults' = [k \in Fault |-> IF k \in failed THEN faults[k] + 1 ELSE faults[k]]
Failing(kind, ok) == IF ok THEN {} ELSE {kind}

\* Downloads do not use the context of the request, uploads do.
Present(d) == d.path \in bucket \cup {<<"stored", 0>>}
Get(d) == IF ~NeedsDownload(d) THEN {TRUE}
          ELSE IF Present(d) THEN Succeeds("get") ELSE {FALSE}
\* An object that is not there is no fault of the download.
Unread(d, get) == IF Present(d) THEN Failing("get", get) ELSE {}
Put(w) == IF ~NeedsUpload(w.outer) THEN {TRUE}
          ELSE IF run.cancelled THEN {FALSE} ELSE Succeeds("put")

Uploaded(w) == Deletes(w.outer)

Advance(next) == run' = [run EXCEPT !.step = next, !.tries = 0]
Fail == run' = [run EXCEPT !.step = "close", !.outcome = "failed"]

-----------------------------------------------------------------------------
(* The ffmpeg client *)

\* (the models that embed and that extract are configured apart)
Begin(type, embedder, extractor, duration) ==
  /\ run.step = "idle"
  /\ type = "image" => duration = 0
  /\ run' = [run EXCEPT !.step = IF type = "image" THEN "embed" ELSE "convert", !.type = type,
                        !.embedder = embedder, !.extractor = extractor, !.duration = duration,
                        !.kept = type = "image"]
  /\ media' = IF type = "image" THEN <<[ImagePart EXCEPT !.state = "call"]>> ELSE <<>>
  /\ UNCHANGED <<mp4, embedded, results, jobs, bucket, faults>>

\* Only for a video is there a job to wait for.
Waiting(j) == j \in MainJob /\ run.step = j[1] /\ run.type = "video"

Input(j) == IF j[1] = "frame" THEN media[j[2]].data ELSE mp4

\* resolveInput takes the path of the input, uploading it first if need be ...
SubmitMain(j) ==
  /\ Waiting(j) /\ jobs[j] = "none"
  /\ \E get \in Get(mp4.inner), put \in Put(mp4), ok \in Succeeds("job") :
       LET located == IF j[1] = "convert" THEN mp4 ELSE Locate(mp4, <<"mp4", 0>>, get, put)
           sent == (j[1] = "convert" \/ Located(located.outer)) /\ ok /\ ~run.cancelled
       IN /\ j[1] = "convert" => get /\ put
          /\ mp4' = located
          /\ bucket' = bucket \cup Uploaded(located)
          /\ IF sent THEN jobs' = [jobs EXCEPT ![j] = "running"] /\ UNCHANGED run
             ELSE Fail /\ UNCHANGED jobs
          /\ Blame(Unread(mp4.inner, get) \cup Failing("put", put) \cup Failing("job", ok))
  /\ UNCHANGED <<media, embedded, results>>

\* ffmpeg-service answers for a job as long as it knows it.
GetJobStatus(j) == IF jobs[j] = "gone" THEN "notFound" ELSE jobs[j]

\* ... and pollJob waits for the job to end, for the context or for the deadline.
Answered(j) == GetJobStatus(j) \in {"done", "failed", "notFound"} \/ run.cancelled
Succeeded(j) == GetJobStatus(j) = "done" /\ ~run.cancelled

Timeout(j) == jobs[j] = "running" /\ ~run.cancelled /\ Injected < ExtractFaults

\* The frame taken for the size or the thumbnail is read at once and never closed.
PollMain(j) ==
  /\ Waiting(j) /\ Answered(j)
  /\ \E get \in IF j[1] \in {"size", "thumb"} /\ Succeeded(j) THEN Get(FromPath(j)) ELSE {TRUE} :
       LET ok == Succeeded(j) /\ get IN
       /\ Blame(Unread(FromPath(j), get))
       /\ CASE ~ok -> Fail
            [] ok /\ j[1] = "convert" -> Advance("size")
            [] ok /\ j[1] = "size" -> run' = [run EXCEPT !.step = "slice", !.kept = TRUE]
            [] ok /\ j[1] = "slice" -> Advance("embed")
            [] ok /\ j[1] = "thumb" -> Advance("save")
       /\ mp4' = IF ok /\ j[1] = "convert" THEN Wrapped(j) ELSE mp4
       /\ media' = IF ok /\ j[1] = "slice"
                     THEN LET first == IF run.embedder = "gemini" THEN "call" ELSE "todo" IN
                          [i \in DOMAIN SliceVideoWithOverlap(run.duration) |->
                             [SliceVideoWithOverlap(run.duration)[i] EXCEPT !.state = first]]
                     ELSE media
  /\ UNCHANGED <<embedded, results, jobs, bucket>>

TimeoutMain(j) ==
  /\ Waiting(j) /\ Timeout(j)
  /\ Fail /\ Blame({"timeout"})
  /\ UNCHANGED <<mp4, media, embedded, results, jobs, bucket>>

\* ffmpeg-service: a job ends; its outputs are deleted some time later.
JobEnds(j) ==
  /\ jobs[j] = "running"
  /\ LET there == j[1] = "convert" \/ Uploaded(Input(j)) \subseteq bucket IN
     \E ok \in IF there THEN Succeeds("job") ELSE BOOLEAN :
       /\ jobs' = [jobs EXCEPT ![j] = IF ok THEN "done" ELSE "failed"]
       /\ bucket' = IF ok THEN bucket \cup Outputs(j) ELSE bucket
       /\ Blame(IF there THEN Failing("job", ok) ELSE {})
  /\ UNCHANGED <<run, mp4, media, embedded, results>>

Expire(j) ==
  /\ jobs[j] = "done" /\ run.step # "done" /\ Injected < ExtractFaults
  /\ jobs' = [jobs EXCEPT ![j] = "gone"]
  /\ bucket' = bucket \ Outputs(j)
  /\ Blame({"expiry"})
  /\ UNCHANGED <<run, mp4, media, embedded, results>>

\* (in whatever order, once nobody reads them any more)
ExpireRest ==
  LET done == {j \in Job : jobs[j] = "done"} IN
  /\ done # {} /\ run.step = "done"
  /\ jobs' = [j \in Job |-> IF j \in done THEN "gone" ELSE jobs[j]]
  /\ bucket' = bucket \ UNION {Outputs(j) : j \in done}
  /\ UNCHANGED <<run, mp4, media, embedded, results, faults>>

\* The client that waits for the meme goes away.
Cancel ==
  /\ run.step \notin {"idle", "done"} /\ ~run.cancelled /\ Injected < ExtractFaults
  /\ run' = [run EXCEPT !.cancelled = TRUE]
  /\ Blame({"cancel"})
  /\ UNCHANGED <<mp4, media, embedded, results, jobs, bucket>>


-----------------------------------------------------------------------------
(* Calls of the model.  An action is one attempt, with the access to the    *)
(* data it begins with                                                      *)

Parallel == {"embed", "extract"}
Calling(i) == /\ i \in DOMAIN media /\ media[i].state = "call"
              /\ run.step \in Parallel \cup {"check"}

\* The provider whose model is called.
Provider == IF run.step = "embed" THEN run.embedder ELSE run.extractor

Framed == run.type = "video" /\ run.embedder = "openrouter" /\ run.step = "embed"

\* OpenRouterEmbedder embeds a frame of the slice; that it gets one is not retried.
SubmitFrame(i) ==
  /\ Framed /\ i \in DOMAIN media /\ media[i].state = "todo"
  /\ \E get \in Get(media[i].data.inner), put \in Put(media[i].data), ok \in Succeeds("job") :
       LET located == Locate(media[i].data, <<"upload", i>>, get, put)
           sent == Located(located.outer) /\ ok /\ ~run.cancelled
       IN /\ media' = [media EXCEPT ![i].data = located,
                                   ![i].state = IF sent THEN "frame" ELSE "failed"]
          /\ bucket' = bucket \cup Uploaded(located)
          /\ jobs' = IF sent THEN [jobs EXCEPT ![<<"frame", i>>] = "running"] ELSE jobs
          /\ Blame(Unread(media[i].data.inner, get) \cup Failing("put", put)
                     \cup Failing("job", ok))
  /\ UNCHANGED <<run, mp4, embedded, results>>

PollFrame(i) ==
  /\ i \in DOMAIN media /\ media[i].state = "frame"
  /\ \/ /\ Answered(<<"frame", i>>)
        /\ media' = [media EXCEPT ![i].state = IF Succeeded(<<"frame", i>>) THEN "call" ELSE "failed"]
        /\ UNCHANGED faults
     \/ /\ Timeout(<<"frame", i>>)
        /\ media' = [media EXCEPT ![i].state = "failed"]
        /\ Blame({"timeout"})
  /\ UNCHANGED <<run, mp4, embedded, results, jobs, bucket>>

\* What the model is given: the frame, the content of the part inline, or a URL of it,
\* and inline after all if there is no URL.
Inline(part, get) ==
  IF Framed THEN [part EXCEPT !.frame = ResolveDownload(@, get)]
  ELSE [part EXCEPT !.data = Fetch(@, get)]
ByUrl(part, i, get, put) == [part EXCEPT !.data = Locate(@, <<"upload", i>>, get, put)]
Given(part) == IF Framed THEN Readable(part.frame)
               ELSE Located(part.data.outer) \/ Readable(part.data.inner)

Prepared(i, get, put) == IF Provider = "gemini" THEN ByUrl(media[i], i, get, put)
                         ELSE Inline(media[i], get)
Source(i) == IF Framed THEN media[i].frame ELSE media[i].data.inner
Downloads(i) == IF Provider = "gemini" /\ ~NeedsUpload(media[i].data.outer)
                  THEN {TRUE} ELSE Get(Source(i))
PutFor(i) == IF Provider = "gemini" THEN Put(media[i].data) ELSE {TRUE}

\* The frame is closed when the embedding of the slice is done.
Frame(i, state) == IF Framed /\ state # "call" THEN Deletes(media[i].frame) ELSE {}

\* Mutant of Retried: an attempt is not repeated.
NotRetried(tries) == "failed"

\* Mutant of Retried: one attempt too many.
RetriedTooOften(tries) == IF tries <= Attempts THEN "call" ELSE "failed"

\* ConnectorWrapper.Do
Retried(tries) == IF tries < Attempts THEN "call" ELSE "failed"

Attempt(i) ==
  /\ Calling(i) /\ run.step \in Parallel /\ ~run.cancelled
  /\ \E get \in Downloads(i), put \in PutFor(i), llm \in Succeeds("llm"), kept \in
           IF Framed THEN Succeeds("delete") ELSE {TRUE} :
       LET part == Prepared(i, get, put)
           ok == Given(part) /\ llm
           state == IF ok THEN "ok" ELSE Retried(part.tries + 1)
       IN /\ media' = [media EXCEPT ![i] = [part EXCEPT !.tries = @ + 1, !.state = state]]
          /\ bucket' = (bucket \cup Uploaded(part.data)) \ (IF kept THEN Frame(i, state) ELSE {})
          /\ embedded' = IF ok /\ run.step = "embed" THEN Append(embedded, i) ELSE embedded
          /\ results' = IF ok /\ run.step = "extract" THEN Append(results, i) ELSE results
          /\ Blame(Unread(Source(i), get) \cup Failing("put", put) \cup Failing("llm", llm)
                     \cup Failing("delete", kept))
  /\ UNCHANGED <<run, mp4, jobs>>

\* Once the context is cancelled, no attempt follows.
GiveUp(i) ==
  /\ Calling(i) /\ run.step \in Parallel /\ run.cancelled
  /\ media' = [media EXCEPT ![i].state = "failed"]
  /\ bucket' = bucket \ Frame(i, "failed")
  /\ UNCHANGED <<run, mp4, embedded, results, jobs, faults>>

-----------------------------------------------------------------------------
(* The pipeline *)

Ready == \A i \in DOMAIN media : media[i].state \in {"ok", "failed"}
AllOk == \A i \in DOMAIN media : media[i].state = "ok"
Again(state) == [i \in DOMAIN media |-> [media[i] EXCEPT !.state = state, !.tries = 0]]

\* wg.Wait: one failure fails the step.
EmbedDone ==
  /\ run.step = "embed" /\ Ready
  /\ IF AllOk THEN Advance("duplicate") ELSE Fail
  /\ UNCHANGED <<mp4, media, embedded, results, jobs, bucket, faults>>

\* Later steps are skipped for a duplicate.
Duplicate == run' = [run EXCEPT !.step = "close", !.outcome = "duplicate"]

\* The index is asked for the memes with a similar embedding.
GetDuplicatesByEmbedding(ok) == ok /\ ~run.cancelled

\* An image is a duplicate if the model says so of it and the most similar meme, ...
CheckDuplicateImage ==
  /\ run.step = "duplicate" /\ run.type = "image"
  /\ \E found \in BOOLEAN, ok \in Succeeds("index") :
       /\ IF GetDuplicatesByEmbedding(ok)
            THEN Advance(IF found THEN "check" ELSE "extract") /\ media' = Again("call")
            ELSE Fail /\ UNCHANGED media
       /\ Blame(Failing("index", ok))
  /\ UNCHANGED <<mp4, embedded, results, jobs, bucket>>

\* The model compares two images, given by their URLs or inline.
Compared(part) == /\ Given(part)
                  /\ Provider = "gemini" \/ Readable(part.frame)

CheckDuplicate ==
  /\ Calling(1) /\ run.step = "check"
  /\ \E get \in IF Provider = "gemini" THEN {TRUE} ELSE Get(media[1].frame),
        put \in PutFor(1), llm \in Succeeds("llm"), same \in BOOLEAN :
       LET part == [Prepared(1, TRUE, put) EXCEPT !.frame = ResolveDownload(@, get)]
           ok == ~run.cancelled /\ llm /\ Compared(part)
           state == IF run.cancelled THEN "failed" ELSE Retried(part.tries + 1)
       IN /\ CASE ok /\ same -> Duplicate /\ media' = <<part>>
               [] ok /\ ~same -> Advance("extract") /\ media' = <<[part EXCEPT !.tries = 0]>>
               [] ~ok /\ state = "failed" -> Fail /\ media' = <<part>>
               [] ~ok /\ state # "failed" ->
                    UNCHANGED run /\ media' = <<[part EXCEPT !.tries = @ + 1]>>
          /\ bucket' = bucket \cup Uploaded(part.data)
          /\ Blame(Unread(media[1].frame, get) \cup Failing("put", put) \cup Failing("llm", llm))
  /\ UNCHANGED <<mp4, embedded, results, jobs>>

\* ... a video if enough of its slices are similar to those of one meme.
CheckDuplicateVideo ==
  /\ run.step = "duplicate" /\ run.type = "video"
  /\ \E similar \in SUBSET Range(embedded), ok \in Succeeds("index") :
       LET same == /\ similar # {}
                   /\ 100 * Cardinality(similar) >= Share * Len(embedded)
           queried == embedded = <<>> \/ GetDuplicatesByEmbedding(ok)
       IN /\ embedded = <<>> => ok
          /\ CASE ~queried -> Fail
               [] queried /\ same -> Duplicate
               [] queried /\ ~same -> Advance("extract")
          /\ media' = Again("call")
          /\ Blame(Failing("index", ok))
  /\ UNCHANGED <<mp4, embedded, results, jobs, bucket>>

\* Mutant of BySlice: the results stay in the order in which they came.
AsTheyCame(completed) == completed

\* slices.SortFunc, of one result at most of each slice
BySlice(completed) ==
  CHOOSE s \in [DOMAIN completed -> Range(completed)] :
    /\ Range(s) = Range(completed)
    /\ \A i, k \in DOMAIN completed : i < k => s[i] < s[k]

\* A single result is not combined, and a video without slices is an error.
ExtractDone ==
  /\ run.step = "extract" /\ Ready
  /\ results' = IF AllOk THEN BySlice(results) ELSE results
  /\ IF AllOk /\ media # <<>>
       THEN Advance(IF Len(results) = 1 THEN "thumb" ELSE "combine")
       ELSE Fail
  /\ UNCHANGED <<mp4, media, embedded, jobs, bucket, faults>>

CombineResults ==
  /\ run.step = "combine"
  /\ \E ok \in Succeeds("llm") :
       /\ IF ok /\ ~run.cancelled THEN Advance("thumb")
          ELSE IF run.cancelled \/ Retried(run.tries + 1) = "failed" THEN Fail
          ELSE run' = [run EXCEPT !.tries = @ + 1]
       /\ Blame(Failing("llm", ok))
  /\ UNCHANGED <<mp4, media, embedded, results, jobs, bucket>>

\* (that of a video is a frame: PollMain)
ImageThumbnail ==
  /\ run.step = "thumb" /\ run.type = "image"
  /\ Advance("save")
  /\ UNCHANGED <<mp4, media, embedded, results, jobs, bucket, faults>>

\* SaveMeme reads the content of the original and stores it with the document.
SaveMeme ==
  /\ run.step = "save"
  /\ \E get \in Get(mp4.inner), ok \in Succeeds("index") :
       /\ mp4' = Fetch(mp4, get)
       /\ run' = [run EXCEPT !.step = "close",
            !.outcome = IF Readable(mp4'.inner) /\ ok /\ ~run.cancelled THEN "saved" ELSE "failed"]
       /\ Blame(Unread(mp4.inner, get) \cup Failing("index", ok))
  /\ UNCHANGED <<media, embedded, results, jobs, bucket>>

\* MetadataPipelineContext.Close, under a context of its own; what is not in the
\* context of the pipeline yet stays behind.
ClosePipeline ==
  LET all == IF run.kept
               THEN DeletesWrapped(mp4) \cup
                      UNION {DeletesWrapped(media[i].data) : i \in DOMAIN media}
               ELSE {}
  IN /\ run.step = "close"
     /\ \E left \in {{}} \cup IF Injected < ExtractFaults
                               THEN {{p} : p \in all \cap bucket} ELSE {} :
          /\ run' = [run EXCEPT !.step = "done", !.left = left]
          /\ bucket' = bucket \ (all \ left)
          /\ Blame(Failing("delete", left = {}))
     /\ mp4' = CloseWrapped(mp4)
     /\ media' = [i \in DOMAIN media |-> [media[i] EXCEPT !.data = CloseWrapped(@)]]
     /\ UNCHANGED <<embedded, results, jobs>>

-----------------------------------------------------------------------------
ExtractStep ==
  \/ \E j \in MainJob : SubmitMain(j) \/ PollMain(j) \/ TimeoutMain(j)
  \/ \E i \in DOMAIN media : SubmitFrame(i) \/ PollFrame(i) \/ Attempt(i) \/ GiveUp(i)
  \/ EmbedDone \/ CheckDuplicateImage \/ CheckDuplicate \/ CheckDuplicateVideo
  \/ ExtractDone \/ CombineResults \/ ImageThumbnail \/ SaveMeme \/ ClosePipeline

ExtractNext ==
  \/ \E type \in {"image", "video"}, embedder, extractor \in Providers,
         duration \in {0} \cup Durations : Begin(type, embedder, extractor, duration)
  \/ ExtractStep \/ Cancel
  \/ \E j \in Job : JobEnds(j) \/ Expire(j)
  \/ ExpireRest

ExtractSpec == ExtractInit /\ [][ExtractNext]_extractVars

\* A request goes on by itself, and ffmpeg-service ends its jobs and removes their outputs.
ExtractFairness ==
  /\ WF_extractVars(ExtractStep)
  /\ WF_extractVars(ExpireRest \/ \E j \in Job : JobEnds(j))

ExtractFairSpec == ExtractSpec /\ ExtractFairness

-----------------------------------------------------------------------------
(* Properties *)

Steps == {"idle", "convert", "size", "slice", "embed", "duplicate", "check", "extract",
          "combine", "thumb", "save", "close", "done"}

\* Every variable has its type; no call is attempted more than Attempts times.
ExtractTypeOK ==
  /\ run.step \in Steps /\ run.outcome \in {"none", "saved", "duplicate", "failed"}
  /\ run.tries \in 0 .. Attempts - 1
  /\ run.outcome = "none" <=> run.step \notin {"close", "done"}
  /\ \A i \in DOMAIN media : /\ media[i].state \in {"todo", "frame", "call", "ok", "failed"}
                             /\ media[i].tries \in 0 .. Attempts
  /\ jobs \in [Job -> {"none", "running", "done", "failed", "gone"}]
  /\ faults \in [Fault -> Nat]

\* The slices cover the whole video, each but the first begins inside the one before it,
\* and the times reported say so to the second.
SlicesCoverVideo ==
  LET Slice == DOMAIN media IN
  run.type = "video" /\ run.step \in {"embed", "duplicate", "extract", "combine", "save"} =>
    /\ \A t \in 0 .. run.duration - 1 : \E i \in Slice : media[i].from <= t /\ t < media[i].to
    /\ \A i \in Slice : /\ media[i].startTime <= media[i].endTime
                       /\ media[i].startTime * Second <= media[i].from
                       /\ media[i].to < (media[i].endTime + 1) * Second
    /\ \A i, k \in Slice : k = i + 1 =>
         /\ media[i].from < media[k].from /\ media[k].from <= media[i].to
         /\ media[k].startTime <= media[i].endTime

\* What is saved has one result of each slice, in the order of the slices, and one
\* embedding of each, in whatever order the calls end.
ResultsMatchSlices ==
  run.outcome = "saved" =>
    /\ results = [i \in DOMAIN media |-> i]
    /\ Len(embedded) = Len(media) /\ Range(embedded) = DOMAIN media

\* A meme is lost only to what the code does not retry: fewer than Attempts failed calls
\* of the model are not enough, nor is the upload of a slice that Gemini can be sent inline.
SurvivesTransientFailures ==
  run.outcome = "failed" =>
    \/ \E k \in {"get", "index", "job", "timeout", "expiry", "cancel"} : faults[k] > 0
    \/ faults["llm"] >= Attempts
    \/ faults["put"] > 0 /\ run.type = "video"
         /\ (run.embedder = "openrouter" \/ ~Located(mp4.outer))
    \/ run.type = "video" /\ run.duration = 0

\* Whatever ends it, the pipeline leaves nothing in the temporary bucket but an object
\* that could not be deleted, and the video it uploaded when its size cannot be found
\* (MediaEncoderService.go:114: nobody closes it then).
EndsReleased ==
  run.step # "idle" ~>
    [](run.step = "done" /\ bucket \subseteq run.left \cup (IF run.kept THEN {} ELSE {<<"mp4", 0>>}))

=============================================================================
