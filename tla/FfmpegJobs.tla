------------------------------ MODULE FfmpegJobs -----------------------------
(****************************************************************************)
(* The FFmpeg service's job service (FfmpegJobService.go).  A job goroutine *)
(* waits for a slot of the semaphore, runs one ffmpeg action on the input,  *)
(* uploads the outputs one after the other, publishes the outcome and       *)
(* leaves a timer that closes the outputs.  Unlike the YouTube service it   *)
(* has no cleaner: jobs are found through a cache with an expiration of its *)
(* own.  The input belongs to the caller and is only read, so it is left    *)
(* out.  Time is discrete and stops at MaxTime.                             *)
(****************************************************************************)
EXTENDS Integers, FiniteSets

CONSTANTS
  Jobs,         \* calls of CreateJob
  Slots,        \* MaxConcurrentJobs
  JobTTL,       \* JobTtlSeconds
  Retentions,   \* values of retention_seconds in use
  CacheSize,    \* gcache.New(256)
  MaxOutputs,   \* bound: outputs of one job
  LastSubmit,   \* bound: no call after this time
  MaxTime,      \* bound: time stops here
  DeleteFails   \* may the bucket refuse a deletion?

ASSUME ConstantsAssumption ==
  /\ Slots \in Nat \ {0} /\ CacheSize \in Nat \ {0}
  /\ JobTTL \in Nat \ {0}
  /\ Retentions \subseteq Int
  /\ MaxOutputs \in Nat /\ LastSubmit \in Nat /\ MaxTime \in Nat
  /\ DeleteFails \in BOOLEAN

VARIABLES
  now,
  job,       \* the entity.Job of each call
  cached,    \* the keys of s.cache, expired ones included
  slots,     \* the goroutines holding a slot of the semaphore
  work,      \* the locals of each job goroutine
  wake,      \* when each job's cleanup timer fires
  object     \* the outputs each job uploaded

vars == <<now, job, cached, slots, work, wake, object>>

Never == -1

\* Negative: never expires; zero: the default.
resolveEffectiveTTL(retention) ==
  CASE retention < 0 -> Never [] retention > 0 -> retention [] retention = 0 -> JobTTL

State == {"unknown", "pending", "running", "done", "failed"}
Job == [state : State, created : 0 .. MaxTime,
        ttl : {Never} \cup (Nat \ {0}),
        ended : 0 .. MaxTime]     \* history: when the outcome was published
NoJob == [state |-> "unknown", created |-> 0, ttl |-> Never, ended |-> 0]

Output == 1 .. MaxOutputs
\* "stuck": closed, but the bucket refused the deletion.
Object == {"none", "stored", "deleted", "stuck"}

\* `total` outputs were produced, S3Data holds those in `open`; `ok` says that
\* no error has been met.
Label == {"wait", "act", "upload", "undo", "publish", "schedule", "release", "end"}
Work == [at : Label, total : 0 .. MaxOutputs, open : SUBSET Output, ok : BOOLEAN]
NoWork == [at |-> "wait", total |-> 0, open |-> {}, ok |-> TRUE]

First(S) == CHOOSE i \in S : \A k \in S : i <= k

Init == /\ now = 0
        /\ job = [j \in Jobs |-> NoJob]
        /\ cached = {}
        /\ slots = {}
        /\ work = [j \in Jobs |-> NoWork]
        /\ wake = [j \in Jobs |-> Never]
        /\ object = [j \in Jobs |-> [i \in Output |-> "none"]]

-----------------------------------------------------------------------------
(* CreateJob and its goroutine *)

\* Mutant of Admit: a full cache evicts nobody.
AdmitAll(j) == {cached \cup {j}}

\* Cache.Set: a full cache evicts one of the least frequently used keys, which
\* depends on how often clients have polled: any of them.
Admit(j) == IF Cardinality(cached) < CacheSize THEN {cached \cup {j}}
            ELSE {(cached \ {k}) \cup {j} : k \in cached}

CreateJob(j, retention) ==
  /\ job[j].state = "unknown" /\ now <= LastSubmit
  /\ job' = [job EXCEPT ![j] = [NoJob EXCEPT
       !.state = "pending", !.created = now, !.ttl = resolveEffectiveTTL(retention)]]
  /\ cached' \in Admit(j)
  /\ UNCHANGED <<now, slots, work, wake, object>>

\* Mutant of Start: the semaphore is not waited for.
StartAtOnce(j) ==
  /\ job[j].state = "pending"
  /\ slots' = slots \cup {j}
  /\ job' = [job EXCEPT ![j].state = "running"]
  /\ work' = [work EXCEPT ![j].at = "act"]
  /\ UNCHANGED <<now, cached, wake, object>>

\* The send on the semaphore succeeds.
Start(j) ==
  /\ job[j].state = "pending"
  /\ Cardinality(slots) < Slots
  /\ slots' = slots \cup {j}
  /\ job' = [job EXCEPT ![j].state = "running"]
  /\ work' = [work EXCEPT ![j].at = "act"]
  /\ UNCHANGED <<now, cached, wake, object>>

\* runAction: the input is wrapped, ffmpeg produces its outputs (one, or the
\* slices of the video) on the local disk, or something fails.
RunFfmpeg(j) ==
  /\ work[j].at = "act"
  /\ work' \in {[work EXCEPT ![j].at = "publish", ![j].ok = FALSE]} \cup
               {[work EXCEPT ![j].at = IF n = 0 THEN "publish" ELSE "upload",
                             ![j].total = n] : n \in 0 .. MaxOutputs}
  /\ UNCHANGED <<now, job, cached, slots, wake, object>>

\* GetS3Path uploads the next output.
UploadOutput(j) ==
  /\ work[j].at = "upload"
  /\ LET i == Cardinality(work[j].open) + 1 IN
       /\ object' = [object EXCEPT ![j][i] = "stored"]
       /\ work' = [work EXCEPT ![j].open = @ \cup {i},
                               ![j].at = IF i = work[j].total THEN "publish" ELSE @]
  /\ UNCHANGED <<now, job, cached, slots, wake>>

\* Mutant of UploadFails: the outputs already uploaded are not closed.
UploadFailsDirty(j) ==
  /\ work[j].at = "upload"
  /\ work' = [work EXCEPT ![j].ok = FALSE, ![j].at = "publish"]
  /\ UNCHANGED <<now, job, cached, slots, wake, object>>

\* ... which fails: those uploaded before it are closed.
UploadFails(j) ==
  /\ work[j].at = "upload"
  /\ work' = [work EXCEPT ![j].ok = FALSE,
                          ![j].at = IF work[j].open = {} THEN "publish" ELSE "undo"]
  /\ UNCHANGED <<now, job, cached, slots, wake, object>>

\* Data.Close of the first output in S3Data, whose error is only logged.
CloseFirst(j) ==
  LET i == First(work[j].open) IN
    object' \in {[object EXCEPT ![j][i] = o] :
                   o \in {"deleted"} \cup IF DeleteFails THEN {"stuck"} ELSE {}}

UndoUpload(j) ==
  /\ work[j].at = "undo"
  /\ CloseFirst(j)
  /\ LET rest == work[j].open \ {First(work[j].open)} IN
       work' = [work EXCEPT ![j].open = rest,
                            ![j].at = IF rest = {} THEN "publish" ELSE @]
  /\ UNCHANGED <<now, job, cached, slots, wake>>

\* Under the job's lock the goroutine publishes the outcome.
Publish(j) ==
  /\ work[j].at = "publish"
  /\ job' = [job EXCEPT ![j].state = IF work[j].ok THEN "done" ELSE "failed",
                        ![j].ended = now]
  /\ work' = [work EXCEPT ![j].at = "schedule"]
  /\ UNCHANGED <<now, cached, slots, wake, object>>

\* Mutant of ScheduleCleanup: the retention counts from the creation.
ScheduleFromCreation(j) ==
  /\ work[j].at = "schedule"
  /\ wake' = [wake EXCEPT ![j] = IF work[j].ok /\ job[j].ttl >= 0
                                   THEN job[j].created + job[j].ttl ELSE Never]
  /\ work' = [work EXCEPT ![j].at = "release"]
  /\ UNCHANGED <<now, job, cached, slots, object>>

\* scheduleCleanup starts the timer of a job that has a result and a lifetime.
ScheduleCleanup(j) ==
  /\ work[j].at = "schedule"
  /\ wake' = [wake EXCEPT ![j] = IF work[j].ok /\ job[j].ttl >= 0
                                   THEN now + job[j].ttl ELSE Never]
  /\ work' = [work EXCEPT ![j].at = "release"]
  /\ UNCHANGED <<now, job, cached, slots, object>>

\* Mutant of Release: a failed job keeps its slot.
ReleaseDone(j) ==
  /\ work[j].at = "release" /\ work[j].ok
  /\ slots' = slots \ {j}
  /\ work' = [work EXCEPT ![j].at = "end"]
  /\ UNCHANGED <<now, job, cached, wake, object>>

\* The deferred receive frees the slot.
Release(j) ==
  /\ work[j].at = "release"
  /\ slots' = slots \ {j}
  /\ work' = [work EXCEPT ![j].at = "end"]
  /\ UNCHANGED <<now, job, cached, wake, object>>

-----------------------------------------------------------------------------
(* Timers, clients and time *)

\* Mutant of CloseOutput: only the first output is closed.
CloseFirstOutput(j) ==
  /\ wake[j] # Never /\ now >= wake[j]
  /\ Cardinality(work[j].open) = work[j].total /\ work[j].total > 0
  /\ CloseFirst(j)
  /\ work' = [work EXCEPT ![j].open = @ \ {First(@)}]
  /\ UNCHANGED <<now, job, cached, slots, wake>>

\* The timer has fired: QuietCloseAll closes one output after the other.
CloseOutput(j) ==
  /\ wake[j] # Never /\ now >= wake[j]
  /\ work[j].open # {}
  /\ CloseFirst(j)
  /\ work' = [work EXCEPT ![j].open = @ \ {First(@)}]
  /\ UNCHANGED <<now, job, cached, slots, wake>>

\* The cache's expiration is the default TTL, whatever the job's own is.
Expired(j) == now - job[j].created > JobTTL

\* GetJob: the cache drops an expired key when it is asked for.
GetJob(j) ==
  /\ cached' = IF Expired(j) THEN cached \ {j} ELSE cached
  /\ UNCHANGED <<now, job, slots, work, wake, object>>

Clock == /\ now' = IF now < MaxTime THEN now + 1 ELSE now
         /\ UNCHANGED <<job, cached, slots, work, wake, object>>

-----------------------------------------------------------------------------
RunAction(j) == RunFfmpeg(j) \/ UploadOutput(j) \/ UploadFails(j) \/ UndoUpload(j)
Run(j) == Start(j) \/ RunAction(j) \/ Publish(j) \/ ScheduleCleanup(j) \/ Release(j)

Next == \/ \E j \in Jobs, r \in Retentions : CreateJob(j, r)
        \/ \E j \in Jobs : Run(j) \/ CloseOutput(j) \/ GetJob(j)
        \/ Clock

Spec == Init /\ [][Next]_vars

\* Goroutines and timers are scheduled, the runtime serves the semaphore's
\* waiters in order, ffmpeg and the bucket answer, and time passes.
Fairness == /\ \A j \in Jobs : WF_vars(Run(j)) /\ WF_vars(CloseOutput(j))
            /\ WF_vars(Clock)

FairSpec == Spec /\ Fairness

-----------------------------------------------------------------------------
(* Properties *)

\* Every variable has its type, and the cache respects its size.
TypeOK == /\ now \in 0 .. MaxTime
          /\ job \in [Jobs -> Job]
          /\ cached \subseteq Jobs /\ Cardinality(cached) <= CacheSize
          /\ slots \subseteq Jobs
          /\ work \in [Jobs -> Work]
          /\ wake \in [Jobs -> {Never} \cup Nat]
          /\ object \in [Jobs -> [Output -> Object]]

\* The service implements the lifecycle it promises: the semaphore bounds the
\* ffmpeg runs, and no outcome changes once it is published.
Lifecycle == INSTANCE JobLifecycle WITH status <- [j \in Jobs |-> job[j].state]
ImplementsLifecycle == Lifecycle!Spec

Done(j) == job[j].state = "done"

\* A client that sees a job done finds all its outputs, and finds them for
\* retention_seconds from then on.
OutputsComplete ==
  \A j \in Jobs :
    Done(j) /\ (job[j].ttl < 0 \/ now - job[j].ended < job[j].ttl) =>
      \A i \in 1 .. work[j].total : object[j][i] = "stored"

\* A failed job leaves no output behind that nobody tried to delete: the job
\* goroutine owns what runAction uploaded (FfmpegJobService.go:83-84).
FailedJobsLeaveNothing ==
  \A j \in Jobs : job[j].state = "failed" => \A i \in Output : object[j][i] # "stored"

\* retention_seconds is how long the job is kept: until then a client that
\* polls a job finds it.
Reachable(j) == j \in cached /\ ~Expired(j)
RetainedJobsReachable ==
  \A j \in Jobs :
    job[j].state # "unknown" /\ (job[j].ttl < 0 \/ now - job[j].created < job[j].ttl)
      => Reachable(j)

\* Every job ends.
EveryJobEnds ==
  \A j \in Jobs : job[j].state = "pending" ~> job[j].state \in {"done", "failed"}

\* When a finished job's retention is over the deletion of each of its outputs is
\* attempted in the end, unless time stops before its timer fires.  An output whose
\* deletion the bucket refuses is "stuck" and stays for ever: the failure is only
\* logged, and nobody tries again.
Outlived(j) == Done(j) /\ job[j].ttl >= 0 /\ now - job[j].ended >= job[j].ttl
Cleaned(j) == \/ \A i \in Output : object[j][i] \in {"none", "deleted", "stuck"}
              \/ wake[j] > now
OutputsAreReleased == \A j \in Jobs : Outlived(j) ~> Cleaned(j)

=============================================================================
