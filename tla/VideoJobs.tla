------------------------------ MODULE VideoJobs ------------------------------
(****************************************************************************)
(* The YouTube service's job service (VideoJobService.go).  A job goroutine *)
(* waits for a slot of the semaphore, downloads the video into the          *)
(* temporary bucket and publishes the result; a ticker-driven cleaner walks *)
(* the job map, deletes the objects of expired jobs and forgets the jobs.   *)
(* RunSync does the same work in the caller's goroutine, lists no job and   *)
(* leaves a timer behind.  Time is discrete and stops at MaxTime.           *)
(****************************************************************************)
EXTENDS Integers, FiniteSets

CONSTANTS
  Jobs,         \* calls of CreateJob and RunSync
  Slots,        \* MaxConcurrentDownloads
  JobTTL,       \* JobTtlSeconds
  Retentions,   \* values of retention_seconds in use
  LastSubmit,   \* bound: no call after this time
  MaxTime,      \* bound: time stops here
  DeleteFails,  \* may the bucket refuse a deletion?
  None

ASSUME ConstantsAssumption ==
  /\ Slots \in Nat \ {0}
  /\ JobTTL \in Nat /\ JobTTL >= 2        \* the ticker's period is JobTTL / 2
  /\ Retentions \subseteq Int
  /\ LastSubmit \in Nat /\ MaxTime \in Nat
  /\ DeleteFails \in BOOLEAN
  /\ None \notin Jobs

VARIABLES
  now,
  job,       \* the DownloadJob, or the locals of RunSync
  listed,    \* the keys of s.jobs
  slots,     \* the goroutines holding a slot of the semaphore
  object,    \* the object each call uploaded
  cleaner    \* the cleaner goroutine

vars == <<now, job, listed, slots, object, cleaner>>

Never == -1

\* Mutant of resolveEffectiveTTL: zero is not replaced by the default.
resolveEffectiveTTLPlain(retention) == IF retention < 0 THEN Never ELSE retention

\* Negative: never expires; zero: the default.
resolveEffectiveTTL(retention) ==
  CASE retention < 0 -> Never [] retention > 0 -> retention [] retention = 0 -> JobTTL

State == {"unknown", "pending", "running", "done", "failed"}
Job == [state : State, sync : BOOLEAN, created : 0 .. MaxTime,
        ttl : {Never} \cup (Nat \ {0}),
        ended : 0 .. MaxTime]     \* history: when the outcome was published
NoJob == [state |-> "unknown", sync |-> FALSE, created |-> 0, ttl |-> Never, ended |-> 0]

\* "stuck": closed, but the bucket refused the deletion.
Object == {"none", "stored", "deleted", "stuck"}

\* The cleaner serves, or has served, the tick it received at time `at`; `todo`
\* are the jobs its Range has yet to visit, `closed` the one it is about to
\* delete from the map.
Cleaner == [at : 0 .. MaxTime, todo : SUBSET Jobs, closed : Jobs \cup {None}]

Init == /\ now = 0
        /\ job = [j \in Jobs |-> NoJob]
        /\ listed = {}
        /\ slots = {}
        /\ object = [j \in Jobs |-> "none"]
        /\ cleaner = [at |-> 0, todo |-> {}, closed |-> None]

-----------------------------------------------------------------------------
(* Calls and their goroutines *)

\* CreateJob and RunSync, up to the semaphore.
Submit(j, sync, retention) ==
  /\ job[j].state = "unknown" /\ now <= LastSubmit
  /\ job' = [job EXCEPT ![j] =
       [state |-> "pending", sync |-> sync, created |-> now,
        ttl |-> resolveEffectiveTTL(retention), ended |-> 0]]
  /\ listed' = IF sync THEN listed ELSE listed \cup {j}
  /\ UNCHANGED <<now, slots, object, cleaner>>

\* Mutant of Start: the semaphore is not waited for.
StartAtOnce(j) ==
  /\ job[j].state = "pending"
  /\ slots' = slots \cup {j}
  /\ job' = [job EXCEPT ![j].state = "running"]
  /\ UNCHANGED <<now, listed, object, cleaner>>

\* The send on the semaphore succeeds.
Start(j) ==
  /\ job[j].state = "pending"
  /\ Cardinality(slots) < Slots
  /\ slots' = slots \cup {j}
  /\ job' = [job EXCEPT ![j].state = "running"]
  /\ UNCHANGED <<now, listed, object, cleaner>>

\* downloadAndStore: the downloader's stream ends up in the bucket.
Store(j) ==
  /\ job[j].state = "running" /\ object[j] = "none"
  /\ object' = [object EXCEPT ![j] = "stored"]
  /\ UNCHANGED <<now, job, listed, slots, cleaner>>

\* downloadAndStore returned and the goroutine publishes what it got: an error
\* when nothing was stored.
Publish(j) ==
  /\ job[j].state = "running"
  /\ job' = [job EXCEPT ![j].state = IF object[j] = "none" THEN "failed" ELSE "done",
                        ![j].ended = now]
  /\ UNCHANGED <<now, listed, slots, object, cleaner>>

\* Mutant of Release: a failed job keeps its slot.
ReleaseDone(j) ==
  /\ j \in slots /\ job[j].state = "done"
  /\ slots' = slots \ {j}
  /\ UNCHANGED <<now, job, listed, object, cleaner>>

\* The deferred receive frees the slot.
Release(j) ==
  /\ j \in slots /\ job[j].state \in {"done", "failed"}
  /\ slots' = slots \ {j}
  /\ UNCHANGED <<now, job, listed, object, cleaner>>

\* S3Data.Close on j's object, if it has one.
Close(j) ==
  object' \in IF object[j] # "stored" THEN {object}
              ELSE {[object EXCEPT ![j] = o] :
                      o \in {"deleted"} \cup IF DeleteFails THEN {"stuck"} ELSE {}}

\* The timer RunSync leaves behind.
CloseSync(j) ==
  /\ job[j].sync /\ job[j].state = "done" /\ object[j] = "stored"
  /\ job[j].ttl >= 0 /\ now - job[j].ended >= job[j].ttl
  /\ Close(j)
  /\ UNCHANGED <<now, job, listed, slots, cleaner>>

-----------------------------------------------------------------------------
(* The cleaner *)

Idle == cleaner.todo = {} /\ cleaner.closed = None

\* The ticker's channel holds one tick: those missed by a busy cleaner are
\* dropped.
Tick ==
  /\ Idle
  /\ now \div (JobTTL \div 2) > cleaner.at \div (JobTTL \div 2)
  /\ cleaner' = [at |-> now, todo |-> listed, closed |-> None]
  /\ UNCHANGED <<now, job, listed, slots, object>>

\* Mutant of Expired: a job that never expires is not exempt.
ExpiredUnexempt(j) == cleaner.at - job[j].created > job[j].ttl

Expired(j) == job[j].ttl >= 0 /\ cleaner.at - job[j].created > job[j].ttl

\* Mutant of Visit: the object of an expired job is left alone.
VisitKeeping(j) ==
  /\ j \in cleaner.todo /\ cleaner.closed = None
  /\ cleaner' = [cleaner EXCEPT !.todo = @ \ {j},
                                !.closed = IF Expired(j) THEN j ELSE None]
  /\ UNCHANGED <<now, job, listed, slots, object>>

\* One callback of Range: under the job's lock, an expired job's result, if
\* there is one yet, is closed.
Visit(j) ==
  /\ j \in cleaner.todo /\ cleaner.closed = None
  /\ cleaner' = [cleaner EXCEPT !.todo = @ \ {j},
                                !.closed = IF Expired(j) THEN j ELSE None]
  /\ IF Expired(j) /\ job[j].state = "done" THEN Close(j) ELSE UNCHANGED object
  /\ UNCHANGED <<now, job, listed, slots>>

\* ... and, after the lock is released, the job is deleted from the map.
Forget ==
  /\ cleaner.closed # None
  /\ listed' = listed \ {cleaner.closed}
  /\ cleaner' = [cleaner EXCEPT !.closed = None]
  /\ UNCHANGED <<now, job, slots, object>>

Clock == /\ now' = IF now < MaxTime THEN now + 1 ELSE now
         /\ UNCHANGED <<job, listed, slots, object, cleaner>>

-----------------------------------------------------------------------------
Work(j) == Start(j) \/ Publish(j) \/ Release(j) \/ CloseSync(j)
Clean == Tick \/ (\E j \in Jobs : Visit(j)) \/ Forget

Next == \/ \E j \in Jobs, sync \in BOOLEAN, r \in Retentions : Submit(j, sync, r)
        \/ \E j \in Jobs : Work(j) \/ Store(j)
        \/ Clean
        \/ Clock

Spec == Init /\ [][Next]_vars

\* Goroutines are scheduled, the runtime serves the semaphore's waiters in
\* order, a download ends (the downloader gives up after 100 polls), and time
\* passes.  A download need not succeed.
Fairness == /\ \A j \in Jobs : WF_vars(Work(j))
            /\ WF_vars(Clean)
            /\ WF_vars(Clock)

FairSpec == Spec /\ Fairness

-----------------------------------------------------------------------------
(* Properties *)

\* Every variable has its type.
TypeOK == /\ now \in 0 .. MaxTime
          /\ job \in [Jobs -> Job]
          /\ listed \subseteq Jobs
          /\ slots \subseteq Jobs
          /\ object \in [Jobs -> Object]
          /\ cleaner \in Cleaner

\* The service implements the lifecycle it promises: the semaphore bounds the
\* downloads, and no outcome changes once it is published.
Lifecycle == INSTANCE JobLifecycle WITH status <- [j \in Jobs |-> job[j].state]
ImplementsLifecycle == Lifecycle!Spec

Done(j) == job[j].state = "done"
Retained(j) == job[j].ttl < 0 \/ now - job[j].created < job[j].ttl
Late(j) == job[j].ended - job[j].created > job[j].ttl

\* A job and its object are kept for retention_seconds: until then a client
\* that polls finds the job, and a finished job has its object.
KeptWhileRetained ==
  \A j \in Jobs :
    job[j].state # "unknown" /\ Retained(j) =>
      /\ ~job[j].sync => j \in listed
      /\ Done(j) => object[j] = "stored"

\* An object in the bucket that neither the map nor a timer leads to.
Orphan(j) == /\ Done(j) /\ object[j] = "stored" /\ ~job[j].sync
             /\ j \notin listed

\* The owner of a result is responsible for closing it: the service never
\* loses sight of an object it stored.
NoOrphans == \A j \in Jobs : ~Orphan(j)

\* Only a job that was already expired when it finished can leave an orphan.
OrphansAreLate ==
  \A j \in Jobs : Orphan(j) => Late(j)

\* Every call ends.
EveryCallEnds ==
  \A j \in Jobs : job[j].state = "pending" ~> job[j].state \in {"done", "failed"}

\* The time of a finished job's object is over; one that finished too late for
\* the cleaner does not count.
Overdue(j) ==
  /\ Done(j) /\ job[j].ttl >= 0
  /\ IF job[j].sync THEN now - job[j].ended >= job[j].ttl
     ELSE ~Late(j) /\ now - job[j].created > job[j].ttl

\* The deletion of every overdue object is attempted in the end.  An object whose deletion
\* the bucket refuses is "stuck" and stays for ever: its job is forgotten all the same, and
\* nobody tries again.
ObjectsAreReleased == \A j \in Jobs : Overdue(j) ~> object[j] \in {"deleted", "stuck"}

=============================================================================
