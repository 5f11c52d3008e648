---------------------------- MODULE RecomputeJobs ----------------------------
(****************************************************************************)
(* A recompute job (RecomputeService.go): a goroutine pages through the     *)
(* memes in the order of their image id and hands each to a pool of         *)
(* workers; the job is done when the last worker is.  Meanwhile memes are   *)
(* uploaded and deleted.  What a worker does to its meme is in MemeStore.   *)
(****************************************************************************)
EXTENDS Naturals, FiniteSets, FiniteSetsExt

CONSTANTS
  Memes,        \* image ids, in their order
  PageSize,     \* recomputePageSize
  Workers,      \* maxRecomputeWorkers
  QueryFails    \* may the index refuse a page query?

ASSUME ConstantsAssumption ==
  /\ Memes \subseteq Nat \ {0} /\ IsFiniteSet(Memes)
  /\ PageSize \in Nat \ {0} /\ Workers \in Nat \ {0}
  /\ QueryFails \in BOOLEAN

VARIABLES
  live,       \* the memes in the index that match the job's query
  state,      \* RecomputeJobState.State
  processed,  \* how often each meme is in ProcessedIds
  errors,     \* the memes in Errors
  cursor,     \* sortKey: the last id of the last page, 0 before the first
  page,       \* the memes of the page not yet handed to a worker
  more,       \* was the last page full, so that another query follows?
  sem,        \* the workers holding a slot of the pool
  wg,         \* the workers the wait group waits for
  steady      \* history: the memes in the index since the job was started

vars == <<live, state, processed, errors, cursor, page, more, sem, wg, steady>>
paging == <<cursor, page, more>>

State == {"none", "pending", "running", "done", "failed"}

Init == /\ live \in SUBSET Memes
        /\ state = "none"
        /\ processed = [m \in Memes |-> 0]
        /\ errors = {}
        /\ cursor = 0 /\ page = {} /\ more = TRUE
        /\ sem = {} /\ wg = {}
        /\ steady = live

-----------------------------------------------------------------------------
(* The job's goroutine *)

\* StartRecompute and StartRecomputeById.
StartRecompute ==
  /\ state = "none"
  /\ state' = "pending"
  /\ steady' = live
  /\ UNCHANGED <<live, processed, errors, paging, sem, wg>>

RunJob ==
  /\ state = "pending"
  /\ state' = "running"
  /\ UNCHANGED <<live, processed, errors, paging, sem, wg, steady>>

\* The first n members of a set of ids.
FirstOf(S, n) == {m \in S : Cardinality({k \in S : k <= m}) <= n}

\* Mutant of QueryByRaw: the search includes the id it was to follow.
QueryByRawFrom(after) == FirstOf({m \in live : m >= after}, PageSize)

\* search_after on the image id.
QueryByRaw(after) == FirstOf({m \in live : m > after}, PageSize)

Reading == state = "running" /\ page = {} /\ more

\* Mutant of FetchPage: the sort key is not carried over.
FetchPageAgain ==
  /\ Reading
  /\ page' = QueryByRaw(cursor)
  /\ more' = (Cardinality(page') = PageSize)
  /\ UNCHANGED <<cursor, live, state, processed, errors, sem, wg, steady>>

\* A page that is not full is the last one.
FetchPage ==
  /\ Reading
  /\ page' = QueryByRaw(cursor)
  /\ more' = (Cardinality(page') = PageSize)
  /\ cursor' = IF page' = {} THEN cursor ELSE Max(page')
  /\ UNCHANGED <<live, state, processed, errors, sem, wg, steady>>

\* The job fails and its goroutine returns: the workers are not waited for.
FetchFails ==
  /\ QueryFails /\ Reading
  /\ state' = "failed"
  /\ UNCHANGED <<live, processed, errors, paging, sem, wg, steady>>

\* Mutant of Dispatch: the semaphore is not waited for.
DispatchAtOnce ==
  /\ state = "running" /\ page # {}
  /\ LET m == Min(page) IN
       /\ page' = page \ {m}
       /\ sem' = sem \cup {m} /\ wg' = wg \cup {m}
  /\ UNCHANGED <<live, state, processed, errors, cursor, more, steady>>

\* The send on the semaphore succeeds and a worker starts.
Dispatch ==
  /\ state = "running" /\ page # {}
  /\ Cardinality(sem) < Workers
  /\ LET m == Min(page) IN
       /\ page' = page \ {m}
       /\ sem' = sem \cup {m} /\ wg' = wg \cup {m}
  /\ UNCHANGED <<live, state, processed, errors, cursor, more, steady>>

Drained == state = "running" /\ page = {} /\ ~more

\* Mutant of JobDone: the wait group is not waited for.
JobDoneEarly ==
  /\ Drained
  /\ state' = "done"
  /\ UNCHANGED <<live, processed, errors, paging, sem, wg, steady>>

\* wg.Wait returns.
JobDone ==
  /\ Drained /\ wg = {}
  /\ state' = "done"
  /\ UNCHANGED <<live, processed, errors, paging, sem, wg, steady>>

-----------------------------------------------------------------------------
(* Its workers: recomputeOne, then two critical sections, then two defers *)

Busy(m) == m \in sem /\ processed[m] = 0

\* recomputeOne failed: the error is recorded.
RecordError(m) ==
  /\ Busy(m) /\ m \notin errors
  /\ errors' = errors \cup {m}
  /\ UNCHANGED <<live, state, processed, paging, sem, wg, steady>>

\* The meme is counted, whether or not it failed.  recomputeOne may have indexed
\* its copy, and a meme deleted meanwhile is back.
RecordProcessed(m) ==
  /\ Busy(m)
  /\ live' \in {live, live \cup {m}}
  /\ processed' = [processed EXCEPT ![m] = @ + 1]
  /\ UNCHANGED <<state, errors, paging, sem, wg, steady>>

\* The deferred receive gives the slot back ...
ReleaseSlot(m) ==
  /\ m \in sem /\ processed[m] > 0
  /\ sem' = sem \ {m}
  /\ UNCHANGED <<live, state, processed, errors, paging, wg, steady>>

\* ... and then the deferred wg.Done runs.
WorkerDone(m) ==
  /\ m \in wg \ sem
  /\ wg' = wg \ {m}
  /\ UNCHANGED <<live, state, processed, errors, paging, sem, steady>>

-----------------------------------------------------------------------------
(* Other requests *)

\* An id is drawn at random, so a new meme may come before or after the
\* cursor; no id the job has seen is drawn again.
Upload(m) ==
  /\ m \notin live \cup steady /\ processed[m] = 0 /\ m \notin page \cup wg
  /\ live' = live \cup {m}
  /\ UNCHANGED <<state, processed, errors, paging, sem, wg, steady>>

Delete(m) ==
  /\ m \in live
  /\ live' = live \ {m} /\ steady' = steady \ {m}
  /\ UNCHANGED <<state, processed, errors, paging, sem, wg>>

-----------------------------------------------------------------------------
Job == RunJob \/ FetchPage \/ FetchFails \/ Dispatch \/ JobDone
Work(m) == RecordError(m) \/ RecordProcessed(m) \/ ReleaseSlot(m) \/ WorkerDone(m)

\* The job has ended, its workers too, and nobody sends requests.
Rest == state \in {"done", "failed"} /\ wg = {} /\ UNCHANGED vars

Next == \/ StartRecompute
        \/ Job
        \/ \E m \in Memes : Work(m) \/ Upload(m) \/ Delete(m)
        \/ Rest

Spec == Init /\ [][Next]_vars

\* The job's goroutine and its workers are scheduled, and every call to the
\* index, the bucket and the extract pipeline returns.
Fairness == WF_vars(Job) /\ \A m \in Memes : WF_vars(Work(m))

FairSpec == Spec /\ Fairness

-----------------------------------------------------------------------------
(* Properties *)

\* Every variable has its type, and the pool its size.
TypeOK == /\ live \subseteq Memes /\ steady \subseteq live
          /\ state \in State
          /\ processed \in [Memes -> Nat]
          /\ errors \subseteq Memes
          /\ cursor \in Memes \cup {0} /\ page \subseteq Memes /\ more \in BOOLEAN
          /\ sem \subseteq wg /\ wg \subseteq Memes
          /\ Cardinality(sem) <= Workers

\* No meme is recomputed twice by one job, and no two workers of a job work on
\* the same meme, however memes come and go between the pages.
AtMostOnce ==
  \A m \in Memes : /\ processed[m] <= 1
                   /\ m \in page => processed[m] = 0 /\ m \notin wg

\* A job that says it is done has recomputed, or failed to, every meme that
\* was in the index all the while, and none of its workers is still at work.
DoneMeansAll ==
  state = "done" => wg = {} /\ \A m \in steady : processed[m] = 1

\* A job that was started ends.
JobEnds == state = "pending" ~> state \in {"done", "failed"}

=============================================================================
