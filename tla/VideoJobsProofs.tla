--------------------------- MODULE VideoJobsProofs ---------------------------
(****************************************************************************)
(* For any set of calls, any number of slots and any retentions, VideoJobs  *)
(* is type correct, implements JobLifecycle, and keeps jobs and objects for *)
(* their retention.                                                         *)
(****************************************************************************)
EXTENDS VideoJobs, FiniteSetTheorems, TLAPS

\* The effective TTL is Never or a positive duration.
LEMMA TTLType ==
  \A r \in Retentions : resolveEffectiveTTL(r) \in {Never} \cup (Nat \ {0})
<1> TAKE r \in Retentions
<1>1. r \in Int /\ JobTTL \in Nat \ {0}
  BY ConstantsAssumption
<1>2. CASE r < 0
  BY <1>1, <1>2 DEF resolveEffectiveTTL
<1>3. CASE r > 0
  BY <1>1, <1>3 DEF resolveEffectiveTTL
<1>4. CASE r = 0
  BY <1>1, <1>4 DEF resolveEffectiveTTL
<1> QED BY <1>1, <1>2, <1>3, <1>4

\* Closing an object leaves every object with a type.
LEMMA CloseType ==
  ASSUME NEW j \in Jobs, TypeOK, Close(j)
  PROVE  object' \in [Jobs -> Object]
<1>1. CASE object[j] # "stored"
  BY <1>1 DEF Close, TypeOK
<1>2. CASE object[j] = "stored"
  <2>1. PICK o \in {"deleted", "stuck"} : object' = [object EXCEPT ![j] = o]
    BY <1>2 DEF Close
  <2> QED BY <2>1 DEF TypeOK, Object
<1> QED BY <1>1, <1>2

\* The initial state is well typed.
LEMMA InitType == Init => TypeOK
BY ConstantsAssumption
   DEF Init, TypeOK, NoJob, Job, State, Object, Cleaner, Never

\* A call's steps keep the types.
LEMMA CallType ==
  ASSUME TypeOK, NEW j \in Jobs,
         \/ \E sync \in BOOLEAN, r \in Retentions : Submit(j, sync, r)
         \/ Work(j) \/ Store(j)
  PROVE  TypeOK'
<1> USE DEF TypeOK
<1>0. now \in Nat /\ now \in 0 .. MaxTime
  BY ConstantsAssumption
<1>1. ASSUME NEW sync \in BOOLEAN, NEW r \in Retentions, Submit(j, sync, r)
      PROVE  TypeOK'
  <2>1. resolveEffectiveTTL(r) \in {Never} \cup (Nat \ {0})
    BY TTLType
  <2> DEFINE new == [state |-> "pending", sync |-> sync, created |-> now,
                     ttl |-> resolveEffectiveTTL(r), ended |-> 0]
  <2>2. new \in Job
    <3>1. 0 \in 0 .. MaxTime
      BY ConstantsAssumption
    <3>2. "pending" \in State
      BY DEF State
    <3> QED BY <1>0, <2>1, <3>1, <3>2 DEF Job
  <2>3. job' = [job EXCEPT ![j] = new]
    BY <1>1 DEF Submit
  <2>4. job' \in [Jobs -> Job]
    <3> HIDE DEF new
    <3> QED BY <2>2, <2>3
  <2> QED BY <1>1, <2>4 DEF Submit
<1>2. CASE Start(j)
  <2>1. job' \in [Jobs -> Job]
    BY <1>2 DEF Start, Job, State
  <2> QED BY <1>2, <2>1 DEF Start
<1>3. CASE Publish(j)
  <2> DEFINE new == [job[j] EXCEPT !.state = IF object[j] = "none" THEN "failed" ELSE "done",
                                   !.ended = now]
  <2>1. new \in Job
    <3>1. job[j] \in Job
      OBVIOUS
    <3>2. (IF object[j] = "none" THEN "failed" ELSE "done") \in State
      BY DEF State
    <3> QED BY <1>0, <3>1, <3>2 DEF Job
  <2>2. job' = [job EXCEPT ![j] = new]
    BY <1>3 DEF Publish
  <2>3. job' \in [Jobs -> Job]
    <3> HIDE DEF new
    <3> QED BY <2>1, <2>2
  <2> QED BY <1>3, <2>3 DEF Publish
<1>4. CASE Release(j)
  BY <1>4 DEF Release
<1>5. CASE CloseSync(j)
  BY <1>5, CloseType DEF CloseSync
<1>6. CASE Store(j)
  BY <1>6 DEF Store, Object
<1> QED BY <1>1, <1>2, <1>3, <1>4, <1>5, <1>6 DEF Work

\* The cleaner's steps keep the types.
LEMMA CleanType ==
  ASSUME TypeOK, Clean
  PROVE  TypeOK'
<1> USE DEF TypeOK
<1>1. CASE Tick
  BY <1>1 DEF Tick, Cleaner
<1>2. ASSUME NEW j \in Jobs, Visit(j)
      PROVE  TypeOK'
  <2>1. object' \in [Jobs -> Object]
    <3>1. CASE Expired(j) /\ job[j].state = "done"
      BY <1>2, <3>1, CloseType DEF Visit
    <3>2. CASE ~(Expired(j) /\ job[j].state = "done")
      BY <1>2, <3>2 DEF Visit
    <3> QED BY <3>1, <3>2
  <2>2. cleaner' \in Cleaner
    BY <1>2 DEF Visit, Cleaner
  <2> QED BY <1>2, <2>1, <2>2 DEF Visit
<1>3. CASE Forget
  BY <1>3 DEF Forget, Cleaner
<1> QED BY <1>1, <1>2, <1>3 DEF Clean

\* Every step keeps the types.
LEMMA NextType == TypeOK /\ [Next]_vars => TypeOK'
<1> SUFFICES ASSUME TypeOK, [Next]_vars PROVE TypeOK'
  OBVIOUS
<1>1. ASSUME NEW j \in Jobs, \E sync \in BOOLEAN, r \in Retentions : Submit(j, sync, r)
      PROVE  TypeOK'
  BY <1>1, CallType
<1>2. ASSUME NEW j \in Jobs, Work(j) \/ Store(j)
      PROVE  TypeOK'
  BY <1>2, CallType
<1>3. CASE Clean
  BY <1>3, CleanType
<1>4. CASE Clock
  <2>1. now' \in 0 .. MaxTime
    BY <1>4, ConstantsAssumption DEF Clock, TypeOK
  <2> QED BY <1>4, <2>1 DEF Clock, TypeOK
<1>5. CASE UNCHANGED vars
  BY <1>5 DEF vars, TypeOK
<1> QED BY <1>1, <1>2, <1>3, <1>4, <1>5 DEF Next

\* In every reachable state of the job service, whatever the interleaving of
\* calls, timers and the cleaner, every variable has its type.
THEOREM VideoTypeCorrect == Spec => []TypeOK
<1>1. Init => TypeOK
  BY InitType
<1>2. TypeOK /\ [Next]_vars => TypeOK'
  BY NextType
<1> QED BY <1>1, <1>2, PTL DEF Spec

-----------------------------------------------------------------------------
(* The refinement: a running job holds a slot, so the bound on the slots    *)
(* taken is a bound on the running jobs.                                    *)

RunningHoldSlots == \A j \in Jobs : job[j].state = "running" => j \in slots
SlotInv == TypeOK /\ IsFiniteSet(slots) /\ RunningHoldSlots

\* Nothing runs initially.
LEMMA InitSlotInv == Init => SlotInv
<1> SUFFICES ASSUME Init PROVE SlotInv
  OBVIOUS
<1>1. TypeOK
  BY InitType
<1>2. IsFiniteSet(slots)
  BY FS_EmptySet DEF Init
<1>3. RunningHoldSlots
  BY DEF Init, NoJob, RunningHoldSlots
<1> QED BY <1>1, <1>2, <1>3 DEF SlotInv

\* Every step keeps the slots finite and lets no running job lose its slot.
LEMMA NextSlotInv == SlotInv /\ [Next]_vars => SlotInv'
<1> SUFFICES ASSUME SlotInv, [Next]_vars PROVE SlotInv'
  OBVIOUS
<1>1. TypeOK /\ TypeOK'
  BY NextType DEF SlotInv
<1>2. IsFiniteSet(slots) /\ RunningHoldSlots
  BY DEF SlotInv
<1>3. IsFiniteSet(slots') /\ RunningHoldSlots'
  <2>1. ASSUME NEW j \in Jobs, \E sync \in BOOLEAN, r \in Retentions : Submit(j, sync, r)
        PROVE  IsFiniteSet(slots') /\ RunningHoldSlots'
    BY <1>1, <1>2, <2>1 DEF Submit, RunningHoldSlots, TypeOK, NoJob
  <2>2. ASSUME NEW j \in Jobs, Start(j)
        PROVE  IsFiniteSet(slots') /\ RunningHoldSlots'
    <3>1. IsFiniteSet(slots')
      BY <1>2, <2>2, FS_AddElement DEF Start
    <3>2. RunningHoldSlots'
      BY <1>1, <1>2, <2>2 DEF Start, RunningHoldSlots, TypeOK
    <3> QED BY <3>1, <3>2
  <2>3. ASSUME NEW j \in Jobs, Publish(j)
        PROVE  IsFiniteSet(slots') /\ RunningHoldSlots'
    BY <1>1, <1>2, <2>3 DEF Publish, RunningHoldSlots, TypeOK
  <2>4. ASSUME NEW j \in Jobs, Release(j)
        PROVE  IsFiniteSet(slots') /\ RunningHoldSlots'
    <3>1. IsFiniteSet(slots')
      BY <1>2, <2>4, FS_RemoveElement DEF Release
    <3>2. RunningHoldSlots'
      BY <1>1, <1>2, <2>4 DEF Release, RunningHoldSlots, TypeOK
    <3> QED BY <3>1, <3>2
  <2>5. CASE UNCHANGED <<job, slots>>
    BY <1>2, <2>5 DEF RunningHoldSlots
  <2> QED BY <2>1, <2>2, <2>3, <2>4, <2>5
          DEF Next, Work, Clean, CloseSync, Store, Tick, Visit, Forget, Clock, vars
<1> QED BY <1>1, <1>3 DEF SlotInv

\* What the lifecycle sees of the service.
status == [j \in Jobs |-> job[j].state]

\* The lifecycle starts where the service does.
LEMMA InitLifecycle == Init => Lifecycle!Init
BY DEF Init, Lifecycle!Init, NoJob

\* A step that gives one job another state gives it to the job's status.
LEMMA StatusStep ==
  ASSUME NEW j \in Jobs, NEW s, NEW new, job \in [Jobs -> Job],
         job' = [job EXCEPT ![j] = new], new.state = s
  PROVE  [k \in Jobs |-> job'[k].state] = [[k \in Jobs |-> job[k].state] EXCEPT ![j] = s]
OBVIOUS

\* The cardinality the lifecycle counts with is the library's.
LEMMA SameCardinality == \A S : Lifecycle!Cardinality(S) = Cardinality(S)
BY DEF Cardinality, Lifecycle!Cardinality

\* Every step of the service is a step of the lifecycle or changes no status.
LEMMA StepLifecycle ==
  ASSUME SlotInv, [Next]_vars
  PROVE  [Lifecycle!Next]_status
<1> USE DEF status
<1>0. job \in [Jobs -> Job]
  BY DEF SlotInv, TypeOK
<1>1. ASSUME NEW j \in Jobs, NEW sync \in BOOLEAN, NEW r \in Retentions, Submit(j, sync, r)
      PROVE  Lifecycle!Submit(j)
  <2> DEFINE new == [state |-> "pending", sync |-> sync, created |-> now,
                     ttl |-> resolveEffectiveTTL(r), ended |-> 0]
  <2>1. job' = [job EXCEPT ![j] = new] /\ new.state = "pending"
    BY <1>1 DEF Submit
  <2>2. status' = [status EXCEPT ![j] = "pending"]
    <3> HIDE DEF new
    <3> QED BY <1>0, <2>1, StatusStep
  <2> QED BY <1>1, <2>2 DEF Submit, Lifecycle!Submit
<1>2. ASSUME NEW j \in Jobs, Start(j)
      PROVE  Lifecycle!Run(j)
  <2>1. Cardinality(Lifecycle!In("running")) < Slots
    <3>1. Lifecycle!In("running") \subseteq slots
      BY DEF Lifecycle!In, SlotInv, RunningHoldSlots
    <3>2. /\ Cardinality(Lifecycle!In("running")) <= Cardinality(slots)
          /\ Cardinality(Lifecycle!In("running")) \in Nat
          /\ Cardinality(slots) \in Nat
      BY <3>1, FS_Subset, FS_CardinalityType DEF SlotInv
    <3> QED BY <1>2, <3>2, ConstantsAssumption DEF Start
  <2>2. status' = [status EXCEPT ![j] = "running"]
    BY <1>0, <1>2 DEF Start, Job
  <2> QED BY <1>2, <2>1, <2>2, SameCardinality DEF Start, Lifecycle!Run
<1>3. ASSUME NEW j \in Jobs, Publish(j)
      PROVE  Lifecycle!Settle(j)
  <2> DEFINE s == IF object[j] = "none" THEN "failed" ELSE "done"
  <2>1. status' = [status EXCEPT ![j] = s]
    BY <1>0, <1>3 DEF Publish, Job
  <2> QED BY <1>3, <2>1 DEF Publish, Lifecycle!Settle, Lifecycle!Ended
<1>4. CASE UNCHANGED job
  BY <1>4
<1> QED BY <1>1, <1>2, <1>3, <1>4
        DEF Next, Work, Clean, Release, CloseSync, Store, Tick, Visit, Forget, Clock,
            vars, Lifecycle!Next

\* The YouTube service's jobs go through the lifecycle they promise: at most
\* Slots of them run at a time, each runs once, and no outcome changes.
THEOREM VideoJobsImplementLifecycle == Spec => ImplementsLifecycle
<1>1. Init => SlotInv /\ Lifecycle!Init
  BY InitSlotInv, InitLifecycle
<1>2. SlotInv /\ [Next]_vars => SlotInv'
  BY NextSlotInv
<1>3. SlotInv /\ [Next]_vars => [Lifecycle!Next]_status
  BY StepLifecycle
<1> QED BY <1>1, <1>2, <1>3, PTL DEF Spec, ImplementsLifecycle, Lifecycle!Spec, status

-----------------------------------------------------------------------------
(* Retention: what the cleaner and the timers may have done by now.         *)

Known(j) == job[j].state # "unknown"

\* The cleaner acts on the past.
CleanerInv == cleaner.at <= now

\* A call uploads while it runs, and is dated by the clock.
CallInv(j) ==
  /\ job[j].state \in {"unknown", "pending", "failed"} => object[j] = "none"
  /\ job[j].state = "running" => object[j] \in {"none", "stored"}
  /\ Known(j) => job[j].created <= now
  /\ Done(j) => job[j].created <= job[j].ended /\ job[j].ended <= now

\* The cleaner sees the jobs of CreateJob only, and forgets expired ones.
ListInv(j) ==
  /\ j \in listed \cup cleaner.todo => Known(j) /\ ~job[j].sync
  /\ cleaner.closed = j => Known(j) /\ ~job[j].sync /\ Expired(j)
  /\ Known(j) /\ ~job[j].sync /\ j \notin listed =>
       job[j].ttl >= 0 /\ now - job[j].created > job[j].ttl

\* An object goes when its time is over; one that survives the cleaner's last
\* visit was stored after it.
ObjectInv(j) ==
  /\ Done(j) /\ object[j] # "stored" =>
       /\ job[j].ttl >= 0
       /\ IF job[j].sync THEN now - job[j].ended >= job[j].ttl
                         ELSE now - job[j].created > job[j].ttl
  /\ Done(j) /\ object[j] = "stored" /\ ~job[j].sync
       /\ (j \notin listed \/ cleaner.closed = j) => Late(j)

JobInv(j) == CallInv(j) /\ ListInv(j) /\ ObjectInv(j)
RetentionInv == TypeOK /\ CleanerInv /\ \A j \in Jobs : JobInv(j)

\* The numbers of a well typed state.
LEMMA Numbers ==
  ASSUME TypeOK, NEW j \in Jobs
  PROVE  /\ now \in Int /\ cleaner.at \in Int
         /\ job[j].created \in Int /\ job[j].ended \in Int /\ job[j].ttl \in Int
         /\ job[j].state \in State /\ job[j].sync \in BOOLEAN /\ object[j] \in Object
BY ConstantsAssumption DEF TypeOK, Job, Cleaner, Never

\* Nothing has been called yet.
LEMMA InitRetentionInv == Init => RetentionInv
<1> SUFFICES ASSUME Init PROVE RetentionInv
  OBVIOUS
<1>1. TypeOK
  BY InitType
<1>2. CleanerInv
  BY DEF Init, CleanerInv
<1>3. ASSUME NEW j \in Jobs PROVE JobInv(j)
  <2>1. /\ job[j] = NoJob /\ object[j] = "none" /\ listed = {}
        /\ cleaner.todo = {} /\ cleaner.closed = None /\ j # None
    BY ConstantsAssumption DEF Init
  <2> QED BY <2>1 DEF NoJob, JobInv, CallInv, ListInv, ObjectInv, Known, Done
<1> QED BY <1>1, <1>2, <1>3 DEF RetentionInv

\* A step that leaves a job, its object and its place with the cleaner alone
\* keeps what is known of the job, while time passes.
LEMMA OtherJob ==
  ASSUME RetentionInv, TypeOK', NEW j \in Jobs, now' >= now,
         job'[j] = job[j], object'[j] = object[j],
         j \in listed <=> j \in listed',
         j \in cleaner'.todo => j \in listed \cup cleaner.todo,
         cleaner'.closed = j => cleaner.closed = j /\ cleaner'.at = cleaner.at
  PROVE  JobInv(j)'
<1>1. /\ now \in Int /\ cleaner.at \in Int /\ job[j].created \in Int
      /\ job[j].ended \in Int /\ job[j].ttl \in Int /\ now' \in Int
  BY Numbers, ConstantsAssumption DEF RetentionInv, TypeOK
<1>2. JobInv(j)
  BY DEF RetentionInv
<1>3. CallInv(j)'
  BY <1>1, <1>2 DEF JobInv, CallInv, Known, Done
<1>4. ListInv(j)'
  BY <1>1, <1>2 DEF JobInv, ListInv, Known, Expired
<1>5. ObjectInv(j)'
  BY <1>1, <1>2 DEF JobInv, ObjectInv, Done, Late
<1> QED BY <1>3, <1>4, <1>5 DEF JobInv

\* The object Close leaves behind.
LEMMA CloseObject ==
  ASSUME NEW j \in Jobs, TypeOK, Close(j)
  PROVE  /\ object'[j] # "stored"
         /\ object[j] # "stored" => object'[j] = object[j]
         /\ \A k \in Jobs \ {j} : object'[k] = object[k]
<1>1. CASE object[j] # "stored"
  BY <1>1 DEF Close
<1>2. CASE object[j] = "stored"
  <2>1. PICK o \in {"deleted", "stuck"} : object' = [object EXCEPT ![j] = o]
    BY <1>2 DEF Close
  <2> QED BY <1>2, <2>1 DEF TypeOK
<1> QED BY <1>1, <1>2

\* A call's own steps keep what is known of its job, and touch no other.
LEMMA CallStep ==
  ASSUME RetentionInv, TypeOK', NEW j \in Jobs,
         \/ \E sync \in BOOLEAN, r \in Retentions : Submit(j, sync, r)
         \/ Work(j) \/ Store(j)
  PROVE  /\ now' = now /\ cleaner' = cleaner
         /\ \A k \in Jobs : JobInv(k)'
<1> DEFINE Frame == /\ now' = now /\ cleaner' = cleaner
                    /\ \A k \in Jobs \ {j} : /\ job'[k] = job[k] /\ object'[k] = object[k]
                                             /\ k \in listed <=> k \in listed'
<1>1. /\ TypeOK /\ JobInv(j) /\ cleaner.at <= now /\ job[j] \in Job
      /\ job \in [Jobs -> Job] /\ object \in [Jobs -> Object]
  BY DEF RetentionInv, TypeOK, CleanerInv
<1>2. /\ now \in Int /\ cleaner.at \in Int /\ job[j].created \in Int
      /\ job[j].ended \in Int /\ job[j].ttl \in Int /\ job[j].state \in State
      /\ job[j].sync \in BOOLEAN /\ object[j] \in Object
  BY <1>1, Numbers
<1> USE DEF JobInv, Known, Done
<1>3. ASSUME NEW sync \in BOOLEAN, NEW r \in Retentions, Submit(j, sync, r)
      PROVE  Frame /\ JobInv(j)'
  <2> DEFINE new == [state |-> "pending", sync |-> sync, created |-> now,
                     ttl |-> resolveEffectiveTTL(r), ended |-> 0]
  <2>1. /\ job' = [job EXCEPT ![j] = new] /\ object' = object
        /\ listed' = IF sync THEN listed ELSE listed \cup {j}
        /\ now' = now /\ cleaner' = cleaner /\ job[j].state = "unknown"
    BY <1>3 DEF Submit
  <2>2. /\ job'[j].state = "pending" /\ job'[j].sync = sync /\ job'[j].created = now
        /\ object'[j] = "none" /\ j \notin listed \cup cleaner.todo /\ cleaner.closed # j
    BY <1>1, <2>1 DEF CallInv, ListInv
  <2>3. Frame
    <3> HIDE DEF new
    <3> QED BY <1>1, <2>1
  <2>4. CallInv(j)'
    BY <1>2, <2>1, <2>2 DEF CallInv
  <2>5. ListInv(j)'
    BY <2>1, <2>2 DEF ListInv
  <2>6. ObjectInv(j)'
    BY <2>2 DEF ObjectInv
  <2> QED BY <2>3, <2>4, <2>5, <2>6
<1>4. ASSUME Start(j) PROVE Frame /\ JobInv(j)'
  <2>1. /\ job'[j] = [job[j] EXCEPT !.state = "running"] /\ object' = object
        /\ listed' = listed /\ now' = now /\ cleaner' = cleaner /\ job[j].state = "pending"
        /\ \A k \in Jobs \ {j} : job'[k] = job[k]
    BY <1>1, <1>4 DEF Start
  <2>2. /\ job'[j].state = "running" /\ job'[j].sync = job[j].sync
        /\ job'[j].created = job[j].created /\ job'[j].ttl = job[j].ttl
    BY <1>1, <2>1 DEF Job
  <2>3. CallInv(j)'
    BY <1>1, <2>1, <2>2 DEF CallInv
  <2>4. ListInv(j)'
    BY <1>1, <2>1, <2>2 DEF ListInv, Expired
  <2>5. ObjectInv(j)'
    BY <2>2 DEF ObjectInv
  <2> QED BY <2>1, <2>3, <2>4, <2>5
<1>5. ASSUME Publish(j) PROVE Frame /\ JobInv(j)'
  <2> DEFINE s == IF object[j] = "none" THEN "failed" ELSE "done"
  <2>1. /\ job'[j] = [job[j] EXCEPT !.state = s, !.ended = now] /\ object' = object
        /\ listed' = listed /\ now' = now /\ cleaner' = cleaner /\ job[j].state = "running"
        /\ \A k \in Jobs \ {j} : job'[k] = job[k]
    BY <1>1, <1>5 DEF Publish
  <2>2. /\ job'[j].state = s /\ job'[j].sync = job[j].sync /\ job'[j].ended = now
        /\ job'[j].created = job[j].created /\ job'[j].ttl = job[j].ttl
    BY <1>1, <2>1 DEF Job
  <2>3. /\ s \in {"done", "failed"}
        /\ s = "failed" => object[j] = "none"
        /\ s = "done" => object[j] = "stored"
    BY <1>1, <2>1 DEF CallInv
  <2> HIDE DEF s
  <2>4. CallInv(j)'
    BY <1>1, <1>2, <2>1, <2>2, <2>3 DEF CallInv
  <2>5. ListInv(j)'
    BY <1>1, <2>1, <2>2, <2>3 DEF ListInv, Expired
  <2>6. ObjectInv(j)'
    <3>1. ASSUME ~job[j].sync, j \notin listed \/ cleaner.closed = j
          PROVE  now - job[j].created > job[j].ttl
      BY <1>1, <1>2, <2>1, <3>1 DEF ListInv, Expired
    <3> QED BY <2>1, <2>2, <2>3, <3>1 DEF ObjectInv, Late
  <2> QED BY <2>1, <2>4, <2>5, <2>6
<1>6. ASSUME Store(j) PROVE Frame /\ JobInv(j)'
  <2>1. /\ job' = job /\ object'[j] = "stored" /\ job[j].state = "running"
        /\ listed' = listed /\ now' = now /\ cleaner' = cleaner
        /\ \A k \in Jobs \ {j} : object'[k] = object[k]
    BY <1>1, <1>6 DEF Store
  <2>2. CallInv(j)' /\ ListInv(j)' /\ ObjectInv(j)'
    BY <1>1, <2>1 DEF CallInv, ListInv, ObjectInv, Expired
  <2> QED BY <2>1, <2>2
<1>7. ASSUME CloseSync(j) PROVE Frame /\ JobInv(j)'
  <2>1. /\ job' = job /\ listed' = listed /\ now' = now /\ cleaner' = cleaner
        /\ job[j].sync /\ job[j].state = "done" /\ job[j].ttl >= 0
        /\ now - job[j].ended >= job[j].ttl /\ Close(j)
    BY <1>7 DEF CloseSync
  <2>2. object'[j] # "stored" /\ \A k \in Jobs \ {j} : object'[k] = object[k]
    BY <1>1, <2>1, CloseObject
  <2>3. CallInv(j)' /\ ListInv(j)' /\ ObjectInv(j)'
    BY <1>1, <2>1, <2>2 DEF CallInv, ListInv, ObjectInv, Expired
  <2> QED BY <2>1, <2>2, <2>3
<1>8. ASSUME Release(j) PROVE Frame /\ JobInv(j)'
  <2>1. UNCHANGED <<now, job, listed, object, cleaner>>
    BY <1>8 DEF Release
  <2>2. CallInv(j)' /\ ListInv(j)' /\ ObjectInv(j)'
    BY <1>1, <2>1 DEF CallInv, ListInv, ObjectInv, Expired, Late
  <2> QED BY <2>1, <2>2
<1>9. Frame /\ JobInv(j)'
  BY <1>3, <1>4, <1>5, <1>6, <1>7, <1>8 DEF Work
<1>10. ASSUME NEW k \in Jobs \ {j} PROVE JobInv(k)'
  <2> HIDE DEF JobInv
  <2> QED BY <1>2, <1>9, OtherJob
<1> QED BY <1>9, <1>10

\* The cleaner's steps keep what is known of every job.
LEMMA CleanStep ==
  ASSUME RetentionInv, TypeOK', Clean
  PROVE  CleanerInv' /\ \A k \in Jobs : JobInv(k)'
<1>1. TypeOK /\ now \in Int /\ cleaner.at \in Int /\ cleaner.at <= now
  BY ConstantsAssumption DEF RetentionInv, TypeOK, CleanerInv, Cleaner
<1>2. \A k \in Jobs : k # None
  BY ConstantsAssumption
<1>3. CASE Tick
  <2>1. /\ cleaner'.at = now /\ cleaner'.todo = listed /\ cleaner'.closed = None
        /\ UNCHANGED <<now, job, listed, object>>
    BY <1>3 DEF Tick
  <2>2. ASSUME NEW k \in Jobs PROVE JobInv(k)'
    BY <1>1, <1>2, <2>1, OtherJob
  <2> QED BY <1>1, <2>1, <2>2 DEF CleanerInv
<1>4. ASSUME NEW j \in Jobs, Visit(j)
      PROVE  CleanerInv' /\ \A k \in Jobs : JobInv(k)'
  <2>1. /\ cleaner'.at = cleaner.at /\ cleaner'.todo = cleaner.todo \ {j}
        /\ cleaner'.closed = IF Expired(j) THEN j ELSE None
        /\ UNCHANGED <<now, job, listed>>
        /\ j \in cleaner.todo /\ cleaner.closed = None
    BY <1>1, <1>4 DEF Visit, TypeOK, Cleaner
  <2>2. \A k \in Jobs \ {j} : object'[k] = object[k]
    BY <1>1, <1>4, CloseObject DEF Visit
  <2>3. /\ Expired(j) /\ Done(j) => object'[j] # "stored"
        /\ object[j] # "stored" \/ ~(Expired(j) /\ Done(j)) => object'[j] = object[j]
    BY <1>1, <1>4, CloseObject DEF Visit, Done
  <2>4. ASSUME NEW k \in Jobs \ {j} PROVE JobInv(k)'
    BY <1>1, <1>2, <2>1, <2>2, OtherJob
  <2>5. JobInv(j)'
    <3>1. /\ job[j].created \in Int /\ job[j].ended \in Int /\ job[j].ttl \in Int
          /\ JobInv(j) /\ ~job[j].sync /\ Known(j) /\ cleaner.closed # j
      BY <1>1, <1>2, <2>1, Numbers DEF RetentionInv, JobInv, ListInv
    <3>2. CallInv(j)'
      BY <2>1, <2>3, <3>1 DEF JobInv, CallInv, Known, Done
    <3>3. ListInv(j)'
      BY <1>2, <2>1, <3>1 DEF JobInv, ListInv, Known, Expired
    <3>4. ObjectInv(j)'
      <4>1. Expired(j) => job[j].ttl >= 0 /\ now - job[j].created > job[j].ttl
        BY <1>1, <3>1 DEF Expired
      <4>2. CASE Expired(j)
        BY <2>1, <2>3, <3>1, <4>1, <4>2 DEF JobInv, ObjectInv, Done
      <4>3. CASE ~Expired(j)
        BY <1>2, <2>1, <2>3, <3>1, <4>3 DEF JobInv, ObjectInv, Done, Late
      <4> QED BY <4>2, <4>3
    <3> QED BY <3>2, <3>3, <3>4 DEF JobInv
  <2> QED BY <1>1, <2>1, <2>4, <2>5 DEF CleanerInv
<1>5. CASE Forget
  <2> PICK j \in Jobs : cleaner.closed = j
    BY <1>1, <1>5 DEF Forget, TypeOK, Cleaner
  <2>1. /\ cleaner'.at = cleaner.at /\ cleaner'.todo = cleaner.todo /\ cleaner'.closed = None
        /\ listed' = listed \ {j} /\ UNCHANGED <<now, job, object>>
    BY <1>1, <1>5 DEF Forget, TypeOK, Cleaner
  <2>2. ASSUME NEW k \in Jobs \ {j} PROVE JobInv(k)'
    BY <1>1, <1>2, <2>1, OtherJob
  <2>3. JobInv(j)'
    <3>1. /\ job[j].created \in Int /\ job[j].ttl \in Int /\ JobInv(j)
      BY <1>1, <2>1, Numbers DEF RetentionInv
    <3>2. Known(j) /\ ~job[j].sync /\ Expired(j)
      BY <3>1 DEF JobInv, ListInv
    <3>3. job[j].ttl >= 0 /\ now - job[j].created > job[j].ttl
      BY <1>1, <3>1, <3>2 DEF Expired
    <3>4. CallInv(j)'
      BY <2>1, <3>1 DEF JobInv, CallInv, Known, Done
    <3>5. ListInv(j)'
      BY <1>2, <2>1, <3>2, <3>3 DEF ListInv, Known
    <3>6. ObjectInv(j)'
      <4>1. ~job[j].sync /\ (Done(j) /\ object[j] = "stored" => Late(j))
        BY <3>1, <3>2 DEF JobInv, ObjectInv
      <4> QED BY <2>1, <3>3, <4>1 DEF ObjectInv, Done, Late
    <3> QED BY <3>4, <3>5, <3>6 DEF JobInv
  <2> QED BY <1>1, <2>1, <2>2, <2>3 DEF CleanerInv
<1> QED BY <1>3, <1>4, <1>5 DEF Clean

\* Every step keeps the retention invariant.
LEMMA NextRetentionInv == RetentionInv /\ [Next]_vars => RetentionInv'
<1> SUFFICES ASSUME RetentionInv, [Next]_vars PROVE RetentionInv'
  OBVIOUS
<1>1. TypeOK' /\ now \in Int /\ cleaner.at \in Int /\ cleaner.at <= now
  BY NextType, ConstantsAssumption DEF RetentionInv, TypeOK, CleanerInv, Cleaner
<1>2. ASSUME NEW j \in Jobs,
             \/ \E sync \in BOOLEAN, r \in Retentions : Submit(j, sync, r)
             \/ Work(j) \/ Store(j)
      PROVE  RetentionInv'
  BY <1>1, <1>2, CallStep DEF RetentionInv, CleanerInv
<1>3. CASE Clean
  BY <1>1, <1>3, CleanStep DEF RetentionInv
<1>4. CASE Clock \/ UNCHANGED vars
  <2>1. /\ now' \in Int /\ now' >= now
        /\ UNCHANGED <<job, listed, object, cleaner>>
    BY <1>1, <1>4, ConstantsAssumption DEF Clock, vars
  <2>2. ASSUME NEW k \in Jobs PROVE JobInv(k)'
    BY <1>1, <2>1, OtherJob
  <2> QED BY <1>1, <2>1, <2>2 DEF RetentionInv, CleanerInv
<1> QED BY <1>2, <1>3, <1>4 DEF Next

\* The retention invariant always holds.
LEMMA RetentionInvariant == Spec => []RetentionInv
<1>1. Init => RetentionInv
  BY InitRetentionInv
<1>2. RetentionInv /\ [Next]_vars => RetentionInv'
  BY NextRetentionInv
<1> QED BY <1>1, <1>2, PTL DEF Spec

\* A client that polls within the retention it asked for finds its job, and a
\* finished job's object, however the cleaner, the timers and the goroutines
\* interleave.
THEOREM VideosAreKeptWhileRetained == Spec => []KeptWhileRetained
<1>1. RetentionInv => KeptWhileRetained
  <2> SUFFICES ASSUME RetentionInv, NEW j \in Jobs, job[j].state # "unknown", Retained(j)
               PROVE  /\ ~job[j].sync => j \in listed
                      /\ Done(j) => object[j] = "stored"
    BY DEF KeptWhileRetained
  <2>1. /\ now \in Int /\ job[j].created \in Int /\ job[j].ended \in Int /\ job[j].ttl \in Int
        /\ CallInv(j) /\ ListInv(j) /\ ObjectInv(j)
    BY Numbers DEF RetentionInv, JobInv
  <2>2. ~job[j].sync => j \in listed
    BY <2>1 DEF ListInv, Known, Retained
  <2>3. Done(j) => object[j] = "stored"
    BY <2>1 DEF CallInv, ObjectInv, Known, Done, Retained
  <2> QED BY <2>2, <2>3
<1> QED BY <1>1, RetentionInvariant, PTL

\* The cleaner loses sight of an object only when the download outlasted the
\* retention: the job was forgotten while it ran and stored its object after.
THEOREM VideoOrphansAreLate == Spec => []OrphansAreLate
<1>1. RetentionInv => OrphansAreLate
  BY DEF RetentionInv, JobInv, ObjectInv, OrphansAreLate, Orphan
<1> QED BY <1>1, RetentionInvariant, PTL
=============================================================================
