--------------------------- MODULE FfmpegJobsProofs ---------------------------
(****************************************************************************)
(* For any set of jobs, slots, outputs and retentions: FfmpegJobs is type   *)
(* correct, a finished job has all its outputs while they are retained, a   *)
(* failed one leaves none, and the service implements JobLifecycle.         *)
(****************************************************************************)
EXTENDS FfmpegJobs, FiniteSetTheorems, WellFoundedInduction, TLAPS

-----------------------------------------------------------------------------
(* Types *)

\* The effective TTL is Never or a positive duration.
LEMMA TTLType ==
  \A r \in Retentions : resolveEffectiveTTL(r) \in {Never} \cup (Nat \ {0})
<1> TAKE r \in Retentions
<1>1. r \in Int /\ JobTTL \in Nat \ {0}
  BY ConstantsAssumption
<1>2. CASE r < 0
  BY <1>1, <1>2 DEF resolveEffectiveTTL
<1>3. CASE r > 0
  BY <1>1, <1>3 DEF resolveEffectiveTTL
<1>4. CASE r = 0
  BY <1>1, <1>4 DEF resolveEffectiveTTL
<1> QED BY <1>1, <1>2, <1>3, <1>4

\* Outputs are finitely many.
LEMMA OutputsFinite ==
  /\ IsFiniteSet(Output) /\ MaxOutputs \in Nat
  /\ \A S \in SUBSET Output : IsFiniteSet(S) /\ S \in SUBSET Nat /\ Cardinality(S) \in Nat
<1>1. MaxOutputs \in Nat
  BY ConstantsAssumption
<1>2. IsFiniteSet(Output)
  BY <1>1, FS_Interval DEF Output
<1>3. \A i \in Output : i \in Nat
  BY <1>1 DEF Output
<1> QED BY <1>1, <1>2, <1>3, FS_Subset, FS_CardinalityType

\* The first of some outputs is one of them.
LEMMA FirstIsMember ==
  ASSUME NEW S \in SUBSET Output, S # {}
  PROVE  First(S) \in S
<1>0. IsFiniteSet(S) /\ \A k \in S : k \in Nat
  BY OutputsFinite
<1>1. IsWellFoundedOn(StrictSubsetOrdering(S), SUBSET S)
  BY <1>0, FS_StrictSubsetOrderingWellFounded, FS_FiniteSubsetsOfFinite
<1> DEFINE upto(x) == {k \in S : k <= x}
           T == {upto(x) : x \in S}
<1>2. PICK t \in T : \A u \in T : ~(<<u, t>> \in StrictSubsetOrdering(S))
  <2>1. T \subseteq SUBSET S /\ T # {}
    OBVIOUS
  <2> QED BY <1>1, <2>1, WFMin
<1>3. PICK x \in S : t = upto(x)
  OBVIOUS
<1>4. ASSUME NEW y \in S, y < x PROVE FALSE
  <2>1. ASSUME NEW k \in upto(y) PROVE k \in upto(x)
    <3>1. k \in S /\ k <= y /\ k \in Nat /\ x \in Nat /\ y \in Nat
      BY <1>0
    <3> QED BY <1>4, <3>1
  <2>2. x \in upto(x) /\ x \notin upto(y)
    BY <1>0, <1>4
  <2>3. <<upto(y), upto(x)>> \in StrictSubsetOrdering(S)
    BY <2>1, <2>2 DEF StrictSubsetOrdering
  <2> QED BY <1>2, <1>3, <2>3
<1>5. \E x_1 \in S : \A k \in S : x_1 <= k
  BY <1>0, <1>4
<1> QED BY <1>5 DEF First

\* TypeOK, and what the counting needs.
Typed == TypeOK /\ IsFiniteSet(cached) /\ IsFiniteSet(slots)

-----------------------------------------------------------------------------
(* What is true of one job: of its record b, the locals w of its goroutine, *)
(* its outputs o and its timer t at time n, while S holds the slots         *)

Active == {"act", "upload", "undo", "publish"}
Over == {"schedule", "release", "end"}

\* While it uploads, some outputs are missing, and those uploaded are the first ones.
UploadOK(w) ==
  w.at = "upload" =>
    \E k \in Nat : k < w.total /\ w.open = 1 .. k /\ Cardinality(w.open) = k

\* The state follows the goroutine.
StateOK(j, S, b, w) ==
  /\ w.at = "wait" => b.state \in {"unknown", "pending"}
  /\ w.at \in Active => b.state = "running" /\ j \in S
  /\ w.at \in Over => b.state = IF w.ok THEN "done" ELSE "failed"

\* What is stored is what the goroutine or the timer still holds: without an error all of
\* the outputs until the timer fires, after an error nothing in the end.
OutputOK(w, o, t, n) ==
  /\ \A i \in Output : o[i] = "stored" <=> i \in w.open
  /\ w.at \in {"wait", "act", "upload"} => w.ok
  /\ w.at \in {"wait", "act"} => w.open = {}
  /\ w.at = "undo" => ~w.ok /\ w.open # {}
  /\ ~w.ok /\ w.at # "undo" => w.open = {}
  /\ w.ok /\ w.at \in {"publish"} \cup Over /\ (t = Never \/ n < t) => w.open = 1 .. w.total

\* The timer counts from the end of the job.
TimerOK(b, w, t, n) ==
  /\ w.at \in Over => b.ended <= n
  /\ t # Never => w.at \in {"release", "end"} /\ b.ttl >= 0 /\ t >= b.ended + b.ttl

JobOK(j, S, b, w, o, t, n) ==
  UploadOK(w) /\ StateOK(j, S, b, w) /\ OutputOK(w, o, t, n) /\ TimerOK(b, w, t, n)

FfmpegInv ==
  Typed /\ \A j \in Jobs : JobOK(j, slots, job[j], work[j], object[j], wake[j], now)

\* Nothing is there initially.
LEMMA InitInv == Init => FfmpegInv
<1> SUFFICES ASSUME Init PROVE FfmpegInv
  OBVIOUS
<1>1. IsFiniteSet({}) /\ Cardinality({}) = 0
  BY FS_EmptySet
<1>2. NoJob \in Job /\ NoWork \in Work
  BY ConstantsAssumption DEF NoJob, Job, State, NoWork, Work, Label
<1>3. Typed
  BY <1>1, <1>2, ConstantsAssumption DEF Init, Typed, TypeOK, Object, Never
<1>4. ASSUME NEW j \in Jobs
      PROVE  JobOK(j, slots, job[j], work[j], object[j], wake[j], now)
  BY DEF Init, NoJob, NoWork, JobOK, UploadOK, StateOK, OutputOK, TimerOK, Active, Over, Never
<1> QED BY <1>3, <1>4 DEF FfmpegInv

\* What the invariant says of one job.
LEMMA OneJob ==
  ASSUME FfmpegInv, NEW j \in Jobs
  PROVE  /\ job[j] \in Job /\ work[j] \in Work /\ object[j] \in [Output -> Object]
         /\ wake[j] \in {Never} \cup Nat /\ wake[j] \in Int /\ now \in Nat /\ now \in 0 .. MaxTime
         /\ work[j].at \in Label /\ work[j].total \in 0 .. MaxOutputs /\ work[j].total \in Nat
         /\ work[j].open \in SUBSET Output /\ work[j].ok \in BOOLEAN
         /\ job[j].ended \in Nat /\ job[j].ttl \in {Never} \cup (Nat \ {0}) /\ job[j].ttl \in Int
         /\ UploadOK(work[j]) /\ StateOK(j, slots, job[j], work[j])
         /\ OutputOK(work[j], object[j], wake[j], now) /\ TimerOK(job[j], work[j], wake[j], now)
<1>1. /\ job[j] \in Job /\ work[j] \in Work /\ object[j] \in [Output -> Object]
      /\ wake[j] \in {Never} \cup Nat /\ now \in 0 .. MaxTime
  BY DEF FfmpegInv, Typed, TypeOK
<1>2. MaxTime \in Nat /\ MaxOutputs \in Nat
  BY ConstantsAssumption
<1>3. now \in Nat /\ wake[j] \in Int
  BY <1>1, <1>2 DEF Never
<1>4. /\ work[j].at \in Label /\ work[j].total \in 0 .. MaxOutputs /\ work[j].total \in Nat
      /\ work[j].open \in SUBSET Output /\ work[j].ok \in BOOLEAN
  BY <1>1, <1>2 DEF Work
<1>5. job[j].ended \in Nat /\ job[j].ttl \in {Never} \cup (Nat \ {0})
  BY <1>1, <1>2 DEF Job
<1>6. job[j].ttl \in Int
  BY <1>5 DEF Never
<1> QED BY <1>1, <1>3, <1>4, <1>5, <1>6 DEF FfmpegInv, JobOK

\* A step about one job keeps the invariant if what is true of that job stays so.
LEMMA LocalStep ==
  ASSUME FfmpegInv, NEW j \in Jobs,
         NEW b \in Job, NEW w \in Work, NEW o \in [Output -> Object],
         NEW t \in {Never} \cup Nat,
         job' = [job EXCEPT ![j] = b], work' = [work EXCEPT ![j] = w],
         object' = [object EXCEPT ![j] = o], wake' = [wake EXCEPT ![j] = t],
         UNCHANGED <<now, cached>>,
         slots' \in {slots, slots \cup {j}, slots \ {j}},
         UploadOK(w), StateOK(j, slots', b, w), OutputOK(w, o, t, now), TimerOK(b, w, t, now)
  PROVE  FfmpegInv'
<1>1. IsFiniteSet(slots') /\ slots' \subseteq Jobs
  <2>1. IsFiniteSet(slots) /\ slots \subseteq Jobs
    BY DEF FfmpegInv, Typed, TypeOK
  <2>2. IsFiniteSet(slots \cup {j}) /\ IsFiniteSet(slots \ {j})
    BY <2>1, FS_AddElement, FS_RemoveElement
  <2> QED BY <2>1, <2>2
<1>2. Typed'
  BY <1>1 DEF FfmpegInv, Typed, TypeOK
<1>3. ASSUME NEW k \in Jobs
      PROVE  JobOK(k, slots, job[k], work[k], object[k], wake[k], now)'
  <2>1. CASE k = j
    <3>1. job'[k] = b /\ work'[k] = w /\ object'[k] = o /\ wake'[k] = t /\ now' = now
      BY <2>1 DEF FfmpegInv, Typed, TypeOK
    <3>2. JobOK(j, slots', b, w, o, t, now)
      BY DEF JobOK
    <3> QED BY <2>1, <3>1, <3>2
  <2>2. CASE k # j
    <3>1. /\ job'[k] = job[k] /\ work'[k] = work[k] /\ object'[k] = object[k]
          /\ wake'[k] = wake[k] /\ now' = now /\ (k \in slots' <=> k \in slots)
      BY <2>2 DEF FfmpegInv, Typed, TypeOK
    <3>2. JobOK(k, slots, job[k], work[k], object[k], wake[k], now)
      BY DEF FfmpegInv
    <3>3. StateOK(k, slots', job[k], work[k])
      BY <3>1, <3>2 DEF JobOK, StateOK
    <3>4. JobOK(k, slots', job[k], work[k], object[k], wake[k], now)
      BY <3>2, <3>3 DEF JobOK
    <3> QED BY <3>1, <3>4
  <2> QED BY <2>1, <2>2
<1> QED BY <1>2, <1>3 DEF FfmpegInv

\* What a step leaves alone may be written as an update.
LEMMA Unchanged ==
  ASSUME FfmpegInv, NEW j \in Jobs
  PROVE  /\ job = [job EXCEPT ![j] = job[j]] /\ work = [work EXCEPT ![j] = work[j]]
         /\ object = [object EXCEPT ![j] = object[j]] /\ wake = [wake EXCEPT ![j] = wake[j]]
BY DEF FfmpegInv, Typed, TypeOK

-----------------------------------------------------------------------------
(* Each step keeps the invariant *)

\* A new job's record has its type.
LEMMA NewJobType ==
  ASSUME NEW ttl \in {Never} \cup (Nat \ {0}), NEW t \in 0 .. MaxTime
  PROVE  LET b == [NoJob EXCEPT !.state = "pending", !.created = t, !.ttl = ttl]
         IN  b \in Job /\ b.state = "pending"
<1>1. NoJob \in Job
  BY ConstantsAssumption DEF NoJob, Job, State
<1> QED BY <1>1 DEF Job, State

\* CreateJob: the job waits, and may push another out of the cache.
LEMMA CreateKeeps ==
  ASSUME FfmpegInv, NEW j \in Jobs, NEW r \in Retentions, CreateJob(j, r)
  PROVE  FfmpegInv'
<1> DEFINE b == [NoJob EXCEPT !.state = "pending", !.created = now,
                              !.ttl = resolveEffectiveTTL(r)]
<1>1. /\ job' = [job EXCEPT ![j] = b] /\ job[j].state = "unknown" /\ cached' \in Admit(j)
      /\ UNCHANGED <<now, slots, work, wake, object>>
  BY DEF CreateJob
<1>2. b \in Job /\ b.state = "pending"
  BY TTLType, NewJobType DEF FfmpegInv, Typed, TypeOK
<1>3. cached' \subseteq Jobs /\ IsFiniteSet(cached') /\ Cardinality(cached') <= CacheSize
  <2>0. /\ cached \subseteq Jobs /\ IsFiniteSet(cached) /\ Cardinality(cached) <= CacheSize
        /\ CacheSize \in Nat /\ Cardinality(cached) \in Nat
    BY ConstantsAssumption, FS_CardinalityType DEF FfmpegInv, Typed, TypeOK
  <2>1. CASE Cardinality(cached) < CacheSize
    <3>1. cached' = cached \cup {j}
      BY <1>1, <2>1 DEF Admit
    <3>2. /\ IsFiniteSet(cached')
          /\ Cardinality(cached') \in {Cardinality(cached), Cardinality(cached) + 1}
      BY <2>0, <3>1, FS_AddElement
    <3> QED BY <2>0, <2>1, <3>1, <3>2
  <2>2. CASE ~(Cardinality(cached) < CacheSize)
    <3>1. PICK k \in cached : cached' = (cached \ {k}) \cup {j}
      BY <1>1, <2>2 DEF Admit
    <3> DEFINE rest == cached \ {k}
    <3>2. IsFiniteSet(rest) /\ Cardinality(rest) = Cardinality(cached) - 1
      BY <2>0, FS_RemoveElement
    <3>3. cached' = rest \cup {j} /\ cached' \subseteq Jobs
      BY <2>0, <3>1
    <3> HIDE DEF rest
    <3>4. /\ IsFiniteSet(cached')
          /\ Cardinality(cached') \in {Cardinality(rest), Cardinality(rest) + 1}
      BY <3>2, <3>3, FS_AddElement
    <3> QED BY <2>0, <3>2, <3>3, <3>4
  <2> QED BY <2>1, <2>2
<1> HIDE DEF b
<1>4. Typed'
  BY <1>1, <1>2, <1>3 DEF FfmpegInv, Typed, TypeOK
<1>5. work[j].at = "wait" /\ wake[j] = Never
  <2>1. /\ work[j].at \in Label /\ StateOK(j, slots, job[j], work[j])
        /\ TimerOK(job[j], work[j], wake[j], now)
    BY OneJob
  <2>2. work[j].at = "wait"
    BY <1>1, <2>1 DEF StateOK, Label, Active, Over
  <2> QED BY <2>1, <2>2 DEF TimerOK
<1>6. ASSUME NEW k \in Jobs
      PROVE  JobOK(k, slots, job[k], work[k], object[k], wake[k], now)'
  <2>0. JobOK(k, slots, job[k], work[k], object[k], wake[k], now)
    BY DEF FfmpegInv
  <2>1. CASE k = j
    <3>1. job'[k] = b
      BY <1>1, <2>1 DEF FfmpegInv, Typed, TypeOK
    <3>2. JobOK(k, slots, b, work[k], object[k], wake[k], now)
      BY <1>2, <1>5, <2>0, <2>1 DEF JobOK, StateOK, TimerOK, Active, Over
    <3> QED BY <1>1, <3>1, <3>2
  <2>2. CASE k # j
    <3>1. job'[k] = job[k]
      BY <1>1, <2>2 DEF FfmpegInv, Typed, TypeOK
    <3> QED BY <1>1, <2>0, <3>1
  <2> QED BY <2>1, <2>2
<1> QED BY <1>4, <1>6 DEF FfmpegInv

\* The goroutine gets its slot.
LEMMA StartKeeps ==
  ASSUME FfmpegInv, NEW j \in Jobs, Start(j)
  PROVE  FfmpegInv'
<1> DEFINE b == [job[j] EXCEPT !.state = "running"]
           w == [work[j] EXCEPT !.at = "act"]
<1>1. /\ job[j].state = "pending" /\ slots' = slots \cup {j}
      /\ job' = [job EXCEPT ![j] = b] /\ work' = [work EXCEPT ![j] = w]
      /\ UNCHANGED <<now, cached, wake, object>>
  BY DEF Start
<1>2. /\ job[j] \in Job /\ work[j] \in Work /\ object[j] \in [Output -> Object]
      /\ wake[j] \in {Never} \cup Nat /\ work[j].at \in Label
      /\ StateOK(j, slots, job[j], work[j])
      /\ OutputOK(work[j], object[j], wake[j], now) /\ TimerOK(job[j], work[j], wake[j], now)
  BY OneJob
<1>3. work[j].at = "wait"
  BY <1>1, <1>2 DEF StateOK, Label, Active, Over
<1>4. b \in Job /\ b.state = "running"
  BY <1>2 DEF Job, State
<1>5. /\ w \in Work /\ w.at = "act" /\ w.open = work[j].open /\ w.ok = work[j].ok
      /\ w.total = work[j].total
  BY <1>2 DEF Work, Label
<1> HIDE DEF b, w
<1>6. UploadOK(w) /\ StateOK(j, slots', b, w)
  BY <1>1, <1>4, <1>5 DEF UploadOK, StateOK, Active, Over
<1>7. OutputOK(w, object[j], wake[j], now) /\ TimerOK(b, w, wake[j], now)
  BY <1>2, <1>3, <1>5 DEF OutputOK, TimerOK, Over
<1> QED BY <1>1, <1>2, <1>4, <1>5, <1>6, <1>7, LocalStep, Unchanged

\* A step of the goroutine that only changes its locals and its outputs.
LEMMA WorkStep ==
  ASSUME FfmpegInv, NEW j \in Jobs, NEW w \in Work, NEW o \in [Output -> Object],
         work' = [work EXCEPT ![j] = w], object' = [object EXCEPT ![j] = o],
         UNCHANGED <<now, job, cached, slots, wake>>,
         UploadOK(w), StateOK(j, slots, job[j], w), OutputOK(w, o, wake[j], now),
         TimerOK(job[j], w, wake[j], now)
  PROVE  FfmpegInv'
<1>1. /\ job[j] \in Job /\ wake[j] \in {Never} \cup Nat
  BY OneJob
<1> QED BY <1>1, LocalStep, Unchanged

\* What a goroutine that acts, uploads or undoes knows: its timer is not set.
LEMMA ActiveFacts ==
  ASSUME FfmpegInv, NEW j \in Jobs, work[j].at \in Active
  PROVE  /\ wake[j] = Never /\ job[j].state = "running" /\ j \in slots
         /\ work[j].at \notin Over
<1>1. StateOK(j, slots, job[j], work[j]) /\ TimerOK(job[j], work[j], wake[j], now)
  BY OneJob
<1> QED BY <1>1 DEF StateOK, TimerOK, Active, Over

\* ffmpeg has produced its outputs, or failed.
LEMMA RunKeeps ==
  ASSUME FfmpegInv, NEW j \in Jobs, RunFfmpeg(j)
  PROVE  FfmpegInv'
<1>1. /\ work[j].at = "act" /\ UNCHANGED <<now, job, cached, slots, wake, object>>
      /\ work' \in {[work EXCEPT ![j].at = "publish", ![j].ok = FALSE]} \cup
               {[work EXCEPT ![j].at = IF n = 0 THEN "publish" ELSE "upload",
                             ![j].total = n] : n \in 0 .. MaxOutputs}
  BY DEF RunFfmpeg
<1>2. /\ work[j] \in Work /\ object[j] \in [Output -> Object]
      /\ work[j].open = {} /\ work[j].ok /\ work[j].total \in 0 .. MaxOutputs
      /\ \A i \in Output : object[j][i] # "stored"
      /\ wake[j] = Never /\ job[j].state = "running" /\ j \in slots
  <2>1. work[j].at \in Active
    BY <1>1 DEF Active
  <2> QED BY <1>1, <2>1, OneJob, ActiveFacts DEF OutputOK
<1>3. CASE work' = [work EXCEPT ![j].at = "publish", ![j].ok = FALSE]
  <2> DEFINE w == [work[j] EXCEPT !.at = "publish", !.ok = FALSE]
  <2>1. w \in Work /\ w.at = "publish" /\ w.ok = FALSE /\ w.open = {}
    BY <1>2 DEF Work, Label
  <2>2. work' = [work EXCEPT ![j] = w]
    BY <1>3
  <2> HIDE DEF w
  <2>3. UploadOK(w) /\ StateOK(j, slots, job[j], w)
    BY <1>2, <2>1 DEF UploadOK, StateOK, Active, Over
  <2>4. OutputOK(w, object[j], wake[j], now) /\ TimerOK(job[j], w, wake[j], now)
    BY <1>2, <2>1 DEF OutputOK, TimerOK, Over
  <2> QED BY <1>1, <1>2, <2>1, <2>2, <2>3, <2>4, WorkStep, Unchanged
<1>4. ASSUME NEW n \in 0 .. MaxOutputs,
             work' = [work EXCEPT ![j].at = IF n = 0 THEN "publish" ELSE "upload",
                                  ![j].total = n]
      PROVE  FfmpegInv'
  <2> DEFINE w == [work[j] EXCEPT !.at = IF n = 0 THEN "publish" ELSE "upload", !.total = n]
  <2>0. MaxOutputs \in Nat /\ n \in Nat
    BY ConstantsAssumption
  <2>1. /\ w \in Work /\ w.at = (IF n = 0 THEN "publish" ELSE "upload") /\ w.ok
        /\ w.open = {} /\ w.total = n
    BY <1>2, <2>0 DEF Work, Label
  <2>2. work' = [work EXCEPT ![j] = w]
    BY <1>4
  <2> HIDE DEF w
  <2>3. UploadOK(w)
    <3> SUFFICES ASSUME w.at = "upload"
                 PROVE  \E k \in Nat : k < w.total /\ w.open = 1 .. k /\ Cardinality(w.open) = k
      BY DEF UploadOK
    <3>1. 0 < n /\ {} = 1 .. 0 /\ Cardinality({}) = 0
      BY <2>0, <2>1, FS_EmptySet
    <3> QED BY <2>1, <3>1
  <2>4. StateOK(j, slots, job[j], w)
    BY <1>2, <2>1 DEF StateOK, Active, Over
  <2>5. OutputOK(w, object[j], wake[j], now) /\ TimerOK(job[j], w, wake[j], now)
    <3>1. n = 0 => {} = 1 .. n
      BY <2>0
    <3> QED BY <1>2, <2>1, <3>1 DEF OutputOK, TimerOK, Over
  <2> QED BY <1>1, <1>2, <2>1, <2>2, <2>3, <2>4, <2>5, WorkStep, Unchanged
<1> QED BY <1>1, <1>3, <1>4

\* An output is uploaded: the one that comes after those that are.
LEMMA UploadKeeps ==
  ASSUME FfmpegInv, NEW j \in Jobs, UploadOutput(j)
  PROVE  FfmpegInv'
<1> DEFINE i == Cardinality(work[j].open) + 1
           w == [work[j] EXCEPT !.open = @ \cup {i},
                                !.at = IF i = work[j].total THEN "publish" ELSE @]
           o == [object[j] EXCEPT ![i] = "stored"]
<1>1. /\ work[j].at = "upload" /\ UNCHANGED <<now, job, cached, slots, wake>>
      /\ object' = [object EXCEPT ![j] = o] /\ work' = [work EXCEPT ![j] = w]
  BY DEF UploadOutput
<1>2. /\ work[j] \in Work /\ object[j] \in [Output -> Object] /\ UploadOK(work[j])
      /\ OutputOK(work[j], object[j], wake[j], now)
      /\ work[j].total \in 0 .. MaxOutputs /\ work[j].open \in SUBSET Output
      /\ wake[j] = Never /\ job[j].state = "running" /\ j \in slots
  <2>1. work[j].at \in Active
    BY <1>1 DEF Active
  <2> QED BY <2>1, OneJob, ActiveFacts
<1>3. PICK k \in Nat : k < work[j].total /\ work[j].open = 1 .. k /\ Cardinality(work[j].open) = k
  BY <1>1, <1>2 DEF UploadOK
<1>4. i = k + 1 /\ i \in 1 .. work[j].total /\ i \in Output /\ MaxOutputs \in Nat
      /\ work[j].total \in Nat
  BY <1>2, <1>3, ConstantsAssumption DEF Output
<1>5. work[j].open \cup {i} = 1 .. i
  BY <1>3, <1>4
<1> HIDE DEF i
<1>6. /\ w \in Work /\ w.at = (IF i = work[j].total THEN "publish" ELSE "upload")
      /\ w.open = 1 .. i /\ w.total = work[j].total /\ w.ok = work[j].ok
  BY <1>1, <1>2, <1>4, <1>5 DEF Work, Label
<1>7. /\ o \in [Output -> Object] /\ o[i] = "stored"
      /\ \A n \in Output : n # i => o[n] = object[j][n]
  BY <1>2, <1>4 DEF Object
<1>8. work[j].ok /\ \A n \in Output : object[j][n] = "stored" <=> n \in work[j].open
  BY <1>1, <1>2 DEF OutputOK
<1> HIDE DEF w, o
<1>9. UploadOK(w)
  <2> SUFFICES ASSUME w.at = "upload"
               PROVE  i \in Nat /\ i < w.total /\ w.open = 1 .. i /\ Cardinality(w.open) = i
    BY DEF UploadOK
  <2>1. Cardinality(1 .. i) = i
    BY <1>3, <1>4, FS_Interval
  <2> QED BY <1>3, <1>4, <1>6, <2>1
<1>10. StateOK(j, slots, job[j], w)
  BY <1>2, <1>6 DEF StateOK, Active, Over
<1>11. OutputOK(w, o, wake[j], now) /\ TimerOK(job[j], w, wake[j], now)
  <2>1. \A n \in Output : o[n] = "stored" <=> n \in w.open
    BY <1>5, <1>6, <1>7, <1>8
  <2> QED BY <1>2, <1>6, <1>8, <2>1 DEF OutputOK, TimerOK, Over
<1> QED BY <1>1, <1>6, <1>7, <1>9, <1>10, <1>11, WorkStep

\* An upload fails.
LEMMA UploadFailsKeeps ==
  ASSUME FfmpegInv, NEW j \in Jobs, UploadFails(j)
  PROVE  FfmpegInv'
<1> DEFINE w == [work[j] EXCEPT !.ok = FALSE,
                                !.at = IF work[j].open = {} THEN "publish" ELSE "undo"]
<1>1. /\ work[j].at = "upload" /\ UNCHANGED <<now, job, cached, slots, wake, object>>
      /\ work' = [work EXCEPT ![j] = w]
  BY DEF UploadFails
<1>2. /\ work[j] \in Work /\ object[j] \in [Output -> Object]
      /\ OutputOK(work[j], object[j], wake[j], now)
      /\ wake[j] = Never /\ job[j].state = "running" /\ j \in slots
  <2>1. work[j].at \in Active
    BY <1>1 DEF Active
  <2> QED BY <2>1, OneJob, ActiveFacts
<1>3. /\ w \in Work /\ w.at = (IF work[j].open = {} THEN "publish" ELSE "undo") /\ w.ok = FALSE
      /\ w.open = work[j].open
  BY <1>2 DEF Work, Label
<1> HIDE DEF w
<1>4. UploadOK(w) /\ StateOK(j, slots, job[j], w)
  BY <1>2, <1>3 DEF UploadOK, StateOK, Active, Over
<1>5. OutputOK(w, object[j], wake[j], now) /\ TimerOK(job[j], w, wake[j], now)
  BY <1>2, <1>3 DEF OutputOK, TimerOK, Over
<1> QED BY <1>1, <1>2, <1>3, <1>4, <1>5, WorkStep, Unchanged

\* Closing the first of the outputs held, by the goroutine or the timer.
LEMMA CloseFirstOne ==
  ASSUME FfmpegInv, NEW j \in Jobs, work[j].open # {}, CloseFirst(j)
  PROVE  \E o \in [Output -> Object] :
           /\ object' = [object EXCEPT ![j] = o]
           /\ \A n \in Output : o[n] = "stored" <=> n \in work[j].open \ {First(work[j].open)}
<1> DEFINE i == First(work[j].open)
<1>1. PICK s \in {"deleted", "stuck"} : object' = [object EXCEPT ![j][i] = s]
  BY DEF CloseFirst
<1>2. /\ object[j] \in [Output -> Object] /\ work[j].open \in SUBSET Output
      /\ \A n \in Output : object[j][n] = "stored" <=> n \in work[j].open
  BY OneJob DEF OutputOK
<1>3. i \in work[j].open /\ i \in Output
  BY <1>2, FirstIsMember
<1> DEFINE o == [object[j] EXCEPT ![i] = s]
<1>4. object' = [object EXCEPT ![j] = o]
  BY <1>1
<1> HIDE DEF i
<1>5. o \in [Output -> Object]
  BY <1>2, <1>3 DEF Object
<1>6. \A n \in Output : o[n] = IF n = i THEN s ELSE object[j][n]
  BY <1>2, <1>3
<1>7. \A n \in Output : o[n] = "stored" <=> n \in work[j].open \ {i}
  BY <1>2, <1>6
<1> QED BY <1>4, <1>5, <1>7 DEF i

\* After a failed upload the goroutine closes what it had uploaded.
LEMMA UndoKeeps ==
  ASSUME FfmpegInv, NEW j \in Jobs, UndoUpload(j)
  PROVE  FfmpegInv'
<1> DEFINE rest == work[j].open \ {First(work[j].open)}
           w == [work[j] EXCEPT !.open = rest, !.at = IF rest = {} THEN "publish" ELSE @]
<1>1. /\ work[j].at = "undo" /\ UNCHANGED <<now, job, cached, slots, wake>>
      /\ work' = [work EXCEPT ![j] = w] /\ CloseFirst(j)
  BY DEF UndoUpload
<1>2. /\ work[j] \in Work /\ ~work[j].ok /\ work[j].open # {} /\ work[j].open \in SUBSET Output
      /\ wake[j] = Never /\ job[j].state = "running" /\ j \in slots
  <2>1. work[j].at \in Active
    BY <1>1 DEF Active
  <2> QED BY <1>1, <2>1, OneJob, ActiveFacts DEF OutputOK
<1>3. PICK o \in [Output -> Object] :
        /\ object' = [object EXCEPT ![j] = o]
        /\ \A n \in Output : o[n] = "stored" <=> n \in rest
  BY <1>1, <1>2, CloseFirstOne
<1>4. rest \in SUBSET Output
  BY <1>2
<1> HIDE DEF rest
<1>5. w \in Work /\ w.at = (IF rest = {} THEN "publish" ELSE "undo") /\ ~w.ok /\ w.open = rest
  BY <1>1, <1>2, <1>4 DEF Work, Label
<1> HIDE DEF w
<1>6. UploadOK(w) /\ StateOK(j, slots, job[j], w)
  BY <1>2, <1>5 DEF UploadOK, StateOK, Active, Over
<1>7. OutputOK(w, o, wake[j], now) /\ TimerOK(job[j], w, wake[j], now)
  BY <1>2, <1>3, <1>5 DEF OutputOK, TimerOK, Over
<1> QED BY <1>1, <1>3, <1>5, <1>6, <1>7, WorkStep

\* The outcome is published.
LEMMA PublishKeeps ==
  ASSUME FfmpegInv, NEW j \in Jobs, Publish(j)
  PROVE  FfmpegInv'
<1> DEFINE b == [job[j] EXCEPT !.state = IF work[j].ok THEN "done" ELSE "failed", !.ended = now]
           w == [work[j] EXCEPT !.at = "schedule"]
<1>1. /\ work[j].at = "publish" /\ UNCHANGED <<now, cached, slots, wake, object>>
      /\ job' = [job EXCEPT ![j] = b] /\ work' = [work EXCEPT ![j] = w]
  BY DEF Publish
<1>2. /\ job[j] \in Job /\ work[j] \in Work /\ object[j] \in [Output -> Object]
      /\ now \in 0 .. MaxTime /\ now \in Nat
      /\ OutputOK(work[j], object[j], wake[j], now) /\ wake[j] = Never
  <2>1. work[j].at \in Active
    BY <1>1 DEF Active
  <2> QED BY <2>1, OneJob, ActiveFacts
<1>3. b \in Job /\ b.state = (IF work[j].ok THEN "done" ELSE "failed") /\ b.ended = now
  BY <1>2 DEF Job, State
<1>4. /\ w \in Work /\ w.at = "schedule" /\ w.open = work[j].open /\ w.ok = work[j].ok
      /\ w.total = work[j].total
  BY <1>2 DEF Work, Label
<1> HIDE DEF b, w
<1>5. UploadOK(w) /\ StateOK(j, slots, b, w)
  BY <1>3, <1>4 DEF UploadOK, StateOK, Active, Over
<1>6. OutputOK(w, object[j], wake[j], now)
  BY <1>1, <1>2, <1>4 DEF OutputOK, Over
<1>7. TimerOK(b, w, wake[j], now)
  BY <1>2, <1>3 DEF TimerOK
<1> QED BY <1>1, <1>2, <1>3, <1>4, <1>5, <1>6, <1>7, LocalStep, Unchanged

\* The timer of a job with a result and a lifetime starts.
LEMMA ScheduleKeeps ==
  ASSUME FfmpegInv, NEW j \in Jobs, ScheduleCleanup(j)
  PROVE  FfmpegInv'
<1> DEFINE t == IF work[j].ok /\ job[j].ttl >= 0 THEN now + job[j].ttl ELSE Never
           w == [work[j] EXCEPT !.at = "release"]
<1>1. /\ work[j].at = "schedule" /\ UNCHANGED <<now, job, cached, slots, object>>
      /\ wake' = [wake EXCEPT ![j] = t] /\ work' = [work EXCEPT ![j] = w]
  BY DEF ScheduleCleanup
<1>2. /\ job[j] \in Job /\ work[j] \in Work /\ object[j] \in [Output -> Object] /\ now \in Nat
      /\ job[j].ended \in Nat /\ job[j].ttl \in Int /\ work[j].ok \in BOOLEAN
      /\ StateOK(j, slots, job[j], work[j])
      /\ OutputOK(work[j], object[j], wake[j], now) /\ TimerOK(job[j], work[j], wake[j], now)
  BY OneJob
<1>3. wake[j] = Never /\ job[j].ended <= now
  BY <1>1, <1>2 DEF TimerOK, Over
<1>4. /\ t \in {Never} \cup Nat
      /\ t # Never => work[j].ok /\ job[j].ttl >= 0 /\ t >= job[j].ended + job[j].ttl
  BY <1>2, <1>3 DEF Never
<1>5. /\ w \in Work /\ w.at = "release" /\ w.open = work[j].open /\ w.ok = work[j].ok
      /\ w.total = work[j].total
  BY <1>2 DEF Work, Label
<1> HIDE DEF t, w
<1>6. UploadOK(w) /\ StateOK(j, slots, job[j], w)
  BY <1>1, <1>2, <1>5 DEF UploadOK, StateOK, Active, Over
<1>7. OutputOK(w, object[j], t, now)
  BY <1>1, <1>2, <1>3, <1>5 DEF OutputOK, Over
<1>8. TimerOK(job[j], w, t, now)
  BY <1>3, <1>4, <1>5 DEF TimerOK
<1> QED BY <1>1, <1>2, <1>4, <1>5, <1>6, <1>7, <1>8, LocalStep, Unchanged

\* The slot is given back.
LEMMA ReleaseKeeps ==
  ASSUME FfmpegInv, NEW j \in Jobs, Release(j)
  PROVE  FfmpegInv'
<1> DEFINE w == [work[j] EXCEPT !.at = "end"]
<1>1. /\ work[j].at = "release" /\ UNCHANGED <<now, job, cached, wake, object>>
      /\ slots' = slots \ {j} /\ work' = [work EXCEPT ![j] = w]
  BY DEF Release
<1>2. /\ job[j] \in Job /\ work[j] \in Work /\ object[j] \in [Output -> Object]
      /\ wake[j] \in {Never} \cup Nat
      /\ StateOK(j, slots, job[j], work[j])
      /\ OutputOK(work[j], object[j], wake[j], now) /\ TimerOK(job[j], work[j], wake[j], now)
  BY OneJob
<1>3. /\ w \in Work /\ w.at = "end" /\ w.open = work[j].open /\ w.ok = work[j].ok
      /\ w.total = work[j].total
  BY <1>2 DEF Work, Label
<1> HIDE DEF w
<1>4. UploadOK(w) /\ StateOK(j, slots', job[j], w)
  BY <1>1, <1>2, <1>3 DEF UploadOK, StateOK, Active, Over
<1>5. OutputOK(w, object[j], wake[j], now) /\ TimerOK(job[j], w, wake[j], now)
  BY <1>1, <1>2, <1>3 DEF OutputOK, TimerOK, Over
<1> QED BY <1>1, <1>2, <1>3, <1>4, <1>5, LocalStep, Unchanged

\* The timer closes an output.
LEMMA CloseKeeps ==
  ASSUME FfmpegInv, NEW j \in Jobs, CloseOutput(j)
  PROVE  FfmpegInv'
<1> DEFINE rest == work[j].open \ {First(work[j].open)}
           w == [work[j] EXCEPT !.open = rest]
<1>1. /\ wake[j] # Never /\ now >= wake[j] /\ work[j].open # {}
      /\ UNCHANGED <<now, job, cached, slots, wake>>
      /\ work' = [work EXCEPT ![j] = w] /\ CloseFirst(j)
  BY DEF CloseOutput
<1>2. /\ work[j] \in Work /\ work[j].open \in SUBSET Output /\ now \in Nat /\ wake[j] \in Int
      /\ StateOK(j, slots, job[j], work[j])
      /\ OutputOK(work[j], object[j], wake[j], now) /\ TimerOK(job[j], work[j], wake[j], now)
  BY OneJob
<1>3. PICK o \in [Output -> Object] :
        /\ object' = [object EXCEPT ![j] = o]
        /\ \A n \in Output : o[n] = "stored" <=> n \in rest
  BY <1>1, <1>2, CloseFirstOne
<1>4. rest \in SUBSET Output /\ rest \subseteq work[j].open /\ ~(now < wake[j])
  BY <1>1, <1>2
<1>5. work[j].at \in {"release", "end"}
  BY <1>1, <1>2 DEF TimerOK
<1> HIDE DEF rest
<1>6. /\ w \in Work /\ w.at = work[j].at /\ w.ok = work[j].ok /\ w.open = rest
      /\ w.total = work[j].total
  BY <1>2, <1>4 DEF Work
<1> HIDE DEF w
<1>7. UploadOK(w) /\ StateOK(j, slots, job[j], w)
  BY <1>2, <1>5, <1>6 DEF UploadOK, StateOK, Active, Over
<1>8. OutputOK(w, o, wake[j], now)
  BY <1>1, <1>2, <1>3, <1>4, <1>5, <1>6 DEF OutputOK
<1>9. TimerOK(job[j], w, wake[j], now)
  BY <1>2, <1>6 DEF TimerOK
<1> QED BY <1>1, <1>3, <1>6, <1>7, <1>8, <1>9, WorkStep

\* Polls and time only bring expirations nearer.
LEMMA OthersKeep ==
  ASSUME FfmpegInv, Clock \/ (\E j \in Jobs : GetJob(j)) \/ UNCHANGED vars
  PROVE  FfmpegInv'
<1>1. CASE Clock
  <2>1. /\ MaxTime \in Nat /\ now \in 0 .. MaxTime /\ UNCHANGED <<job, cached, slots, work, wake, object>>
        /\ now' = IF now < MaxTime THEN now + 1 ELSE now
    BY <1>1, ConstantsAssumption DEF Clock, FfmpegInv, Typed, TypeOK
  <2>2. now' \in 0 .. MaxTime /\ now \in Nat /\ now' \in Nat /\ now <= now'
    BY <2>1
  <2>3. Typed'
    BY <2>1, <2>2 DEF FfmpegInv, Typed, TypeOK
  <2>4. ASSUME NEW j \in Jobs
        PROVE  JobOK(j, slots, job[j], work[j], object[j], wake[j], now)'
    <3>1. /\ JobOK(j, slots, job[j], work[j], object[j], wake[j], now)
          /\ job[j].ended \in Nat /\ wake[j] \in Int
      BY OneJob DEF FfmpegInv
    <3>2. OutputOK(work[j], object[j], wake[j], now')
      BY <2>2, <3>1 DEF JobOK, OutputOK
    <3>3. TimerOK(job[j], work[j], wake[j], now')
      BY <2>2, <3>1 DEF JobOK, TimerOK
    <3>4. JobOK(j, slots, job[j], work[j], object[j], wake[j], now')
      BY <3>1, <3>2, <3>3 DEF JobOK
    <3> QED BY <2>1, <3>4
  <2> QED BY <2>3, <2>4 DEF FfmpegInv
<1>2. ASSUME NEW j \in Jobs, GetJob(j)
      PROVE  FfmpegInv'
  <2>1. /\ cached' \in {cached, cached \ {j}} /\ UNCHANGED <<now, job, slots, work, wake, object>>
    BY <1>2 DEF GetJob
  <2>2. /\ IsFiniteSet(cached) /\ Cardinality(cached) \in Nat /\ Cardinality(cached) <= CacheSize
        /\ CacheSize \in Nat /\ cached \subseteq Jobs
    BY ConstantsAssumption, FS_CardinalityType DEF FfmpegInv, Typed, TypeOK
  <2>3. /\ IsFiniteSet(cached')
        /\ Cardinality(cached') \in {Cardinality(cached), Cardinality(cached) - 1}
    BY <2>1, <2>2, FS_RemoveElement
  <2>4. IsFiniteSet(cached') /\ Cardinality(cached') <= CacheSize /\ cached' \subseteq Jobs
    BY <2>1, <2>2, <2>3
  <2> QED BY <2>1, <2>4 DEF FfmpegInv, Typed, TypeOK
<1>3. CASE UNCHANGED vars
  BY <1>3 DEF vars, FfmpegInv, Typed, TypeOK
<1> QED BY <1>1, <1>2, <1>3

\* Every step keeps the invariant.
LEMMA NextInv == FfmpegInv /\ [Next]_vars => FfmpegInv'
BY CreateKeeps, StartKeeps, RunKeeps, UploadKeeps, UploadFailsKeeps, UndoKeeps, PublishKeeps,
   ScheduleKeeps, ReleaseKeeps, CloseKeeps, OthersKeep DEF Next, Run, RunAction

-----------------------------------------------------------------------------
(* What the invariant gives *)

\* The invariant holds in every state.
LEMMA FfmpegInvariant == Spec => []FfmpegInv
BY InitInv, NextInv, PTL DEF Spec

\* Every variable of the FFmpeg job service keeps its type, and its cache never holds more
\* jobs than its size.
THEOREM FfmpegTypeCorrect == Spec => []TypeOK
<1>1. FfmpegInv => TypeOK
  BY DEF FfmpegInv, Typed
<1> QED BY <1>1, FfmpegInvariant, PTL

\* What a published state says of the goroutine.
LEMMA PublishedFacts ==
  ASSUME FfmpegInv, NEW j \in Jobs, job[j].state \in {"done", "failed"}
  PROVE  work[j].at \in Over /\ (work[j].ok <=> job[j].state = "done")
<1>1. work[j].at \in Label /\ work[j].ok \in BOOLEAN /\ StateOK(j, slots, job[j], work[j])
  BY OneJob
<1>2. work[j].at # "wait" /\ work[j].at \notin Active
  BY <1>1 DEF StateOK
<1>3. work[j].at \in Over
  BY <1>1, <1>2 DEF Label, Active, Over
<1>4. job[j].state = IF work[j].ok THEN "done" ELSE "failed"
  BY <1>1, <1>3 DEF StateOK
<1> QED BY <1>1, <1>3, <1>4

\* Whatever the jobs do, whoever sees one done finds all of its outputs in the bucket, and
\* finds them until its retention is over (FfmpegJobService.go, runAction, scheduleCleanup).
THEOREM OutputsStayComplete == Spec => []OutputsComplete
<1>1. ASSUME FfmpegInv PROVE OutputsComplete
  <2> SUFFICES ASSUME NEW j \in Jobs, job[j].state = "done",
                      job[j].ttl < 0 \/ now - job[j].ended < job[j].ttl,
                      NEW i \in 1 .. work[j].total
               PROVE  object[j][i] = "stored"
    BY DEF OutputsComplete, Done
  <2>1. work[j].at \in Over /\ work[j].ok
    BY <1>1, PublishedFacts
  <2>2. /\ wake[j] \in Int /\ now \in Nat /\ job[j].ended \in Nat /\ job[j].ttl \in Int
        /\ work[j].total \in 0 .. MaxOutputs
        /\ OutputOK(work[j], object[j], wake[j], now)
        /\ TimerOK(job[j], work[j], wake[j], now)
    BY <1>1, OneJob
  <2>3. wake[j] = Never \/ now < wake[j]
    <3>1. wake[j] # Never => job[j].ttl >= 0 /\ wake[j] >= job[j].ended + job[j].ttl
      BY <2>2 DEF TimerOK
    <3> QED BY <2>2, <3>1
  <2>4. work[j].open = 1 .. work[j].total
    BY <2>1, <2>2, <2>3 DEF OutputOK
  <2>5. i \in Output /\ i \in work[j].open
    BY <2>2, <2>4, ConstantsAssumption DEF Output
  <2> QED BY <2>2, <2>5 DEF OutputOK
<1> QED BY <1>1, FfmpegInvariant, PTL

\* A failed job leaves no output that nobody tried to delete, whichever of its uploads
\* failed (FfmpegJobService.go, runAction).
THEOREM FailuresLeaveNothing == Spec => []FailedJobsLeaveNothing
<1>1. ASSUME FfmpegInv PROVE FailedJobsLeaveNothing
  <2> SUFFICES ASSUME NEW j \in Jobs, job[j].state = "failed", NEW i \in Output
               PROVE  object[j][i] # "stored"
    BY DEF FailedJobsLeaveNothing
  <2>1. work[j].at \in Over /\ ~work[j].ok
    BY <1>1, PublishedFacts
  <2>2. OutputOK(work[j], object[j], wake[j], now)
    BY <1>1, OneJob
  <2>3. work[j].open = {}
    BY <2>1, <2>2 DEF OutputOK, Over
  <2> QED BY <2>2, <2>3 DEF OutputOK
<1> QED BY <1>1, FfmpegInvariant, PTL

-----------------------------------------------------------------------------
(* The refinement *)

\* What the lifecycle sees of the service.
status == [j \in Jobs |-> job[j].state]

\* The lifecycle starts where the service does.
LEMMA InitLifecycle == Init => Lifecycle!Init
BY DEF Init, Lifecycle!Init, NoJob

\* A step that gives one job another state gives it to the job's status.
LEMMA StatusStep ==
  ASSUME NEW j \in Jobs, NEW s, NEW b, job \in [Jobs -> Job],
         job' = [job EXCEPT ![j] = b], b.state = s
  PROVE  status' = [status EXCEPT ![j] = s]
BY DEF status

\* The cardinality the lifecycle counts with is the library's.
LEMMA SameCardinality == \A S : Lifecycle!Cardinality(S) = Cardinality(S)
BY DEF Cardinality, Lifecycle!Cardinality

\* Running jobs hold the slots, so there are no more of them.
LEMMA RunningBounded ==
  ASSUME FfmpegInv, Cardinality(slots) < Slots
  PROVE  Lifecycle!Cardinality(Lifecycle!In("running")) < Slots
<1> DEFINE R == Lifecycle!In("running")
<1>1. ASSUME NEW j \in R PROVE j \in slots
  <2>1. j \in Jobs /\ job[j].state = "running"
    BY DEF Lifecycle!In
  <2>2. work[j].at \in Label /\ StateOK(j, slots, job[j], work[j])
    BY <2>1, OneJob
  <2>3. work[j].at \in Active
    BY <2>1, <2>2 DEF StateOK, Label, Active, Over
  <2> QED BY <2>2, <2>3 DEF StateOK
<1>2. IsFiniteSet(slots) /\ Slots \in Nat
  BY ConstantsAssumption DEF FfmpegInv, Typed
<1> HIDE DEF R
<1>3. /\ Cardinality(R) <= Cardinality(slots)
      /\ Cardinality(R) \in Nat /\ Cardinality(slots) \in Nat
  BY <1>1, <1>2, FS_Subset, FS_CardinalityType
<1>4. Cardinality(R) < Slots
  BY <1>2, <1>3
<1> QED BY <1>4, SameCardinality DEF R

\* Every step of the service is one of the lifecycle or changes no state.
LEMMA StepLifecycle ==
  ASSUME FfmpegInv, [Next]_vars
  PROVE  [Lifecycle!Next]_status
<1>0. job \in [Jobs -> Job]
  BY DEF FfmpegInv, Typed, TypeOK
<1>1. ASSUME NEW j \in Jobs, NEW r \in Retentions, CreateJob(j, r)
      PROVE  Lifecycle!Submit(j)
  <2> DEFINE b == [NoJob EXCEPT !.state = "pending", !.created = now,
                                !.ttl = resolveEffectiveTTL(r)]
  <2>1. job' = [job EXCEPT ![j] = b] /\ b.state = "pending"
    BY <1>1 DEF CreateJob, NoJob
  <2> HIDE DEF b
  <2>2. status' = [status EXCEPT ![j] = "pending"]
    BY <1>0, <2>1, StatusStep
  <2> QED BY <1>1, <2>2 DEF CreateJob, Lifecycle!Submit, status
<1>2. ASSUME NEW j \in Jobs, Start(j)
      PROVE  Lifecycle!Run(j)
  <2>1. Lifecycle!Cardinality(Lifecycle!In("running")) < Slots
    BY <1>2, RunningBounded DEF Start
  <2>2. status' = [status EXCEPT ![j] = "running"]
    BY <1>0, <1>2 DEF Start, Job, status
  <2> QED BY <1>2, <2>1, <2>2 DEF Start, Lifecycle!Run, status
<1>3. ASSUME NEW j \in Jobs, Publish(j)
      PROVE  Lifecycle!Settle(j)
  <2> DEFINE s == IF work[j].ok THEN "done" ELSE "failed"
  <2>1. status' = [status EXCEPT ![j] = s]
    BY <1>0, <1>3 DEF Publish, Job, status
  <2>2. job[j].state = "running"
    BY <1>3, OneJob DEF Publish, StateOK, Active
  <2> QED BY <2>1, <2>2 DEF Lifecycle!Settle, Lifecycle!Ended, status
<1>4. CASE UNCHANGED job
  BY <1>4 DEF status
<1> QED BY <1>1, <1>2, <1>3, <1>4
        DEF Next, Run, RunAction, RunFfmpeg, UploadOutput, UploadFails, UndoUpload,
            ScheduleCleanup, Release, CloseOutput, GetJob, Clock, vars, Lifecycle!Next

\* The FFmpeg service's jobs go through the lifecycle they promise: at most Slots of them
\* run at a time, each runs once, and no outcome changes.
THEOREM FfmpegJobsImplementLifecycle == Spec => ImplementsLifecycle
<1>1. Init => Lifecycle!Init
  BY InitLifecycle
<1>2. FfmpegInv /\ [Next]_vars => [Lifecycle!Next]_status
  BY StepLifecycle
<1> QED BY <1>1, <1>2, FfmpegInvariant, PTL
        DEF Spec, ImplementsLifecycle, Lifecycle!Spec, status
=============================================================================
