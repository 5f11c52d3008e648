--------------------------- MODULE VideoExtractProofs --------------------------
(****************************************************************************)
(* For any video, interval, overlap and number of attempts: the slices      *)
(* cover the video, what is saved has the result of each of them in their   *)
(* order, and a pipeline is given up only for what is not retried.          *)
(****************************************************************************)
EXTENDS VideoExtract, FiniteSetTheorems, WellFoundedInduction, TLAPS

\* What is assumed of the constants, ...
ConstantsAreSound ==
  /\ Second \in Nat \ {0} /\ Overlap \in Nat /\ Interval \in Nat /\ Overlap < Interval
  /\ Durations \subseteq Nat /\ Attempts \in Nat \ {0}
  /\ Providers \subseteq {"gemini", "openrouter"}

\* ... and of the bound of the model.
SlicesAreBounded ==
  MaxSlices \in Nat /\ \A total \in {0} \cup Durations : Slices(total) \subseteq 1 .. MaxSlices

\* It is assumed.
LEMMA Assumed == ConstantsAreSound /\ SlicesAreBounded
BY ExtractAssumption DEF ConstantsAreSound, SlicesAreBounded

-----------------------------------------------------------------------------
(* The inductive invariant, about the run `r`, the mp4 `w`, the parts `m`,   *)
(* the embeddings `e` and results `x` that came, the jobs `g`, the bucket `b`*)
(* and the faults `f`.                                                       *)

Path == {"convert", "size", "slice", "thumb", "frame", "mp4", "upload", "stored"} \X Nat
Datum == [path : {NoPath} \cup Path, held : BOOLEAN, spent : BOOLEAN, closed : BOOLEAN]
Data == [inner : Datum, outer : Datum]
Part == [from : Nat, to : Nat, startTime : Nat, endTime : Nat, data : Data, frame : Datum,
         state : {"todo", "frame", "call", "ok", "failed"}, tries : 0 .. Attempts]
Run == [step : Steps, type : {"image", "video"}, embedder : {"gemini", "openrouter"},
        extractor : {"gemini", "openrouter"}, duration : {0} \cup Durations, cancelled : BOOLEAN, kept : BOOLEAN,
        tries : 0 .. Attempts - 1, outcome : {"none", "saved", "duplicate", "failed"},
        left : SUBSET Path]

Encoding == {"idle", "convert", "size", "slice"}
Describing == {"embed", "duplicate", "check", "extract", "combine", "thumb", "save"}
Parts(r) == IF r.type = "image" THEN {1} ELSE Slices(r.duration)

RunInv(r) ==
  /\ r \in Run
  /\ r.outcome = "none" <=> r.step \notin {"close", "done"}
  /\ r.type = "image" => r.step \notin {"convert", "size", "slice"}
  /\ r.step = "check" => r.type = "image"

\* The time and the data of each slice; a part that is called has tries left.
PartInv(i, p, r) ==
  /\ p.state = "call" => p.tries < Attempts
  /\ p.state \in {"todo", "frame"} =>
       p.tries = 0 /\ r.step = "embed" /\ r.type = "video" /\ r.embedder = "openrouter"
  /\ p.data.inner.path \in {NoPath, <<"slice", i>>}
  /\ p.data.outer.path \in {NoPath, <<"upload", i>>}
  /\ r.type = "image" => p.frame.path = <<"stored", 0>>
  /\ r.type = "video" =>
       /\ p.frame.path = <<"frame", i>>
       /\ p.from = StartOf(i) /\ p.to = SliceEnd(StartOf(i), r.duration)
       /\ p.startTime = p.from \div Second /\ p.endTime = p.to \div Second

MediaInv(r, m) ==
  /\ m = <<>> \/ m \in [Parts(r) -> Part]
  /\ r.step \in Describing => m \in [Parts(r) -> Part]
  /\ r.step \in Encoding => m = <<>>
  /\ \A i \in DOMAIN m : PartInv(i, m[i], r)

\* Jobs are submitted when their step comes, frames are taken of slices.
JobsInv(r, m, g) ==
  /\ g \in [Job -> {"none", "running", "done", "failed", "gone"}]
  /\ r.step = "idle" => \A k \in Job : g[k] = "none"
  /\ r.step = "convert" => g[<<"size", 0>>] = "none"
  /\ \A i \in 1 .. MaxSlices : g[<<"frame", i>>] # "none" => i \in DOMAIN m

TypesInv(r, w, m, g, b, f) ==
  /\ RunInv(r) /\ MediaInv(r, m)
  /\ w \in Data
  /\ w.inner.path \in {NoPath, <<"convert", 0>>} /\ w.outer.path \in {NoPath, <<"mp4", 0>>}
  /\ JobsInv(r, m, g)
  /\ b \subseteq Path
  /\ f \in [Fault -> Nat]

\* What came, each once and in any order ...
Enumerates(s, S) ==
  /\ s \in Seq(S)
  /\ \A k, l \in DOMAIN s : s[k] = s[l] => k = l
  /\ \A i \in S : \E k \in DOMAIN s : s[k] = i

Completed(m) == {i \in DOMAIN m : m[i].state = "ok"}

\* ... is what was called and is done.
OrderInv(r, m, e, x) ==
  /\ r.step \in Encoding => e = <<>>
  /\ r.step = "embed" => Enumerates(e, Completed(m))
  /\ r.step \in Describing \ {"embed"} \/ r.outcome = "saved" => Enumerates(e, DOMAIN m)
  /\ r.step \in Encoding \cup {"embed", "duplicate", "check"} => x = <<>>
  /\ r.step = "extract" => Enumerates(x, Completed(m))
  /\ r.step \in {"combine", "thumb", "save"} \/ r.outcome = "saved" => x = [i \in DOMAIN m |-> i]

NotRetriedKinds == {"get", "index", "job", "timeout", "expiry", "cancel"}
Clean(f) == \A k \in NotRetriedKinds : f[k] = 0

Available(d, b) == d.held \/ (~d.spent /\ d.path \in b)

\* The content can be had, and what was uploaded is there.
DataSound(d, b) ==
  /\ Available(d.inner, b)
  /\ Located(d.outer) => d.outer.path \in b
  /\ ~d.outer.closed
  /\ d.outer.spent /\ ~Located(d.outer) => d.inner.held

\* The frame of a slice waits in the bucket for the model.
FrameSound(i, p, g, b) ==
  /\ p.state \in {"todo", "frame"} => ~p.frame.spent
  /\ p.state = "todo" => g[<<"frame", i>>] = "none"
  /\ p.state = "frame" /\ g[<<"frame", i>>] = "done" => p.frame.path \in b
  /\ p.state = "call" => Available(p.frame, b)

PartSound(i, p, r, g, b, f) ==
  /\ DataSound(p.data, b)
  /\ p.state = "call" => p.tries <= f["llm"]
  /\ p.state = "failed" =>
       \/ f["llm"] >= Attempts
       \/ f["put"] > 0 /\ r.type = "video" /\ r.embedder = "openrouter"
  /\ p.state = "todo" => ~p.data.outer.spent /\ ~Located(p.data.outer)
  /\ r.type = "image" => p.frame.held \/ ~p.frame.spent
  /\ r.type = "video" /\ r.embedder = "openrouter" /\ r.step = "embed" => FrameSound(i, p, g, b)

JobsSound(r, g, b) ==
  /\ \A k \in Job : g[k] \notin {"failed", "gone"}
  /\ \A k \in MainJob \ {<<"slice", 0>>} : g[k] = "done" => k \in b
  /\ g[<<"slice", 0>>] = "done" => \A i \in Slices(r.duration) : <<"slice", i>> \in b

\* The mp4 is located from the first job that reads it.
Mp4Sound(r, w, g, b) ==
  /\ DataSound(w, b)
  /\ w.outer.spent => Located(w.outer)
  /\ g[<<"size", 0>>] # "none" => Located(w.outer)
  /\ r.type = "video" /\ r.step \in Describing \cup {"slice"} => Located(w.outer)

Sound(r, w, m, g, b, f) ==
  /\ ~r.cancelled
  /\ JobsSound(r, g, b)
  /\ Mp4Sound(r, w, g, b)
  /\ \A i \in DOMAIN m : PartSound(i, m[i], r, g, b, f)
  /\ r.tries <= f["llm"]

Open(r) == r.step \notin {"close", "done"}

\* All is in order as long as nothing went wrong that is not retried, ...
SoundInv(r, w, m, g, b, f) == Clean(f) /\ Open(r) => Sound(r, w, m, g, b, f)

\* ... and otherwise the pipeline may fail.
Excused(r, w, f) ==
  \/ ~Clean(f)
  \/ f["llm"] >= Attempts
  \/ f["put"] > 0 /\ r.type = "video" /\ (r.embedder = "openrouter" \/ ~Located(w.outer))
  \/ r.type = "video" /\ r.duration = 0

ExtractInv ==
  /\ TypesInv(run, mp4, media, jobs, bucket, faults)
  /\ OrderInv(run, media, embedded, results)
  /\ SoundInv(run, mp4, media, jobs, bucket, faults)
  /\ run.outcome = "failed" => Excused(run, mp4, faults)

-----------------------------------------------------------------------------
(* Slices *)

\* A nonempty set of numbers has a least element.
LEMMA LeastNumber ==
  ASSUME NEW S, S \subseteq Nat, S # {}
  PROVE  \E n \in S : \A k \in S : n <= k
<1> DEFINE less == {p \in Nat \X Nat : p[1] < p[2]}
<1>1. IsWellFoundedOn(less, Nat)
  BY NatLessThanWellFounded, Zenon DEF OpToRel
<1>2. PICK n \in S : \A k \in S : ~(<<k, n>> \in less)
  <2> HIDE DEF less
  <2> QED BY <1>1, WFMin, Zenon
<1>3. ASSUME NEW k \in S PROVE n <= k
  <2>1. n \in Nat /\ k \in Nat
    OBVIOUS
  <2>2. ~(k < n)
    BY <1>2, <2>1, Zenon
  <2> QED BY <2>1, <2>2
<1> QED BY <1>3

\* A set of positive numbers that has all the smaller ones is an interval.
LEMMA InitialInterval ==
  ASSUME NEW N \in Nat, NEW S, S \subseteq 1 .. N,
         \A i \in S : \A k \in 1 .. i : k \in S
  PROVE  \E n \in Nat : S = 1 .. n
<1> DEFINE Out == {k \in Nat \ {0} : k \notin S}
<1>1. N + 1 \in Out
  OBVIOUS
<1>2. PICK k \in Out : \A l \in Out : k <= l
  <2> HIDE DEF Out
  <2>1. Out \subseteq Nat
    BY DEF Out
  <2> QED BY <1>1, <2>1, LeastNumber
<1>3. S = 1 .. (k - 1)
  <2>1. ASSUME NEW i \in S PROVE i \in 1 .. (k - 1)
    <3>1. i \in 1 .. N
      OBVIOUS
    <3>2. k \notin 1 .. i
      BY <1>2
    <3> QED BY <1>2, <3>1, <3>2
  <2>2. ASSUME NEW i \in 1 .. (k - 1) PROVE i \in S
    BY <1>2
  <2> QED BY <2>1, <2>2
<1> QED BY <1>2, <1>3

\* Where slices start.
LEMMA Starts ==
  ASSUME ConstantsAreSound, NEW i \in Nat \ {0}, NEW k \in Nat \ {0}
  PROVE  /\ StartOf(i) \in Nat /\ i - 1 <= StartOf(i)
         /\ StartOf(1) = 0
         /\ StartOf(i + 1) = StartOf(i) + (Interval - Overlap)
         /\ i <= k => StartOf(i) <= StartOf(k)
<1> DEFINE S == Interval - Overlap
<1>1. S \in Nat \ {0}
  BY DEF ConstantsAreSound
<1> HIDE DEF S
<1>2. /\ (i - 1) * S \in Nat /\ i - 1 <= (i - 1) * S /\ (1 - 1) * S = 0
  BY <1>1
<1>3. (i + 1 - 1) * S = (i - 1) * S + S
  BY <1>1
<1>4. i <= k => (i - 1) * S <= (k - 1) * S
  BY <1>1
<1> QED BY <1>2, <1>3, <1>4 DEF StartOf, S

\* Slices are numbered from 1, and the first is never left out.
LEMMA SlicesNumbered ==
  ASSUME ConstantsAreSound, NEW total \in Nat
  PROVE  /\ \E n \in Nat : Slices(total) = 1 .. n
         /\ total > 0 => 1 \in Slices(total)
<1>1. Slices(total) \subseteq 1 .. total
  BY DEF Slices
<1>2. ASSUME NEW i \in Slices(total), NEW k \in 1 .. i PROVE k \in Slices(total)
  <2>1. i \in 1 .. total /\ StartOf(i) < total /\ ~Shorter(StartOf(i), total, Overlap)
    BY DEF Slices
  <2>2. k \in 1 .. total /\ k \in Nat \ {0} /\ i \in Nat \ {0} /\ k <= i
    BY <2>1
  <2>3. StartOf(k) \in Nat /\ StartOf(i) \in Nat /\ StartOf(k) <= StartOf(i)
    BY <2>2, Starts
  <2>4. Overlap \in Nat
    BY DEF ConstantsAreSound
  <2> QED BY <2>1, <2>2, <2>3, <2>4 DEF Slices, Shorter
<1>3. total > 0 => 1 \in Slices(total)
  <2>1. StartOf(1) = 0
    BY Starts
  <2> QED BY <2>1 DEF Slices, Shorter
<1> QED BY <1>1, <1>2, <1>3, InitialInterval

\* Every moment of the video is in a slice.
LEMMA SlicesCover ==
  ASSUME ConstantsAreSound, NEW total \in Nat, NEW t \in 0 .. total - 1
  PROVE  \E i \in Slices(total) : StartOf(i) <= t /\ t < SliceEnd(StartOf(i), total)
<1>1. PICK n \in Nat : Slices(total) = 1 .. n
  BY SlicesNumbered
<1>2. n >= 1
  BY <1>1, SlicesNumbered
<1> DEFINE Later == {k \in Nat : t < StartOf(k + 1)}
<1>3. t + 1 \in Later
  <2>1. t + 2 \in Nat \ {0} /\ (t + 1) + 1 = t + 2
    OBVIOUS
  <2>2. t + 2 - 1 <= StartOf(t + 2) /\ StartOf(t + 2) \in Nat
    BY <2>1, Starts
  <2> QED BY <2>1, <2>2
<1>4. PICK k \in Later : \A l \in Later : k <= l
  <2> HIDE DEF Later
  <2>1. Later \subseteq Nat
    BY DEF Later
  <2> QED BY <1>3, <2>1, LeastNumber
<1>5. k >= 1
  <2>1. StartOf(0 + 1) = 0
    BY Starts
  <2> QED BY <1>4, <2>1
<1>6. StartOf(k) <= t
  <2>1. k - 1 \in Nat /\ k - 1 \notin Later /\ (k - 1) + 1 = k
    BY <1>4, <1>5
  <2>2. StartOf(k) \in Nat
    BY <1>4, <1>5, Starts
  <2> QED BY <2>1, <2>2
<1>7. /\ Interval \in Nat /\ Overlap \in Nat
  BY DEF ConstantsAreSound
<1>8. CASE k <= n
  <2>1. StartOf(k + 1) = StartOf(k) + (Interval - Overlap) /\ StartOf(k) \in Nat
    BY <1>4, <1>5, Starts
  <2>2. t < StartOf(k) + Interval
    BY <1>4, <1>7, <2>1
  <2> QED BY <1>1, <1>4, <1>5, <1>6, <1>7, <1>8, <2>1, <2>2 DEF SliceEnd
<1>9. CASE ~(k <= n)
  <2>1. /\ StartOf(n + 1) = StartOf(n) + (Interval - Overlap)
        /\ StartOf(n) \in Nat /\ StartOf(n + 1) \in Nat
    BY <1>2, Starts
  <2>2. StartOf(n) <= StartOf(k)
    BY <1>2, <1>4, <1>5, <1>9, Starts
  <2>3. n + 1 \notin Slices(total)
    BY <1>1
  <2>4. StartOf(n + 1) >= total \/ Shorter(StartOf(n + 1), total, Overlap) \/ n + 1 > total
    BY <2>1, <2>3 DEF Slices
  <2>5. n + 1 > total => StartOf(n + 1) >= total
    <3>1. (n + 1) - 1 <= StartOf(n + 1)
      BY Starts
    <3> QED BY <2>1, <3>1
  <2>6. StartOf(n) + Interval >= total
    BY <1>7, <2>1, <2>4, <2>5 DEF Shorter
  <2>7. t < SliceEnd(StartOf(n), total)
    BY <1>7, <2>1, <2>6 DEF SliceEnd
  <2>8. StartOf(k) \in Nat
    BY <1>4, <1>5, Starts
  <2> QED BY <1>1, <1>2, <1>6, <2>1, <2>2, <2>7, <2>8
<1> QED BY <1>8, <1>9

\* Whole seconds.
LEMMA Seconds ==
  ASSUME ConstantsAreSound, NEW a \in Nat, NEW b \in Nat, a <= b
  PROVE  /\ a \div Second \in Nat
         /\ (a \div Second) * Second <= a /\ b < (b \div Second + 1) * Second
         /\ a \div Second <= b \div Second
<1>1. Second \in Nat \ {0}
  BY DEF ConstantsAreSound
<1> QED BY <1>1

\* A slice, and the next one.
LEMMA SliceTimes ==
  ASSUME ConstantsAreSound, NEW total \in Nat, NEW i \in Slices(total)
  PROVE  /\ i \in Nat \ {0}
         /\ StartOf(i) \in Nat /\ SliceEnd(StartOf(i), total) \in Nat
         /\ StartOf(i) <= SliceEnd(StartOf(i), total)
         /\ i + 1 \in Slices(total) =>
              /\ StartOf(i) < StartOf(i + 1)
              /\ StartOf(i + 1) <= SliceEnd(StartOf(i), total)
<1>1. i \in Nat \ {0} /\ StartOf(i) < total
  BY DEF Slices
<1>2. StartOf(i) \in Nat /\ StartOf(i + 1) = StartOf(i) + (Interval - Overlap)
  BY <1>1, Starts
<1>3. Interval \in Nat /\ Overlap \in Nat /\ Overlap < Interval
  BY DEF ConstantsAreSound
<1>4. i + 1 \in Slices(total) => StartOf(i + 1) < total
  BY DEF Slices
<1> QED BY <1>1, <1>2, <1>3, <1>4 DEF SliceEnd

-----------------------------------------------------------------------------
(* The order of the results *)

\* An enumeration of n things has n elements.
LEMMA EnumerationLength ==
  ASSUME NEW n \in Nat, NEW s, Enumerates(s, 1 .. n)
  PROVE  Len(s) = n /\ DOMAIN s = 1 .. n /\ s \in [1 .. n -> 1 .. n]
<1>1. Len(s) \in Nat /\ DOMAIN s = 1 .. Len(s) /\ s \in [1 .. Len(s) -> 1 .. n]
  BY DEF Enumerates
<1>2. s \in Bijection(1 .. Len(s), 1 .. n)
  <2>1. \A k, l \in 1 .. Len(s) : s[k] = s[l] => k = l
    BY <1>1 DEF Enumerates
  <2>2. \A i \in 1 .. n : \E k \in 1 .. Len(s) : s[k] = i
    BY <1>1 DEF Enumerates
  <2> QED BY <1>1, <2>1, <2>2 DEF Bijection, Injection, Surjection, IsInjective
<1>3. Cardinality(1 .. n) = Len(s)
  BY <1>1, <1>2, FS_CountingElements DEF ExistsBijection
<1>4. Cardinality(1 .. n) = n
  BY FS_Interval
<1> QED BY <1>1, <1>3, <1>4

\* Only the numbers themselves are in order from 1 to n.
LEMMA InOrder ==
  ASSUME NEW n \in Nat, NEW s \in [1 .. n -> 1 .. n],
         \A i, k \in 1 .. n : i < k => s[i] < s[k]
  PROVE  s = [i \in 1 .. n |-> i]
<1>1. ASSUME NEW i \in 1 .. n PROVE s[i] >= i
  <2> DEFINE Low == {k \in 1 .. n : s[k] < k}
  <2>1. SUFFICES ASSUME ~(s[i] >= i) PROVE FALSE
    OBVIOUS
  <2>2. PICK k \in Low : \A l \in Low : k <= l
    <3> HIDE DEF Low
    <3>1. Low \subseteq Nat /\ i \in Low
      BY <2>1 DEF Low
    <3> QED BY <3>1, LeastNumber
  <2>3. k - 1 \in 1 .. n /\ k - 1 \notin Low
    BY <2>2
  <2> QED BY <2>2, <2>3
<1>2. ASSUME NEW i \in 1 .. n PROVE s[i] <= i
  <2> DEFINE High == {j \in 0 .. n - 1 : s[n - j] > n - j}
  <2>1. SUFFICES ASSUME ~(s[i] <= i) PROVE FALSE
    OBVIOUS
  <2>2. PICK j \in High : \A l \in High : j <= l
    <3> HIDE DEF High
    <3>1. High \subseteq Nat
      BY DEF High
    <3>2. n - i \in High
      <4>1. n - i \in 0 .. n - 1 /\ n - (n - i) = i
        OBVIOUS
      <4> QED BY <2>1, <4>1 DEF High
    <3> QED BY <3>1, <3>2, LeastNumber
  <2>3. j # 0
    BY <2>2
  <2>4. j - 1 \in 0 .. n - 1 /\ j - 1 \notin High /\ n - (j - 1) = n - j + 1
    <3>1. j \in 0 .. n - 1 /\ j \in Nat /\ j - 1 \in 0 .. n - 1
      BY <2>2, <2>3
    <3>2. j - 1 \notin High
      <4> HIDE DEF High
      <4> QED BY <2>2, <3>1
    <3> QED BY <3>1, <3>2
  <2>5. s[n - j + 1] <= n - j + 1 /\ n - j \in 1 .. n /\ n - j + 1 \in 1 .. n
    BY <2>2, <2>4
  <2> QED BY <2>2, <2>5
<1> QED BY <1>1, <1>2

\* Sorted, the results are in the order of the slices.
LEMMA SortedBySlice ==
  ASSUME NEW n \in Nat, NEW s, Enumerates(s, 1 .. n)
  PROVE  BySlice(s) = [i \in 1 .. n |-> i]
<1>1. DOMAIN s = 1 .. n /\ s \in [1 .. n -> 1 .. n]
  BY EnumerationLength
<1>2. Range(s) = 1 .. n
  BY <1>1 DEF Range, Enumerates
<1> DEFINE Sorted(r) == /\ Range(r) = Range(s)
                        /\ \A i, k \in DOMAIN s : i < k => r[i] < r[k]
           same == [i \in 1 .. n |-> i]
<1>3. same \in [DOMAIN s -> Range(s)] /\ Sorted(same)
  BY <1>1, <1>2 DEF Range
<1>4. BySlice(s) = CHOOSE r \in [DOMAIN s -> Range(s)] : Sorted(r)
  BY DEF BySlice
<1>5. BySlice(s) \in [DOMAIN s -> Range(s)] /\ Sorted(BySlice(s))
  <2> HIDE DEF Sorted, same
  <2> QED BY <1>3, <1>4
<1> QED BY <1>1, <1>2, <1>5, InOrder

-----------------------------------------------------------------------------
(* Faults and temporary data *)

\* What fails is chosen.
LEMMA Chances ==
  ASSUME NEW k, NEW d, NEW w
  PROVE  /\ Succeeds(k) \subseteq BOOLEAN
         /\ Get(d) \subseteq BOOLEAN /\ Put(w) \subseteq BOOLEAN
BY DEF Succeeds, Get, Put

\* Faults only add up.
Grown(f, g) == f \in [Fault -> Nat] /\ g \in [Fault -> Nat] /\ \A k \in Fault : f[k] <= g[k]

\* Each failure is counted.
LEMMA BlameFacts ==
  ASSUME faults \in [Fault -> Nat], NEW S, Blame(S)
  PROVE  /\ Grown(faults, faults')
         /\ \A k \in S \cap Fault : faults'[k] = faults[k] + 1
         /\ Clean(faults') => Clean(faults) /\ \A k \in NotRetriedKinds : k \notin S
<1>1. NotRetriedKinds \subseteq Fault
  BY DEF NotRetriedKinds, Fault
<1>2. Grown(faults, faults') /\ \A k \in S \cap Fault : faults'[k] = faults[k] + 1
  BY DEF Blame, Grown
<1>3. ASSUME Clean(faults'), NEW k \in NotRetriedKinds PROVE faults[k] = 0 /\ k \notin S
  <2>1. /\ faults'[k] = 0 /\ faults[k] \in Nat /\ faults'[k] \in Nat /\ faults[k] <= faults'[k]
        /\ k \in Fault
    BY <1>1, <1>2, <1>3 DEF Clean, Grown
  <2>2. k \in S => faults'[k] = faults[k] + 1
    BY <1>2, <2>1
  <2> QED BY <2>1, <2>2
<1> QED BY <1>2, <1>3 DEF Clean

\* A clean past stays clean only if it was.
LEMMA GrownFacts ==
  ASSUME NEW f, NEW g, Grown(f, g)
  PROVE  /\ Clean(g) => Clean(f)
         /\ \A n \in Nat : f["llm"] >= n => g["llm"] >= n
         /\ \A n \in Nat : n <= f["llm"] => n <= g["llm"]
         /\ f["put"] > 0 => g["put"] > 0
         /\ g["llm"] \in Nat /\ g["put"] \in Nat
<1>1. /\ NotRetriedKinds \subseteq Fault /\ "llm" \in Fault /\ "put" \in Fault
  BY DEF NotRetriedKinds, Fault
<1>2. ASSUME Clean(g), NEW k \in NotRetriedKinds PROVE f[k] = 0
  <2>1. f[k] \in Nat /\ g[k] \in Nat /\ f[k] <= g[k] /\ g[k] = 0
    BY <1>1, <1>2 DEF Grown, Clean
  <2> QED BY <2>1
<1>3. f["llm"] \in Nat /\ g["llm"] \in Nat /\ f["llm"] <= g["llm"]
  BY <1>1 DEF Grown
<1>4. f["put"] \in Nat /\ g["put"] \in Nat /\ f["put"] <= g["put"]
  BY <1>1 DEF Grown
<1> QED BY <1>2, <1>3, <1>4 DEF Clean

\* What is available can be read, unless the download fails.
LEMMA GetFacts ==
  ASSUME NEW d, Available(d, bucket), NEW get \in Get(d), "get" \notin Unread(d, get)
  PROVE  get
<1>1. CASE ~NeedsDownload(d)
  BY <1>1 DEF Get
<1>2. CASE NeedsDownload(d)
  BY <1>2 DEF Get, Available, NeedsDownload, Present, Unread, Failing, Succeeds
<1> QED BY <1>1, <1>2

\* One side of temporary data.
LEMMA DatumFacts ==
  ASSUME NEW d \in Datum, NEW ok \in BOOLEAN, NEW path \in Path
  PROVE  /\ ResolveDownload(d, ok) \in Datum
         /\ ResolveDownload(d, ok).path = d.path /\ ResolveDownload(d, ok).closed = d.closed
         /\ ResolveDownload(d, ok).held <=> (d.held \/ (~d.spent /\ ok))
         /\ ResolveDownload(d, ok).spent <=> (d.spent \/ ~d.held)
         /\ ResolveUpload(d, path, ok) \in Datum
         /\ ResolveUpload(d, path, ok).path = IF NeedsUpload(d) /\ ok THEN path ELSE d.path
         /\ ResolveUpload(d, path, ok).closed = d.closed
         /\ ResolveUpload(d, path, ok).spent <=> (d.spent \/ ~Located(d))
         /\ Close(d) \in Datum /\ Close(d).path = d.path /\ (Close(d).held <=> d.held)
<1>1. /\ ResolveDownload(d, ok) \in Datum
      /\ ResolveDownload(d, ok).path = d.path /\ ResolveDownload(d, ok).closed = d.closed
      /\ ResolveDownload(d, ok).held <=> (d.held \/ (~d.spent /\ ok))
      /\ ResolveDownload(d, ok).spent <=> (d.spent \/ ~d.held)
  BY DEF ResolveDownload, NeedsDownload, Datum
<1>2. /\ ResolveUpload(d, path, ok) \in Datum
      /\ ResolveUpload(d, path, ok).path = IF NeedsUpload(d) /\ ok THEN path ELSE d.path
      /\ ResolveUpload(d, path, ok).closed = d.closed
      /\ ResolveUpload(d, path, ok).spent <=> (d.spent \/ ~Located(d))
  BY DEF ResolveUpload, NeedsUpload, Located, Datum
<1>3. Close(d) \in Datum /\ Close(d).path = d.path /\ (Close(d).held <=> d.held)
  BY DEF Close, Datum
<1> QED BY <1>1, <1>2, <1>3

\* Both sides.
LEMMA DataFacts ==
  ASSUME NEW w \in Data, NEW get \in BOOLEAN, NEW put \in BOOLEAN, NEW path \in Path
  PROVE  /\ Fetch(w, get) \in Data /\ Locate(w, path, get, put) \in Data
         /\ CloseWrapped(w) \in Data
         /\ Fetch(w, get).outer = w.outer
         /\ Fetch(w, get).inner = ResolveDownload(w.inner, get)
         /\ Fetch(w, get).inner.path = w.inner.path
         /\ Locate(w, path, get, put).inner.path = w.inner.path
         /\ Locate(w, path, get, put).outer.path \in {w.outer.path, path}
         /\ CloseWrapped(w).inner.path = w.inner.path
         /\ CloseWrapped(w).outer.path = w.outer.path
         /\ Uploaded(Locate(w, path, get, put)) \subseteq {w.outer.path, path} \ {NoPath}
<1>1. w.inner \in Datum /\ w.outer \in Datum
  BY DEF Data
<1>2. /\ Fetch(w, get) = [inner |-> ResolveDownload(w.inner, get), outer |-> w.outer]
  BY <1>1 DEF Data, Fetch
<1> DEFINE held == Readable(Fetch(w, get).inner) /\ put
<1>3. held \in BOOLEAN
  OBVIOUS
<1>4. Locate(w, path, get, put) =
        IF NeedsUpload(w.outer)
          THEN [inner |-> ResolveDownload(w.inner, get),
                outer |-> ResolveUpload(w.outer, path, held)] ELSE w
  BY <1>2 DEF Locate
<1>5. CloseWrapped(w) = [inner |-> Close(w.inner), outer |-> Close(w.outer)]
  BY DEF CloseWrapped
<1> HIDE DEF held
<1>6. Fetch(w, get) \in Data /\ Locate(w, path, get, put) \in Data /\ CloseWrapped(w) \in Data
  BY <1>1, <1>2, <1>3, <1>4, <1>5, DatumFacts DEF Data
<1>7. /\ Locate(w, path, get, put).inner.path = w.inner.path
      /\ Locate(w, path, get, put).outer.path \in {w.outer.path, path}
  <2>1. /\ ResolveDownload(w.inner, get).path = w.inner.path
        /\ ResolveUpload(w.outer, path, held).path \in {w.outer.path, path}
    BY <1>1, <1>3, DatumFacts
  <2>2. CASE NeedsUpload(w.outer)
    <3>1. /\ Locate(w, path, get, put).inner = ResolveDownload(w.inner, get)
          /\ Locate(w, path, get, put).outer = ResolveUpload(w.outer, path, held)
      BY <1>4, <2>2
    <3> QED BY <2>1, <3>1
  <2>3. CASE ~NeedsUpload(w.outer)
    BY <1>4, <2>3
  <2> QED BY <2>2, <2>3
<1>8. /\ CloseWrapped(w).inner.path = w.inner.path
      /\ CloseWrapped(w).outer.path = w.outer.path
  <2>1. Close(w.inner).path = w.inner.path /\ Close(w.outer).path = w.outer.path
    BY <1>1, DatumFacts
  <2> QED BY <1>5, <2>1
<1>9. Uploaded(Locate(w, path, get, put)) \subseteq {w.outer.path, path} \ {NoPath}
  BY <1>7 DEF Uploaded, Deletes, Located
<1>10. Fetch(w, get).outer = w.outer /\ Fetch(w, get).inner = ResolveDownload(w.inner, get)
  BY <1>2
<1>11. Fetch(w, get).inner.path = w.inner.path
  BY <1>1, <1>10, DatumFacts
<1> QED BY <1>6, <1>7, <1>8, <1>9, <1>10, <1>11

\* Data that is in order can be read, and is uploaded unless that fails.
LEMMA SoundFacts ==
  ASSUME NEW w \in Data, DataSound(w, bucket), NEW get \in BOOLEAN, NEW put \in BOOLEAN,
         NEW path \in Path, NEW b, bucket \cup Uploaded(Locate(w, path, get, put)) \subseteq b
  PROVE  /\ get => Fetch(w, get).inner.held /\ DataSound(Fetch(w, get), bucket)
         /\ get => LET l == Locate(w, path, get, put) IN
                   /\ DataSound(l, b) /\ (Located(l.outer) \/ l.inner.held)
                   /\ NeedsUpload(w.outer) => Located(l.outer) = put
                   /\ ~NeedsUpload(w.outer) => l = w
<1>1. w.inner \in Datum /\ w.outer \in Datum
  BY DEF Data
<1>2. /\ Fetch(w, get) = [inner |-> ResolveDownload(w.inner, get), outer |-> w.outer]
  BY <1>1 DEF Data, Fetch
<1> DEFINE f == ResolveDownload(w.inner, get)
           u == ResolveUpload(w.outer, path, f.held /\ put)
           l == Locate(w, path, get, put)
<1>3. f \in Datum /\ (get => f.held)
  BY <1>1, DatumFacts DEF DataSound, Available, Datum
<1>4. l = IF NeedsUpload(w.outer) THEN [inner |-> f, outer |-> u] ELSE w
  BY <1>2 DEF Locate, Readable
<1>5. get => Fetch(w, get).inner.held /\ DataSound(Fetch(w, get), bucket)
  <2>1. Fetch(w, get).inner = f /\ Fetch(w, get).outer = w.outer
    BY <1>2
  <2> HIDE DEF f
  <2> QED BY <1>3, <2>1 DEF DataSound, Available
<1>6. ASSUME get PROVE DataSound(l, b) /\ (Located(l.outer) \/ l.inner.held)
  <2>1. CASE NeedsUpload(w.outer)
    <3>1. /\ u.path = (IF put THEN path ELSE NoPath) /\ u.closed = w.outer.closed /\ u.spent
      <4>1. (f.held /\ put) \in BOOLEAN
        OBVIOUS
      <4>2. w.outer.path = NoPath
        BY <2>1 DEF NeedsUpload, Located
      <4>3. u = [w.outer EXCEPT !.spent = TRUE, !.path = IF put THEN path ELSE NoPath]
        BY <1>3, <1>6, <2>1 DEF ResolveUpload
      <4> HIDE DEF u
      <4> QED BY <1>1, <4>3 DEF Datum
    <3>2. l.inner = f /\ l.outer = u
      <4> HIDE DEF f, u, l
      <4> QED BY <1>4, <2>1
    <3>3. Located(u) => u.path \in Uploaded(l)
      BY <3>1, <3>2 DEF Uploaded, Deletes, DataSound
    <3> HIDE DEF f, u, l
    <3> QED BY <1>3, <1>6, <3>1, <3>2, <3>3 DEF DataSound, Available, l
  <2>2. CASE ~NeedsUpload(w.outer)
    <3>1. l = w
      BY <1>4, <2>2
    <3> HIDE DEF l
    <3> QED BY <2>2, <3>1 DEF DataSound, NeedsUpload, Available
  <2> QED BY <2>1, <2>2
<1>7. NeedsUpload(w.outer) /\ get => Located(l.outer) = put
  <2>1. SUFFICES ASSUME NeedsUpload(w.outer), get PROVE Located(l.outer) = put
    OBVIOUS
  <2>2. w.outer.path = NoPath
    BY <2>1 DEF NeedsUpload, Located
  <2>4. u.path = IF put THEN path ELSE NoPath
    BY <1>1, <1>3, <2>1 DEF ResolveUpload, Datum
  <2>5. path # NoPath
    BY DEF Path, NoPath
  <2>6. l.outer = u
    <3> HIDE DEF f, u, l
    <3> QED BY <1>4, <2>1
  <2> QED BY <2>4, <2>5, <2>6 DEF Located
<1> QED BY <1>4, <1>5, <1>6, <1>7

-----------------------------------------------------------------------------
(* What stays as it was *)

\* It is the same meme, described by the same models.
SameInput(r, q) == q.type = r.type /\ q.embedder = r.embedder /\ q.duration = r.duration

\* The bucket loses nothing but frames of the slices in `S`.
Left(S, b, c) == \A x \in b : x \in c \/ \E k \in S : x = <<"frame", k>>

\* A part stays sound.
LEMMA PartStays ==
  ASSUME NEW i, NEW p \in Part, NEW r, PartInv(i, p, r), NEW q, SameInput(r, q),
         q.step = r.step \/ q.step # "embed", NEW g, NEW h, h[<<"frame", i>>] = g[<<"frame", i>>],
         NEW b, NEW c, NEW S, i \notin S, Left(S, b, c), NEW f, NEW k, Grown(f, k),
         Attempts \in Nat, PartSound(i, p, r, g, b, f)
  PROVE  PartSound(i, p, q, h, c, k)
<1>1. /\ p.data \in Data /\ p.frame \in Datum /\ p.tries \in Nat
      /\ p.data.inner \in Datum /\ p.data.outer \in Datum
  BY DEF Part, Data
<1>2. DataSound(p.data, c)
  <2>1. \A x \in {NoPath, <<"slice", i>>, <<"upload", i>>} : x \in b => x \in c
    BY DEF Left, NoPath
  <2>2. p.data.inner.path \in b => p.data.inner.path \in c
    BY <2>1 DEF PartInv
  <2>3. p.data.outer.path \in b => p.data.outer.path \in c
    BY <2>1 DEF PartInv
  <2> QED BY <2>2, <2>3 DEF PartSound, DataSound, Available
<1>3. ASSUME q.type = "video", q.embedder = "openrouter", q.step = "embed"
      PROVE  FrameSound(i, p, h, c)
  <2>1. FrameSound(i, p, g, b)
    BY <1>3 DEF PartSound, SameInput
  <2>2. p.frame.path \in b => p.frame.path \in c
    BY <1>3 DEF PartInv, SameInput, Left
  <2> QED BY <2>1, <2>2 DEF FrameSound, Available
<1>4. p.state = "call" => p.tries <= k["llm"]
  BY <1>1, GrownFacts DEF PartSound
<1>5. p.state = "failed" => \/ k["llm"] >= Attempts
                            \/ k["put"] > 0 /\ q.type = "video" /\ q.embedder = "openrouter"
  BY GrownFacts DEF PartSound, SameInput
<1> QED BY <1>2, <1>3, <1>4, <1>5 DEF PartSound, SameInput

\* The mp4 stays sound.
LEMMA Mp4Stays ==
  ASSUME NEW w, w.inner.path \in {NoPath, <<"convert", 0>>}, w.outer.path \in {NoPath, <<"mp4", 0>>},
         NEW r, NEW g, NEW b, Mp4Sound(r, w, g, b), NEW q, NEW c, NEW S, Left(S, b, c),
         NEW h, h[<<"size", 0>>] # "none" => g[<<"size", 0>>] # "none" \/ Located(w.outer),
         q.type = "video" /\ q.step \in Describing \cup {"slice"} => Located(w.outer)
  PROVE  Mp4Sound(q, w, h, c)
<1>1. \A x \in {NoPath, <<"convert", 0>>, <<"mp4", 0>>} : x \in b => x \in c
  BY DEF Left, NoPath
<1>2. w.inner.path \in b => w.inner.path \in c
  BY <1>1
<1>3. w.outer.path \in b => w.outer.path \in c
  BY <1>1
<1> QED BY <1>2, <1>3 DEF Mp4Sound, DataSound, Available

\* The jobs stay sound.
LEMMA JobsStay ==
  ASSUME NEW r, NEW g, NEW b, JobsSound(r, g, b), NEW q, SameInput(r, q), NEW c, NEW S,
         Left(S, b, c)
  PROVE  JobsSound(q, g, c)
<1>1. ASSUME NEW k \in MainJob \ {<<"slice", 0>>}, k \in b PROVE k \in c
  BY <1>1 DEF Left, MainJob
<1>2. ASSUME NEW i, <<"slice", i>> \in b PROVE <<"slice", i>> \in c
  BY <1>2 DEF Left
<1> QED BY <1>1, <1>2 DEF JobsSound, SameInput

\* All stays sound while the pipeline goes on.
LEMMA SoundStays ==
  ASSUME ConstantsAreSound, NEW r, NEW w, NEW m, NEW g, NEW b, NEW f,
         TypesInv(r, w, m, g, b, f), Sound(r, w, m, g, b, f),
         NEW q, SameInput(r, q), ~q.cancelled, q.step = r.step \/ q.step # "embed",
         q.type = "video" /\ q.step \in Describing \cup {"slice"} => Located(w.outer),
         NEW k, Grown(f, k), q.tries <= k["llm"], NEW c, b \subseteq c
  PROVE  Sound(q, w, m, g, c, k)
<1>1. Left({}, b, c)
  BY DEF Left
<1>2. JobsSound(q, g, c)
  BY <1>1, JobsStay DEF Sound
<1>3. Mp4Sound(q, w, g, c)
  BY <1>1, Mp4Stays DEF Sound, TypesInv
<1>4. ASSUME NEW i \in DOMAIN m PROVE PartSound(i, m[i], q, g, c, k)
  <2>1. m[i] \in Part /\ PartInv(i, m[i], r) /\ Attempts \in Nat
    BY DEF TypesInv, MediaInv, ConstantsAreSound
  <2>2. PartSound(i, m[i], r, g, b, f)
    BY DEF Sound
  <2> QED BY <1>1, <2>1, <2>2, PartStays
<1> QED BY <1>2, <1>3, <1>4 DEF Sound

\* What excuses a failure goes on excusing it.
LEMMA ExcusedStays ==
  ASSUME NEW r, NEW w, NEW f, Excused(r, w, f), Attempts \in Nat, NEW q, SameInput(r, q),
         NEW v, Located(v.outer) => Located(w.outer), NEW k, Grown(f, k)
  PROVE  Excused(q, v, k)
BY GrownFacts DEF Excused, SameInput

\* The next step.
LEMMA AdvanceFacts ==
  ASSUME ConstantsAreSound, RunInv(run), Open(run), NEW next \in Describing \cup {"size", "slice"},
         run.type = "image" => next \notin {"size", "slice"}, next = "check" => run.type = "image",
         Advance(next)
  PROVE  /\ RunInv(run') /\ SameInput(run, run') /\ run'.step = next /\ run'.tries = 0
         /\ run'.cancelled = run.cancelled /\ run'.outcome = "none"
<1>1. run \in Run /\ 0 \in 0 .. Attempts - 1 /\ next \in Steps
  BY DEF RunInv, ConstantsAreSound, Steps, Describing
<1>2. /\ run' \in Run /\ SameInput(run, run') /\ run'.step = next /\ run'.tries = 0
      /\ run'.cancelled = run.cancelled /\ run'.outcome = run.outcome
  BY <1>1 DEF Run, Advance, SameInput
<1>3. run.outcome = "none" /\ next \notin {"close", "done", "convert"}
  BY DEF RunInv, Open, Describing
<1> QED BY <1>2, <1>3 DEF RunInv, SameInput

\* The pipeline is given up, or the meme is a duplicate.
LEMMA FailFacts ==
  ASSUME RunInv(run), Fail \/ Duplicate
  PROVE  /\ RunInv(run') /\ SameInput(run, run') /\ run'.step = "close" /\ ~Open(run')
         /\ run'.outcome = IF Fail THEN "failed" ELSE "duplicate"
<1>1. run \in Run /\ "close" \in Steps
  BY DEF RunInv, Steps
<1>2. /\ run' \in Run /\ SameInput(run, run') /\ run'.step = "close"
      /\ run'.outcome \in {"failed", "duplicate"}
      /\ Fail => run'.outcome = "failed"
      /\ Duplicate => run'.outcome = "duplicate"
  BY <1>1 DEF Run, Fail, Duplicate, SameInput
<1> QED BY <1>2 DEF RunInv, Open

\* The parts are unchanged.
LEMMA MediaStays ==
  ASSUME NEW r, NEW m, MediaInv(r, m), NEW q, SameInput(r, q),
         q.step \in Describing => r.step \in Describing, q.step \in Encoding => m = <<>>,
         \/ q.step = r.step \/ r.step # "embed"
         \/ \A i \in DOMAIN m : m[i].state \notin {"todo", "frame"}
  PROVE  MediaInv(q, m)
<1>1. Parts(q) = Parts(r)
  BY DEF Parts, SameInput
<1>2. \A i \in DOMAIN m : PartInv(i, m[i], q)
  BY DEF MediaInv, PartInv, SameInput
<1> QED BY <1>1, <1>2 DEF MediaInv

\* One part is changed.
LEMMA PartChanged ==
  ASSUME NEW r, NEW m, MediaInv(r, m), NEW i \in DOMAIN m, NEW p \in Part, PartInv(i, p, r)
  PROVE  MediaInv(r, [m EXCEPT ![i] = p]) /\ DOMAIN [m EXCEPT ![i] = p] = DOMAIN m
<1>1. m \in [Parts(r) -> Part] /\ r.step \notin Encoding
  BY DEF MediaInv
<1>2. [m EXCEPT ![i] = p] \in [Parts(r) -> Part]
  BY <1>1
<1>3. \A k \in DOMAIN m : PartInv(k, [m EXCEPT ![i] = p][k], r)
  BY <1>1 DEF MediaInv
<1> QED BY <1>1, <1>2, <1>3 DEF MediaInv

\* Nothing is promised of the order once the meme is not to be stored.
LEMMA OrderClosed ==
  ASSUME NEW r, r.step \in {"close", "done"}, r.outcome # "saved", NEW m, NEW e, NEW x
  PROVE  OrderInv(r, m, e, x)
BY DEF OrderInv, Encoding, Describing

\* The same parts are done.
LEMMA OrderStays ==
  ASSUME NEW r, NEW q, q.step = r.step, q.outcome = r.outcome, NEW m, NEW n,
         DOMAIN n = DOMAIN m, Completed(n) = Completed(m), NEW e, NEW x, OrderInv(r, m, e, x)
  PROVE  OrderInv(q, n, e, x)
BY DEF OrderInv

-----------------------------------------------------------------------------
(* What is made anew *)

\* Content, and objects.
LEMMA DataMade ==
  ASSUME NEW p \in Path
  PROVE  /\ FromPath(p) \in Datum /\ WrappedLocal \in Data /\ Wrapped(p) \in Data
         /\ \A b : DataSound(WrappedLocal, b) /\ (p \in b => DataSound(Wrapped(p), b))
         /\ FromPath(p).path = p /\ ~FromPath(p).spent
         /\ Wrapped(p).inner.path = p /\ Wrapped(p).outer.path = NoPath
         /\ ~Wrapped(p).outer.spent /\ ~Located(Wrapped(p).outer)
         /\ WrappedLocal.inner.path = NoPath /\ WrappedLocal.outer.path = NoPath
         /\ ~WrappedLocal.outer.spent
<1>1. FromPath(p) \in Datum /\ FromLocal \in Datum
  BY DEF FromPath, FromLocal, Datum
<1>2. WrappedLocal \in Data /\ Wrapped(p) \in Data
  BY <1>1 DEF WrappedLocal, Wrapped, Data
<1>3. \A b : DataSound(WrappedLocal, b) /\ (p \in b => DataSound(Wrapped(p), b))
  BY DEF DataSound, Available, Located, WrappedLocal, Wrapped, FromPath, FromLocal
<1>4. /\ FromPath(p).path = p /\ ~FromPath(p).spent
      /\ Wrapped(p).inner.path = p /\ Wrapped(p).outer.path = NoPath
      /\ ~Wrapped(p).outer.spent /\ ~Located(Wrapped(p).outer)
      /\ WrappedLocal.inner.path = NoPath /\ WrappedLocal.outer.path = NoPath
      /\ ~WrappedLocal.outer.spent
  BY DEF Located, WrappedLocal, Wrapped, FromPath, FromLocal
<1> QED BY <1>1, <1>2, <1>3, <1>4

\* A part of which nothing was asked yet.
LEMMA PartMade ==
  ASSUME NEW a \in Nat, NEW z \in Nat, NEW s \in Nat, NEW t \in Nat, NEW d \in Data,
         NEW f \in Datum, NEW first \in {"call", "todo"}, Attempts \in Nat,
         NEW p, p = [from |-> a, to |-> z, startTime |-> s, endTime |-> t, data |-> d,
                     frame |-> f, state |-> first, tries |-> 0]
  PROVE  /\ p \in Part /\ p.state = first /\ p.tries = 0 /\ p.data = d /\ p.frame = f
         /\ p.from = a /\ p.to = z /\ p.startTime = s /\ p.endTime = t
BY DEF Part

\* The part of an image.
LEMMA ImageMade ==
  ASSUME ConstantsAreSound
  PROVE  LET p == [ImagePart EXCEPT !.state = "call"] IN
         /\ p \in Part /\ p.state = "call" /\ p.tries = 0 /\ p.data = WrappedLocal
         /\ p.frame = FromPath(<<"stored", 0>>)
<1> DEFINE p == [ImagePart EXCEPT !.state = "call"]
           end == SliceEnd(0, 0)
           startTime == 0 \div Second
           endTime == end \div Second
<1>1. p = [from |-> 0, to |-> end, startTime |-> startTime, endTime |-> endTime,
           data |-> WrappedLocal, frame |-> FromPath(<<"stored", 0>>),
           state |-> "call", tries |-> 0]
  <2> DEFINE slice == Wrapped(<<"slice", 1>>)
             taken == FromPath(<<"frame", 1>>)
             frame == FromPath(<<"stored", 0>>)
  <2>1. SliceOf(0, 1, 0) =
          [from |-> 0, to |-> end, startTime |-> startTime, endTime |-> endTime,
           data |-> slice, frame |-> taken, state |-> "todo", tries |-> 0]
    BY DEF SliceOf
  <2>2. ImagePart = [SliceOf(0, 1, 0) EXCEPT !.data = WrappedLocal, !.frame = frame]
    BY DEF ImagePart
  <2> HIDE DEF end, startTime, endTime, slice, taken, frame
  <2>3. ImagePart =
          [from |-> 0, to |-> end, startTime |-> startTime, endTime |-> endTime,
           data |-> WrappedLocal, frame |-> frame, state |-> "todo", tries |-> 0]
    <3> HIDE DEF p
    <3>1. PICK s : s = SliceOf(0, 1, 0)
      OBVIOUS
    <3>2. s = [from |-> 0, to |-> end, startTime |-> startTime, endTime |-> endTime,
               data |-> slice, frame |-> taken, state |-> "todo", tries |-> 0]
      BY <2>1, <3>1
    <3>3. ImagePart = [s EXCEPT !.data = WrappedLocal, !.frame = frame]
      BY <2>2, <3>1
    <3> QED BY <3>2, <3>3
  <2>4. p = [from |-> 0, to |-> end, startTime |-> startTime, endTime |-> endTime,
             data |-> WrappedLocal, frame |-> frame, state |-> "call", tries |-> 0]
    BY <2>3
  <2> QED BY <2>4 DEF frame
<1>2. end = 0
  BY DEF SliceEnd, ConstantsAreSound
<1>3. end \in Nat /\ startTime \in Nat /\ endTime \in Nat
  BY <1>2, Seconds
<1>4. <<"stored", 0>> \in Path /\ 0 \in Nat /\ "call" \in {"call", "todo"} /\ Attempts \in Nat
  BY DEF Path, ConstantsAreSound
<1>5. WrappedLocal \in Data /\ FromPath(<<"stored", 0>>) \in Datum
  BY <1>4, DataMade
<1> HIDE DEF p, end, startTime, endTime
<1>6. /\ p \in Part /\ p.state = "call" /\ p.tries = 0 /\ p.data = WrappedLocal
      /\ p.frame = FromPath(<<"stored", 0>>)
  BY <1>1, <1>3, <1>4, <1>5, PartMade
<1> QED BY <1>6 DEF p

\* A slice.
LEMMA SliceMade ==
  ASSUME ConstantsAreSound, NEW total \in Nat, NEW i \in Slices(total), NEW first \in {"call", "todo"}
  PROVE  LET p == [SliceOf(StartOf(i), i, total) EXCEPT !.state = first] IN
         /\ p \in Part /\ p.state = first /\ p.tries = 0 /\ p.data = Wrapped(<<"slice", i>>)
         /\ p.frame = FromPath(<<"frame", i>>)
         /\ p.from = StartOf(i) /\ p.to = SliceEnd(StartOf(i), total)
         /\ p.startTime = p.from \div Second /\ p.endTime = p.to \div Second
<1> DEFINE p == [SliceOf(StartOf(i), i, total) EXCEPT !.state = first]
           start == StartOf(i)
           end == SliceEnd(StartOf(i), total)
           startTime == start \div Second
           endTime == end \div Second
<1>1. p = [from |-> start, to |-> end, startTime |-> startTime, endTime |-> endTime,
           data |-> Wrapped(<<"slice", i>>), frame |-> FromPath(<<"frame", i>>),
           state |-> first, tries |-> 0]
  BY DEF SliceOf
<1>2. i \in Nat /\ start \in Nat /\ end \in Nat
  BY SliceTimes
<1>3. startTime \in Nat /\ endTime \in Nat
  <2> HIDE DEF start, end
  <2> QED BY <1>2, Seconds
<1>4. <<"slice", i>> \in Path /\ <<"frame", i>> \in Path /\ Attempts \in Nat
  BY <1>2 DEF Path, ConstantsAreSound
<1>5. Wrapped(<<"slice", i>>) \in Data /\ FromPath(<<"frame", i>>) \in Datum
  BY <1>4, DataMade
<1>6. /\ p \in Part /\ p.state = first /\ p.tries = 0 /\ p.data = Wrapped(<<"slice", i>>)
      /\ p.frame = FromPath(<<"frame", i>>)
      /\ p.from = start /\ p.to = end /\ p.startTime = startTime /\ p.endTime = endTime
  <2> DEFINE data == Wrapped(<<"slice", i>>)
             frame == FromPath(<<"frame", i>>)
  <2>1. data \in Data /\ frame \in Datum
    BY <1>5
  <2>2. p = [from |-> start, to |-> end, startTime |-> startTime, endTime |-> endTime,
             data |-> data, frame |-> frame, state |-> first, tries |-> 0]
    BY <1>1
  <2> HIDE DEF p, start, end, startTime, endTime, data, frame
  <2>3. /\ p \in Part /\ p.state = first /\ p.tries = 0 /\ p.data = data /\ p.frame = frame
        /\ p.from = start /\ p.to = end /\ p.startTime = startTime /\ p.endTime = endTime
    <3>1. Attempts \in Nat
      BY <1>4
    <3> QED BY <1>2, <1>3, <2>1, <2>2, <3>1, PartMade
  <2> QED BY <2>3 DEF data, frame
<1> HIDE DEF p
<1>7. p.startTime = p.from \div Second /\ p.endTime = p.to \div Second
  BY <1>6
<1> QED BY <1>6, <1>7 DEF p

\* Nothing has come of nothing.
LEMMA NothingCame ==
  ASSUME NEW S, \A i \in S : FALSE
  PROVE  Enumerates(<<>>, S)
BY DEF Enumerates

-----------------------------------------------------------------------------
(* The actions *)

\* Videos have a duration.
LEMMA Lengths ==
  ASSUME ConstantsAreSound, NEW total \in {0} \cup Durations
  PROVE  total \in Nat
BY DEF ConstantsAreSound

\* What the invariant says as long as nothing went wrong.
LEMMA NowSound ==
  ASSUME ExtractInv, Open(run), Clean(faults)
  PROVE  Sound(run, mp4, media, jobs, bucket, faults)
BY DEF ExtractInv, SoundInv

\* A meme comes in.
LEMMA BeginKeeps ==
  ASSUME ConstantsAreSound, ExtractInv, NEW type \in {"image", "video"}, NEW embedder \in Providers,
         NEW extractor \in Providers, NEW duration \in {0} \cup Durations,
         Begin(type, embedder, extractor, duration)
  PROVE  ExtractInv'
<1> DEFINE part == [ImagePart EXCEPT !.state = "call"]
<1>1. /\ run.step = "idle" /\ run \in Run /\ run.outcome = "none" /\ media = <<>>
      /\ embedded = <<>> /\ results = <<>> /\ \A k \in Job : jobs[k] = "none"
      /\ TypesInv(run, mp4, media, jobs, bucket, faults)
  BY DEF ExtractInv, Begin, TypesInv, RunInv, MediaInv, JobsInv, OrderInv, Encoding
<1>2. /\ run' \in Run /\ run'.type = type /\ run'.embedder = embedder /\ run'.duration = duration
      /\ run'.step = (IF type = "image" THEN "embed" ELSE "convert")
      /\ run'.outcome = "none" /\ run'.cancelled = run.cancelled /\ run'.tries = run.tries
  <2>1. {embedder, extractor} \subseteq {"gemini", "openrouter"} /\ "embed" \in Steps /\ "convert" \in Steps
    BY DEF ConstantsAreSound, Steps
  <2>2. (type = "image") \in BOOLEAN
    OBVIOUS
  <2>3. run' = [run EXCEPT !.step = IF type = "image" THEN "embed" ELSE "convert", !.type = type,
                        !.embedder = embedder, !.extractor = extractor, !.duration = duration,
                        !.kept = type = "image"]
    BY DEF Begin
  <2> QED BY <1>1, <2>1, <2>2, <2>3 DEF Run
<1>3. /\ mp4' = mp4 /\ embedded' = <<>> /\ results' = <<>> /\ jobs' = jobs /\ bucket' = bucket
      /\ faults' = faults
      /\ media' = IF type = "image" THEN <<part>> ELSE <<>>
  BY <1>1 DEF Begin
<1>4. /\ part \in Part /\ part.state = "call" /\ part.tries = 0 /\ part.data = WrappedLocal
      /\ part.frame = FromPath(<<"stored", 0>>)
  BY ImageMade
<1> HIDE DEF part
<1>5. /\ DataSound(WrappedLocal, bucket) /\ WrappedLocal.inner.path = NoPath
      /\ WrappedLocal.outer.path = NoPath /\ FromPath(<<"stored", 0>>).path = <<"stored", 0>>
      /\ ~FromPath(<<"stored", 0>>).spent
  <2>1. <<"stored", 0>> \in Path
    BY DEF Path
  <2> QED BY <2>1, DataMade
<1>6. RunInv(run')
  BY <1>2 DEF RunInv
<1>7. type = "image" => DOMAIN media' = {1} /\ media'[1] = part /\ media' \in [{1} -> Part]
  BY <1>3, <1>4
<1>8. MediaInv(run', media')
  <2>1. CASE type = "image"
    <3>1. Parts(run') = {1}
      BY <1>2, <2>1 DEF Parts
    <3>2. PartInv(1, part, run')
      BY <1>2, <1>4, <1>5, <2>1 DEF PartInv, ConstantsAreSound
    <3> QED BY <1>2, <1>7, <2>1, <3>1, <3>2 DEF MediaInv, Encoding
  <2>2. CASE type = "video"
    BY <1>2, <1>3, <2>2 DEF MediaInv, Describing
  <2> QED BY <2>1, <2>2
<1>9. JobsInv(run', media', jobs')
  <2>1. <<"size", 0>> \in Job /\ \A i \in 1 .. MaxSlices : <<"frame", i>> \in Job
    BY DEF Job, MainJob
  <2> QED BY <1>1, <1>2, <1>3, <2>1 DEF TypesInv, JobsInv
<1>10. TypesInv(run', mp4', media', jobs', bucket', faults')
  BY <1>1, <1>3, <1>6, <1>8, <1>9 DEF TypesInv
<1>11. OrderInv(run', media', embedded', results')
  <2>1. type = "image" => \A i \in Completed(media') : FALSE
    BY <1>4, <1>7 DEF Completed
  <2> QED BY <1>2, <1>3, <2>1, NothingCame DEF OrderInv, Encoding, Describing
<1>12. ASSUME Clean(faults') PROVE Sound(run', mp4', media', jobs', bucket', faults')
  <2>1. Sound(run, mp4, media, jobs, bucket, faults)
    BY <1>1, <1>3, <1>12, NowSound DEF Open
  <2>2. JobsSound(run', jobs', bucket')
    <3>1. MainJob \subseteq Job
      BY DEF Job
    <3> QED BY <1>1, <1>3, <3>1 DEF JobsSound, MainJob
  <2>3. Mp4Sound(run', mp4', jobs', bucket')
    <3>1. <<"size", 0>> \in Job
      BY DEF Job, MainJob
    <3>2. run'.type = "video" => run'.step = "convert"
      BY <1>2
    <3> QED BY <1>1, <1>3, <2>1, <3>1, <3>2 DEF Sound, Mp4Sound, Describing
  <2>4. type = "image" => PartSound(1, part, run', jobs', bucket', faults')
    <3>1. faults["llm"] \in Nat
      BY <1>1 DEF TypesInv, Fault
    <3> QED BY <1>2, <1>3, <1>4, <1>5, <3>1 DEF PartSound
  <2>5. \A i \in DOMAIN media' : PartSound(i, media'[i], run', jobs', bucket', faults')
    BY <1>3, <1>7, <2>4
  <2> QED BY <1>2, <1>3, <2>1, <2>2, <2>3, <2>5 DEF Sound
<1> QED BY <1>2, <1>10, <1>11, <1>12 DEF ExtractInv, SoundInv

\* The jobs by name.
LEMMA Jobs ==
  ASSUME NEW j \in MainJob
  PROVE  /\ j \in Job /\ j \in Path /\ \A i : j # <<"frame", i>>
         /\ j[1] \in {"convert", "size", "slice", "thumb"} /\ j = <<j[1], 0>>
         /\ <<"size", 0>> \in Job /\ <<"slice", 0>> \in Job /\ <<"convert", 0>> \in Job
         /\ \A i \in 1 .. MaxSlices : <<"frame", i>> \in Job
BY DEF Job, MainJob, Path

\* A job is submitted.
LEMMA SubmitMainKeeps ==
  ASSUME ConstantsAreSound, ExtractInv, NEW j \in MainJob, SubmitMain(j)
  PROVE  ExtractInv'
<1> DEFINE place == <<"mp4", 0>>
           Out(get, put) == IF j[1] = "convert" THEN mp4 ELSE Locate(mp4, place, get, put)
           Sent(located, ok) == (j[1] = "convert" \/ Located(located.outer)) /\ ok /\ ~run.cancelled
<1>1. PICK get \in Get(mp4.inner), put \in Put(mp4), ok \in Succeeds("job") :
        /\ j[1] = "convert" => get /\ put
        /\ mp4' = Out(get, put)
        /\ bucket' = bucket \cup Uploaded(mp4')
        /\ IF Sent(mp4', ok) THEN jobs' = [jobs EXCEPT ![j] = "running"] /\ UNCHANGED run
           ELSE Fail /\ UNCHANGED jobs
        /\ Blame(Unread(mp4.inner, get) \cup Failing("put", put) \cup Failing("job", ok))
  BY DEF SubmitMain
<1>2. /\ run.step = j[1] /\ run.type = "video" /\ jobs[j] = "none"
      /\ media' = media /\ embedded' = embedded /\ results' = results
  BY DEF SubmitMain, Waiting
<1>3. get \in BOOLEAN /\ put \in BOOLEAN /\ ok \in BOOLEAN
  BY Chances
<1>4. TypesInv(run, mp4, media, jobs, bucket, faults) /\ mp4 \in Data /\ place \in Path
  BY DEF ExtractInv, TypesInv, Path
<1>5. /\ j \in Job /\ j[1] \in {"convert", "size", "slice", "thumb"} /\ j = <<j[1], 0>>
      /\ <<"size", 0>> \in Job /\ \A i \in 1 .. MaxSlices : <<"frame", i>> \in Job /\ j # <<"frame", i>>
  BY Jobs
<1>6. /\ mp4' \in Data /\ mp4'.inner.path = mp4.inner.path
      /\ mp4'.outer.path \in {mp4.outer.path, place}
      /\ Uploaded(mp4') \subseteq {mp4.outer.path, place} \ {NoPath}
  <2>1. CASE j[1] = "convert"
    <3>1. mp4' = mp4
      BY <1>1, <2>1
    <3> QED BY <1>4, <3>1 DEF Uploaded, Deletes, Located
  <2>2. CASE j[1] # "convert"
    <3>1. mp4' = Locate(mp4, place, get, put)
      BY <1>1, <2>2
    <3> HIDE DEF place
    <3>2. LET l == Locate(mp4, place, get, put) IN
          /\ l \in Data /\ l.inner.path = mp4.inner.path /\ l.outer.path \in {mp4.outer.path, place}
          /\ Uploaded(l) \subseteq {mp4.outer.path, place} \ {NoPath}
      BY <1>3, <1>4, DataFacts
    <3> QED BY <3>1, <3>2
  <2> QED BY <2>1, <2>2
<1> DEFINE sent == Sent(mp4', ok)
<1>7. /\ RunInv(run') /\ SameInput(run, run')
      /\ sent => run' = run /\ jobs' = [jobs EXCEPT ![j] = "running"]
      /\ ~sent => /\ jobs' = jobs /\ run'.step = "close" /\ run'.outcome = "failed"
  <2>1. CASE sent
    BY <1>1, <1>4, <2>1 DEF TypesInv, SameInput
  <2>2. CASE ~sent
    <3>1. Fail /\ jobs' = jobs
      BY <1>1, <2>2
    <3> QED BY <1>4, <2>2, <3>1, FailFacts DEF TypesInv
  <2> QED BY <2>1, <2>2
<1> HIDE DEF sent, Out, Sent
<1>8. MediaInv(run', media')
  <2>1. MediaInv(run, media)
    BY <1>4 DEF TypesInv
  <2>2. run'.step = run.step \/ run'.step = "close"
    BY <1>7
  <2>3. run'.step \in Encoding => media = <<>>
    BY <2>1, <2>2 DEF MediaInv, Encoding
  <2>4. run'.step \in Describing => run.step \in Describing
    BY <2>2 DEF Describing
  <2>5. run.step # "embed"
    BY <1>2, <1>5
  <2> QED BY <1>2, <1>7, <2>1, <2>3, <2>4, <2>5, MediaStays
<1>9. JobsInv(run', media', jobs')
  <2>1. JobsInv(run, media, jobs)
    BY <1>4 DEF TypesInv
  <2>2. run'.step = "convert" => sent /\ j # <<"size", 0>>
    BY <1>2, <1>5, <1>7
  <2> QED BY <1>2, <1>5, <1>7, <2>1, <2>2 DEF JobsInv
<1>10. TypesInv(run', mp4', media', jobs', bucket', faults')
  <2>1. faults' \in [Fault -> Nat]
    BY <1>1, <1>4, BlameFacts DEF TypesInv, Grown
  <2>2. bucket' \subseteq Path
    BY <1>1, <1>4, <1>6 DEF TypesInv, NoPath, Path
  <2> QED BY <1>4, <1>6, <1>7, <1>8, <1>9, <2>1, <2>2 DEF TypesInv
<1>11. OrderInv(run', media', embedded', results')
  <2>1. CASE sent
    BY <1>2, <1>7, <2>1 DEF ExtractInv
  <2>2. CASE ~sent
    BY <1>7, <2>2, OrderClosed
  <2> QED BY <2>1, <2>2
<1>12. ASSUME Clean(faults')
       PROVE  /\ Sound(run, mp4, media, jobs, bucket, faults) /\ ok /\ ~run.cancelled
              /\ DataSound(mp4', bucket') /\ (mp4.outer.spent => Located(mp4.outer))
              /\ Located(mp4.outer) => mp4' = mp4
              /\ j[1] # "convert" /\ ~Located(mp4.outer) => (Located(mp4'.outer) <=> put)
  <2>1. /\ Clean(faults) /\ "get" \notin Unread(mp4.inner, get) /\ "job" \notin Failing("job", ok)
    <3>1. faults \in [Fault -> Nat]
      BY <1>4 DEF TypesInv
    <3> QED BY <1>1, <1>12, <3>1, BlameFacts DEF NotRetriedKinds
  <2>2. Sound(run, mp4, media, jobs, bucket, faults)
    BY <1>2, <1>5, <2>1, NowSound DEF Open
  <2>3. ok /\ ~run.cancelled
    BY <2>1, <2>2, <1>3 DEF Failing, Sound
  <2>4. DataSound(mp4, bucket) /\ (mp4.outer.spent => Located(mp4.outer))
    BY <2>2 DEF Sound, Mp4Sound
  <2>5. get
    BY <2>1, <2>4, GetFacts DEF DataSound
  <2>6. CASE j[1] = "convert"
    <3>1. mp4' = mp4
      BY <1>1, <2>6 DEF Out
    <3>2. DataSound(mp4', bucket')
      BY <1>1, <2>4, <3>1 DEF DataSound, Available
    <3> QED BY <2>2, <2>3, <2>4, <2>6, <3>1, <3>2
  <2>7. CASE j[1] # "convert"
    <3>1. mp4' = Locate(mp4, place, get, put) /\ bucket \cup Uploaded(Locate(mp4, place, get, put)) \subseteq bucket'
      BY <1>1, <2>7 DEF Out
    <3>2. /\ DataSound(mp4', bucket')
          /\ NeedsUpload(mp4.outer) => Located(mp4'.outer) = put
          /\ ~NeedsUpload(mp4.outer) => mp4' = mp4
      <4> HIDE DEF place
      <4> QED BY <1>3, <1>4, <2>4, <2>5, <3>1, SoundFacts
    <3> QED BY <2>2, <2>3, <2>4, <3>2 DEF NeedsUpload
  <2> QED BY <2>6, <2>7
<1>13. ASSUME Clean(faults'), Open(run') PROVE Sound(run', mp4', media', jobs', bucket', faults')
  <2>1. sent /\ run' = run /\ jobs' = [jobs EXCEPT ![j] = "running"]
    BY <1>7, <1>13 DEF Open
  <2>2. (j[1] = "convert" \/ Located(mp4'.outer))
    BY <2>1 DEF sent, Sent
  <2>3. /\ Sound(run, mp4, media, jobs, bucket, faults) /\ DataSound(mp4', bucket')
        /\ mp4.outer.spent => Located(mp4.outer)
        /\ Located(mp4.outer) => mp4' = mp4
    BY <1>12, <1>13
  <2>4. jobs \in [Job -> {"none", "running", "done", "failed", "gone"}] /\ bucket \subseteq bucket'
    BY <1>1, <1>4 DEF TypesInv, JobsInv
  <2>5. JobsSound(run', jobs', bucket')
    <3>1. MainJob \subseteq Job /\ <<"slice", 0>> \in Job
      BY Jobs
    <3> QED BY <1>5, <2>1, <2>3, <2>4, <3>1 DEF Sound, JobsSound
  <2>6. Mp4Sound(run', mp4', jobs', bucket')
    <3>1. CASE j[1] = "convert"
      <4>1. mp4' = mp4
        BY <1>1, <3>1 DEF Out
      <4>2. jobs'[<<"size", 0>>] = jobs[<<"size", 0>>]
        BY <1>5, <2>1, <2>4, <3>1
      <4> QED BY <2>1, <2>3, <4>1, <4>2 DEF Sound, Mp4Sound
    <3>2. CASE j[1] # "convert"
      BY <2>1, <2>2, <2>3, <3>2 DEF Mp4Sound
    <3> QED BY <3>1, <3>2
  <2>7. ASSUME NEW i \in DOMAIN media' PROVE PartSound(i, media'[i], run', jobs', bucket', faults')
    <3>1. media'[i] \in Part /\ PartInv(i, media'[i], run) /\ Attempts \in Nat
      BY <1>2, <1>4 DEF TypesInv, MediaInv, ConstantsAreSound
    <3>2. PartSound(i, media'[i], run, jobs, bucket, faults)
      BY <1>2, <2>3 DEF Sound
    <3>3. jobs'[<<"frame", i>>] = jobs[<<"frame", i>>]
      <4>1. j # <<"frame", i>>
        BY Jobs
      <4> QED BY <2>1, <2>4, <4>1
    <3>4. Left({}, bucket, bucket') /\ i \notin {} /\ SameInput(run, run') /\ run'.step = run.step
      BY <1>7, <2>1, <2>4 DEF Left
    <3>5. Grown(faults, faults')
      BY <1>1, <1>4, BlameFacts DEF TypesInv
    <3> QED BY <3>1, <3>2, <3>3, <3>4, <3>5, PartStays
  <2>8. ~run'.cancelled /\ run'.tries <= faults'["llm"]
    <3>1. Grown(faults, faults')
      BY <1>1, <1>4, BlameFacts DEF TypesInv
    <3>2. run.tries \in Nat
      BY <1>4 DEF TypesInv, RunInv, Run
    <3> QED BY <2>1, <2>3, <3>1, <3>2, GrownFacts DEF Sound
  <2> QED BY <2>5, <2>6, <2>7, <2>8 DEF Sound
<1>14. ASSUME run'.outcome = "failed" PROVE Excused(run', mp4', faults')
  <2>1. SUFFICES ASSUME Clean(faults') PROVE Excused(run', mp4', faults')
    BY DEF Excused
  <2>2. ~sent
    <3>1. run.outcome = "none"
      BY <1>2, <1>4, <1>5 DEF TypesInv, RunInv
    <3> QED BY <1>7, <1>14, <3>1
  <2>3. ~Located(mp4'.outer) /\ j[1] # "convert"
    BY <1>12, <2>1, <2>2 DEF sent, Sent
  <2>4. ~put
    BY <1>12, <2>1, <2>3
  <2>5. faults'["put"] > 0
    <3>1. "put" \in Failing("put", put) /\ "put" \in Fault
      BY <2>4 DEF Failing, Fault
    <3>2. faults["put"] \in Nat /\ faults'["put"] = faults["put"] + 1
      BY <1>1, <1>4, <3>1, BlameFacts DEF TypesInv
    <3> QED BY <3>2
  <2> QED BY <1>2, <1>7, <2>3, <2>5 DEF Excused, SameInput
<1> QED BY <1>10, <1>11, <1>13, <1>14 DEF ExtractInv, SoundInv

\* A step that goes on.
LEMMA GoesOn ==
  ASSUME ExtractInv, Open(run), RunInv(run'), SameInput(run, run'), run'.outcome = "none",
         run'.cancelled = run.cancelled, run'.step \notin {"idle", "convert"},
         mp4' \in Data, mp4'.inner.path \in {NoPath, <<"convert", 0>>},
         mp4'.outer.path \in {NoPath, <<"mp4", 0>>},
         MediaInv(run', media'), DOMAIN media \subseteq DOMAIN media', jobs' = jobs,
         bucket' \subseteq Path, bucket \subseteq bucket', Grown(faults, faults'),
         OrderInv(run', media', embedded', results'),
         Clean(faults') =>
           /\ Mp4Sound(run', mp4', jobs', bucket') /\ run'.tries <= faults'["llm"]
           /\ \A i \in DOMAIN media' : PartSound(i, media'[i], run', jobs', bucket', faults')
  PROVE  ExtractInv'
<1>1. JobsInv(run', media', jobs')
  BY DEF ExtractInv, TypesInv, JobsInv
<1>2. TypesInv(run', mp4', media', jobs', bucket', faults')
  BY <1>1 DEF ExtractInv, TypesInv, Grown
<1>3. ASSUME Clean(faults') PROVE Sound(run', mp4', media', jobs', bucket', faults')
  <2>1. Clean(faults)
    BY <1>3, GrownFacts
  <2>2. Sound(run, mp4, media, jobs, bucket, faults)
    BY <2>1, NowSound
  <2>3. JobsSound(run', jobs', bucket')
    <3>1. Left({}, bucket, bucket')
      BY DEF Left
    <3> QED BY <2>2, <3>1, JobsStay DEF Sound
  <2> QED BY <1>3, <2>2, <2>3 DEF Sound
<1> QED BY <1>2, <1>3 DEF ExtractInv, SoundInv

\* The next step, of the same mp4 and the same parts.
LEMMA AdvanceKeeps ==
  ASSUME ConstantsAreSound, ExtractInv, Open(run), RunInv(run'), SameInput(run, run'),
         run'.outcome = "none", run'.cancelled = run.cancelled,
         run'.step \in Describing \cup {"slice"}, run'.step = run.step \/ run'.step # "embed",
         run.type = "image" \/ run.step \in Describing \/ jobs[<<"size", 0>>] # "none",
         mp4' = mp4, MediaInv(run', media), media' = media, jobs' = jobs, bucket' = bucket,
         Grown(faults, faults'), OrderInv(run', media', embedded', results'),
         Clean(faults') => run'.tries <= faults'["llm"]
  PROVE  ExtractInv'
<1>1. TypesInv(run, mp4, media, jobs, bucket, faults)
  BY DEF ExtractInv
<1>2. ASSUME Clean(faults')
      PROVE  Sound(run', mp4, media, jobs, bucket, faults')
  <2>1. Clean(faults)
    BY <1>2, GrownFacts
  <2>2. Sound(run, mp4, media, jobs, bucket, faults)
    BY <2>1, NowSound
  <2>3. run'.type = "video" => Located(mp4.outer)
    BY <2>2 DEF Sound, Mp4Sound, SameInput
  <2>4. ~run'.cancelled /\ bucket \subseteq bucket
    BY <2>2 DEF Sound
  <2> QED BY <1>1, <1>2, <2>2, <2>3, <2>4, SoundStays
<1>3. /\ run'.step \notin {"idle", "convert"} /\ DOMAIN media \subseteq DOMAIN media'
      /\ bucket \subseteq bucket'
  BY DEF Describing
<1>4. /\ mp4' \in Data /\ mp4'.inner.path \in {NoPath, <<"convert", 0>>} /\ bucket' \subseteq Path
      /\ mp4'.outer.path \in {NoPath, <<"mp4", 0>>}
  BY <1>1 DEF TypesInv
<1>5. Clean(faults') =>
           /\ Mp4Sound(run', mp4', jobs', bucket') /\ run'.tries <= faults'["llm"]
           /\ \A i \in DOMAIN media' : PartSound(i, media'[i], run', jobs', bucket', faults')
  BY <1>2 DEF Sound
<1>6. MediaInv(run', media')
  OBVIOUS
<1> QED BY <1>3, <1>4, <1>5, <1>6, GoesOn

\* A step that gives the pipeline up for a reason.
LEMMA FailKeeps ==
  ASSUME ExtractInv, Fail, mp4' = mp4, MediaInv(run', media'), DOMAIN media \subseteq DOMAIN media',
         jobs' = jobs, bucket' \subseteq Path, Grown(faults, faults'), Excused(run, mp4, faults')
  PROVE  ExtractInv'
<1>1. /\ RunInv(run') /\ SameInput(run, run') /\ run'.step = "close" /\ ~Open(run')
      /\ run'.outcome = "failed"
  BY FailFacts DEF ExtractInv, TypesInv
<1>2. TypesInv(run', mp4', media', jobs', bucket', faults')
  BY <1>1 DEF ExtractInv, TypesInv, JobsInv, Grown
<1>3. OrderInv(run', media', embedded', results')
  BY <1>1, OrderClosed
<1>4. Excused(run', mp4', faults')
  BY <1>1 DEF Excused, SameInput
<1> QED BY <1>1, <1>2, <1>3, <1>4 DEF ExtractInv, SoundInv

\* The parts are the same when the pipeline is given up.
LEMMA ClosedMedia ==
  ASSUME ExtractInv, Fail \/ Duplicate,
         \/ run.step # "embed"
         \/ \A i \in DOMAIN media : media[i].state \notin {"todo", "frame"}
  PROVE  MediaInv(run', media)
<1>1. RunInv(run) /\ MediaInv(run, media)
  BY DEF ExtractInv, TypesInv
<1>2. SameInput(run, run') /\ run'.step = "close"
  BY <1>1, FailFacts
<1> QED BY <1>1, <1>2, MediaStays DEF Describing, Encoding

\* A job is over, or the wait for it.
LEMMA PollMainKeeps ==
  ASSUME ConstantsAreSound, SlicesAreBounded, ExtractInv, NEW j \in MainJob, PollMain(j)
  PROVE  ExtractInv'
<1> DEFINE total == run.duration
           first == IF run.embedder = "gemini" THEN "call" ELSE "todo"
           Slice(i) == [SliceOf(StartOf(i), i, total) EXCEPT !.state = first]
<1>1. PICK get \in IF j[1] \in {"size", "thumb"} /\ Succeeded(j) THEN Get(FromPath(j)) ELSE {TRUE} :
        LET ok == Succeeded(j) /\ get IN
        /\ Blame(Unread(FromPath(j), get))
        /\ ~ok => Fail
        /\ ok /\ j[1] = "convert" => Advance("size")
        /\ ok /\ j[1] = "size" => run' = [run EXCEPT !.step = "slice", !.kept = TRUE]
        /\ ok /\ j[1] = "slice" => Advance("embed")
        /\ ok /\ j[1] = "thumb" => Advance("save")
        /\ mp4' = IF ok /\ j[1] = "convert" THEN Wrapped(j) ELSE mp4
        /\ media' = IF ok /\ j[1] = "slice" THEN [i \in Slices(total) |-> Slice(i)] ELSE media
  <2>1. j[1] \in {"convert", "size", "slice", "thumb"}
    BY Jobs
  <2>2. /\ DOMAIN SliceVideoWithOverlap(total) = Slices(total)
        /\ \A i \in Slices(total) : SliceVideoWithOverlap(total)[i] = SliceOf(StartOf(i), i, total)
    BY DEF SliceVideoWithOverlap
  <2> QED BY <2>1, <2>2 DEF PollMain
<1> HIDE DEF Slice
<1> DEFINE ok == Succeeded(j) /\ get
<1>2. /\ run.step = j[1] /\ run.type = "video" /\ Answered(j)
      /\ embedded' = embedded /\ results' = results /\ jobs' = jobs /\ bucket' = bucket
  BY DEF PollMain, Waiting
<1>3. /\ j \in Job /\ j \in Path /\ j[1] \in {"convert", "size", "slice", "thumb"}
      /\ j = <<j[1], 0>>
      /\ <<"size", 0>> \in Job
  BY Jobs
<1>4. /\ TypesInv(run, mp4, media, jobs, bucket, faults) /\ Open(run) /\ run.step # "embed"
      /\ RunInv(run) /\ MediaInv(run, media) /\ JobsInv(run, media, jobs)
      /\ OrderInv(run, media, embedded, results) /\ bucket' \subseteq Path
  BY <1>2, <1>3 DEF ExtractInv, TypesInv, Open
<1>5. Grown(faults, faults') /\ faults'["llm"] \in Nat
  BY <1>1, <1>4, BlameFacts, GrownFacts DEF TypesInv
<1>6. Clean(faults') => Sound(run, mp4, media, jobs, bucket, faults)
  BY <1>4, <1>5, GrownFacts, NowSound
<1>7. ASSUME ok PROVE jobs[j] = "done"
  BY <1>7 DEF Succeeded, GetJobStatus
<1>8. CASE ~ok
  <2>1. Fail /\ mp4' = mp4 /\ media' = media
    BY <1>1, <1>8
  <2>2. ~Clean(faults')
    <3>1. SUFFICES ASSUME Clean(faults') PROVE FALSE
      OBVIOUS
    <3>2. JobsSound(run, jobs, bucket) /\ ~run.cancelled
      BY <1>6, <3>1 DEF Sound
    <3>3. Succeeded(j)
      <4>1. jobs[j] \notin {"failed", "gone"}
        BY <1>3, <3>2 DEF JobsSound
      <4>2. GetJobStatus(j) = jobs[j]
        BY <4>1 DEF GetJobStatus
      <4>3. jobs[j] = "done"
        <5>1. jobs[j] \in {"none", "running", "done", "failed", "gone"}
          BY <1>3, <1>4 DEF JobsInv
        <5> QED BY <1>2, <3>2, <4>1, <4>2, <5>1 DEF Answered
      <4> QED BY <3>2, <4>2, <4>3 DEF Succeeded
    <3>4. ~get /\ j[1] \in {"size", "thumb"} /\ get \in Get(FromPath(j))
      BY <1>1, <1>8, <3>3
    <3>5. j \in bucket
      <4>1. jobs[j] = "done" /\ j # <<"slice", 0>>
        BY <3>3, <3>4 DEF Succeeded, GetJobStatus
      <4> QED BY <3>2, <4>1 DEF JobsSound
    <3>6. Available(FromPath(j), bucket)
      BY <3>5 DEF Available, FromPath
    <3>7. "get" \notin Unread(FromPath(j), get)
      BY <1>1, <1>4, <3>1, BlameFacts DEF TypesInv, NotRetriedKinds
    <3> QED BY <3>4, <3>6, <3>7, GetFacts
  <2>3. MediaInv(run', media') /\ DOMAIN media \subseteq DOMAIN media'
    BY <1>4, <2>1, ClosedMedia
  <2> QED BY <1>2, <1>4, <1>5, <2>1, <2>2, <2>3, FailKeeps DEF Excused
<1>9. CASE ok /\ j[1] = "convert"
  <2>1. Advance("size") /\ mp4' = Wrapped(j) /\ media' = media
    BY <1>1, <1>9
  <2>2. /\ RunInv(run') /\ SameInput(run, run') /\ run'.step = "size" /\ run'.tries = 0
        /\ run'.cancelled = run.cancelled /\ run'.outcome = "none"
    <3>1. "size" \in Describing \cup {"size", "slice"} /\ run.type # "image"
      BY <1>2
    <3> QED BY <1>4, <2>1, <3>1, AdvanceFacts
  <2>3. /\ Wrapped(j) \in Data /\ Wrapped(j).inner.path = <<"convert", 0>>
        /\ Wrapped(j).outer.path = NoPath /\ ~Wrapped(j).outer.spent
        /\ (j \in bucket => DataSound(Wrapped(j), bucket))
    BY <1>3, <1>9, DataMade
  <2>4. MediaInv(run', media') /\ media = <<>> /\ embedded = <<>> /\ results = <<>>
    BY <1>2, <1>4, <1>9, <2>1, <2>2, MediaStays DEF MediaInv, OrderInv, Encoding, Describing
  <2>5. OrderInv(run', media', embedded', results')
    BY <1>2, <2>2, <2>4 DEF OrderInv, Encoding, Describing
  <2>6. ASSUME Clean(faults')
        PROVE  /\ Mp4Sound(run', mp4', jobs', bucket') /\ run'.tries <= faults'["llm"]
               /\ \A i \in DOMAIN media' : PartSound(i, media'[i], run', jobs', bucket', faults')
    <3>1. j \in bucket
      <4>1. JobsSound(run, jobs, bucket) /\ j # <<"slice", 0>> /\ jobs[j] = "done"
        BY <1>3, <1>6, <1>7, <1>9, <2>6 DEF Sound
      <4> QED BY <4>1 DEF JobsSound
    <3>2. jobs[<<"size", 0>>] = "none"
      BY <1>2, <1>4, <1>9 DEF JobsInv
    <3>3. Mp4Sound(run', mp4', jobs', bucket')
      BY <1>2, <2>1, <2>2, <2>3, <3>1, <3>2 DEF Mp4Sound, Describing
    <3>4. run'.tries <= faults'["llm"]
      BY <1>5, <2>2
    <3> QED BY <2>1, <2>4, <3>3, <3>4
  <2>7. /\ mp4' \in Data /\ mp4'.inner.path \in {NoPath, <<"convert", 0>>}
        /\ mp4'.outer.path \in {NoPath, <<"mp4", 0>>}
    BY <2>1, <2>3
  <2> QED BY <1>2, <1>4, <1>5, <2>1, <2>2, <2>4, <2>5, <2>6, <2>7, GoesOn
<1>10. CASE ok /\ j[1] = "size"
  <2>1. run' = [run EXCEPT !.step = "slice", !.kept = TRUE] /\ mp4' = mp4 /\ media' = media
    BY <1>1, <1>10
  <2>2. /\ RunInv(run') /\ SameInput(run, run') /\ run'.step = "slice" /\ run'.tries = run.tries
        /\ run'.cancelled = run.cancelled /\ run'.outcome = "none"
    <3>1. run \in Run /\ "slice" \in Steps /\ run.outcome = "none"
      BY <1>2, <1>4, <1>10 DEF RunInv, Steps
    <3>2. /\ run' \in Run /\ SameInput(run, run') /\ run'.step = "slice" /\ run'.tries = run.tries
          /\ run'.cancelled = run.cancelled /\ run'.outcome = "none"
      BY <2>1, <3>1 DEF Run, SameInput
    <3> QED BY <1>2, <3>2 DEF RunInv, SameInput
  <2>3. MediaInv(run', media) /\ media = <<>> /\ embedded = <<>> /\ results = <<>>
    BY <1>2, <1>4, <1>10, <2>1, <2>2, MediaStays DEF MediaInv, OrderInv, Encoding, Describing
  <2>4. OrderInv(run', media', embedded', results')
    BY <1>2, <2>1, <2>2, <2>3 DEF OrderInv, Encoding, Describing
  <2>5. jobs[<<"size", 0>>] # "none"
    BY <1>3, <1>7, <1>10
  <2>6. Clean(faults') => run'.tries <= faults'["llm"]
    <3>1. run.tries \in Nat
      BY <1>4 DEF RunInv, Run
    <3> QED BY <1>5, <1>6, <2>2, <3>1, GrownFacts DEF Sound
  <2> QED BY <1>2, <1>4, <1>5, <2>1, <2>2, <2>3, <2>4, <2>5, <2>6, AdvanceKeeps
<1>11. CASE ok /\ j[1] = "thumb"
  <2>1. Advance("save") /\ mp4' = mp4 /\ media' = media
    BY <1>1, <1>11
  <2>2. /\ RunInv(run') /\ SameInput(run, run') /\ run'.step = "save" /\ run'.tries = 0
        /\ run'.cancelled = run.cancelled /\ run'.outcome = "none"
    BY <1>2, <1>4, <2>1, AdvanceFacts DEF Describing
  <2>3. MediaInv(run', media) /\ run.step \in Describing /\ run'.step \in Describing
    BY <1>2, <1>4, <1>11, <2>2, MediaStays DEF Encoding, Describing
  <2>4. OrderInv(run', media', embedded', results')
    BY <1>2, <1>4, <1>11, <2>1, <2>2 DEF OrderInv, Encoding, Describing
  <2>5. Clean(faults') => run'.tries <= faults'["llm"]
    BY <1>5, <2>2
  <2> QED BY <1>2, <1>4, <1>5, <2>1, <2>2, <2>3, <2>4, <2>5, AdvanceKeeps
<1>12. CASE ok /\ j[1] = "slice"
  <2>1. Advance("embed") /\ mp4' = mp4 /\ media' = [i \in Slices(total) |-> Slice(i)]
    BY <1>1, <1>12
  <2>2. /\ RunInv(run') /\ SameInput(run, run') /\ run'.step = "embed" /\ run'.tries = 0
        /\ run'.cancelled = run.cancelled /\ run'.outcome = "none"
    BY <1>2, <1>4, <2>1, AdvanceFacts DEF Describing
  <2>3. /\ media = <<>> /\ embedded = <<>> /\ results = <<>> /\ total \in {0} \cup Durations
        /\ total \in Nat
    <3>1. media = <<>> /\ embedded = <<>> /\ results = <<>>
      BY <1>2, <1>4, <1>12 DEF MediaInv, OrderInv, Encoding
    <3>2. total \in {0} \cup Durations
      BY <1>4 DEF RunInv, Run
    <3>3. total \in Nat
      BY <3>2, Lengths
    <3> QED BY <3>1, <3>2, <3>3
  <2>4. ASSUME NEW i \in Slices(total)
        PROVE  /\ media'[i] \in Part /\ media'[i].state = first /\ media'[i].tries = 0
               /\ media'[i].data = Wrapped(<<"slice", i>>)
               /\ media'[i].frame = FromPath(<<"frame", i>>)
               /\ PartInv(i, media'[i], run') /\ i \in 1 .. MaxSlices /\ <<"slice", i>> \in Path
               /\ <<"frame", i>> \in Path
    <3>1. media'[i] = Slice(i)
      BY <2>1
    <3>2. /\ Slice(i) \in Part /\ Slice(i).state = first /\ Slice(i).tries = 0
          /\ Slice(i).data = Wrapped(<<"slice", i>>) /\ Slice(i).frame = FromPath(<<"frame", i>>)
          /\ Slice(i).from = StartOf(i) /\ Slice(i).to = SliceEnd(StartOf(i), total)
          /\ Slice(i).startTime = Slice(i).from \div Second
          /\ Slice(i).endTime = Slice(i).to \div Second
      <4>1. first \in {"call", "todo"}
        OBVIOUS
      <4> HIDE DEF first, total
      <4>2. Slice(i) = [SliceOf(StartOf(i), i, total) EXCEPT !.state = first]
        BY DEF Slice
      <4>3. LET p == [SliceOf(StartOf(i), i, total) EXCEPT !.state = first] IN
            /\ p \in Part /\ p.state = first /\ p.tries = 0 /\ p.data = Wrapped(<<"slice", i>>)
            /\ p.frame = FromPath(<<"frame", i>>)
            /\ p.from = StartOf(i) /\ p.to = SliceEnd(StartOf(i), total)
            /\ p.startTime = p.from \div Second /\ p.endTime = p.to \div Second
        BY <2>3, <4>1, SliceMade
      <4> QED BY <4>2, <4>3
    <3>3. i \in 1 .. MaxSlices /\ i \in Nat
      BY <2>3 DEF SlicesAreBounded, Slices
    <3>4. <<"slice", i>> \in Path /\ <<"frame", i>> \in Path
      BY <3>3 DEF Path
    <3>5. /\ Wrapped(<<"slice", i>>).inner.path = <<"slice", i>>
          /\ Wrapped(<<"slice", i>>).outer.path = NoPath
          /\ FromPath(<<"frame", i>>).path = <<"frame", i>>
      BY <3>4, DataMade
    <3>6. run.embedder \in {"gemini", "openrouter"} /\ 0 < Attempts
      BY <1>4 DEF RunInv, Run, ConstantsAreSound
    <3>7. PartInv(i, Slice(i), run')
      BY <1>2, <2>2, <3>2, <3>5, <3>6 DEF PartInv, SameInput
    <3> QED BY <3>1, <3>2, <3>3, <3>4, <3>7
  <2>5. DOMAIN media' = Slices(total) /\ Parts(run') = Slices(total)
    BY <1>2, <2>1, <2>2 DEF Parts, SameInput
  <2>6. MediaInv(run', media')
    <3>1. media' \in [Slices(total) -> Part]
      <4>1. media' = [i \in Slices(total) |-> media'[i]]
        BY <2>1
      <4> QED BY <2>4, <4>1
    <3> QED BY <2>2, <2>4, <2>5, <3>1 DEF MediaInv, Encoding
  <2>7. OrderInv(run', media', embedded', results')
    <3>1. \A i \in Completed(media') : FALSE
      BY <2>4, <2>5 DEF Completed
    <3> QED BY <1>2, <2>2, <2>3, <3>1, NothingCame DEF OrderInv, Encoding, Describing
  <2>8. ASSUME Clean(faults')
        PROVE  /\ Mp4Sound(run', mp4', jobs', bucket') /\ run'.tries <= faults'["llm"]
               /\ \A i \in DOMAIN media' : PartSound(i, media'[i], run', jobs', bucket', faults')
    <3>1. Sound(run, mp4, media, jobs, bucket, faults) /\ jobs[<<"slice", 0>>] = "done"
      BY <1>3, <1>6, <1>7, <1>12, <2>8
    <3>2. Mp4Sound(run', mp4', jobs', bucket')
      BY <1>2, <1>12, <2>1, <2>2, <3>1 DEF Sound, Mp4Sound
    <3>3. ASSUME NEW i \in DOMAIN media'
          PROVE  PartSound(i, media'[i], run', jobs', bucket', faults')
      <4>0. i \in Slices(total)
        BY <2>5
      <4>1. /\ DataSound(media'[i].data, bucket') /\ ~media'[i].data.outer.spent
            /\ ~Located(media'[i].data.outer)
        <5>1. <<"slice", i>> \in bucket'
          BY <1>2, <3>1, <4>0 DEF Sound, JobsSound
        <5>2. media'[i].data = Wrapped(<<"slice", i>>) /\ <<"slice", i>> \in Path
          BY <2>4, <4>0
        <5> QED BY <5>1, <5>2, DataMade
      <4>2. jobs[<<"frame", i>>] = "none"
        <5>1. i \in 1 .. MaxSlices /\ i \notin DOMAIN media
          <6>1. DOMAIN media = {}
            BY <2>3
          <6> QED BY <2>4, <4>0, <6>1
        <5> QED BY <1>4, <5>1 DEF JobsInv
      <4>3. ~media'[i].frame.spent
        <5>1. media'[i].frame = FromPath(<<"frame", i>>)
          BY <2>4, <4>0
        <5> QED BY <5>1 DEF FromPath
      <4>4. run'.embedder = "openrouter" => media'[i].state = "todo"
        BY <2>2, <2>4, <4>0 DEF SameInput
      <4>5. /\ media'[i].state \in {"call", "todo"} /\ media'[i].tries = 0
        BY <2>4, <4>0
      <4> HIDE DEF first
      <4> QED BY <1>2, <1>5, <2>2, <4>1, <4>2, <4>3, <4>4, <4>5 DEF PartSound, FrameSound, SameInput
    <3>4. run'.tries <= faults'["llm"]
      BY <1>5, <2>2
    <3> QED BY <3>2, <3>3, <3>4
  <2>9. /\ mp4' \in Data /\ mp4'.inner.path \in {NoPath, <<"convert", 0>>}
        /\ mp4'.outer.path \in {NoPath, <<"mp4", 0>>} /\ DOMAIN media \subseteq DOMAIN media'
    BY <1>4, <2>1, <2>3 DEF TypesInv
  <2> QED BY <1>2, <1>4, <1>5, <2>2, <2>6, <2>7, <2>8, <2>9, GoesOn
<1> QED BY <1>3, <1>8, <1>9, <1>10, <1>11, <1>12

\* The deadline of a job passes.
LEMMA TimeoutMainKeeps ==
  ASSUME ExtractInv, NEW j \in MainJob, TimeoutMain(j)
  PROVE  ExtractInv'
<1>1. /\ Fail /\ Blame({"timeout"}) /\ run.step = j[1] /\ mp4' = mp4 /\ media' = media
      /\ jobs' = jobs
      /\ bucket' = bucket
  BY DEF TimeoutMain, Waiting
<1>2. run.step # "embed"
  BY <1>1, Jobs
<1>3. Grown(faults, faults') /\ ~Clean(faults')
  BY <1>1, BlameFacts DEF ExtractInv, TypesInv, NotRetriedKinds
<1>4. MediaInv(run', media') /\ DOMAIN media \subseteq DOMAIN media' /\ bucket' \subseteq Path
  BY <1>1, <1>2, ClosedMedia DEF ExtractInv, TypesInv
<1> QED BY <1>1, <1>3, <1>4, FailKeeps DEF Excused

\* What a job makes.
LEMMA OutputFacts ==
  ASSUME ConstantsAreSound, ExtractInv, NEW j \in Job
  PROVE  /\ Outputs(j) \subseteq Path
         /\ j # <<"slice", 0>> => j \in Outputs(j)
         /\ j = <<"slice", 0>> => \A i \in Slices(run.duration) : <<"slice", i>> \in Outputs(j)
<1>1. j \in Path
  <2>1. CASE j \in MainJob
    BY <2>1, Jobs
  <2>2. CASE j \notin MainJob
    <3>1. PICK i \in 1 .. MaxSlices : j = <<"frame", i>>
      BY <2>2 DEF Job
    <3> QED BY <3>1 DEF Path
  <2> QED BY <2>1, <2>2
<1>2. \A i \in Slices(run.duration) : <<"slice", i>> \in Path
  BY DEF Slices, Path
<1> QED BY <1>1, <1>2 DEF Outputs

\* ffmpeg-service ends a job.
LEMMA JobEndsKeeps ==
  ASSUME ConstantsAreSound, ExtractInv, NEW j \in Job, JobEnds(j)
  PROVE  ExtractInv'
<1> DEFINE there == j[1] = "convert" \/ Uploaded(Input(j)) \subseteq bucket
<1>1. PICK ok \in BOOLEAN :
        /\ jobs' = [jobs EXCEPT ![j] = IF ok THEN "done" ELSE "failed"]
        /\ bucket' = IF ok THEN bucket \cup Outputs(j) ELSE bucket
        /\ Blame(IF there THEN Failing("job", ok) ELSE {})
  BY Chances DEF JobEnds
<1>2. /\ jobs[j] = "running" /\ run' = run /\ mp4' = mp4 /\ media' = media
      /\ embedded' = embedded /\ results' = results
  BY DEF JobEnds
<1>3. /\ TypesInv(run, mp4, media, jobs, bucket, faults) /\ JobsInv(run, media, jobs)
      /\ MediaInv(run, media)
      /\ jobs \in [Job -> {"none", "running", "done", "failed", "gone"}]
      /\ \A k \in Job \ {j} : jobs'[k] = jobs[k]
      /\ jobs'[j] = (IF ok THEN "done" ELSE "failed")
  BY <1>1 DEF ExtractInv, TypesInv, JobsInv
<1>4. Grown(faults, faults')
  BY <1>1, <1>3, BlameFacts DEF TypesInv
<1>5. JobsInv(run', media', jobs')
  <2>1. jobs' \in [Job -> {"none", "running", "done", "failed", "gone"}]
    BY <1>1, <1>3
  <2>2. <<"size", 0>> \in Job /\ \A i \in 1 .. MaxSlices : <<"frame", i>> \in Job
    BY DEF Job, MainJob
  <2> QED BY <1>2, <1>3, <2>1, <2>2 DEF JobsInv
<1>6. TypesInv(run', mp4', media', jobs', bucket', faults')
  BY <1>1, <1>2, <1>3, <1>4, <1>5, OutputFacts DEF TypesInv, Grown
<1>7. ASSUME Clean(faults'), Open(run') PROVE Sound(run', mp4', media', jobs', bucket', faults')
  <2>1. Sound(run, mp4, media, jobs, bucket, faults)
    BY <1>2, <1>4, <1>7, GrownFacts, NowSound
  <2>2. there
    <3>1. CASE j \in MainJob
      <4>1. j[1] # "frame"
        BY <3>1, Jobs
      <4>2. Input(j) = mp4
        BY <4>1 DEF Input
      <4>3. DataSound(mp4, bucket)
        BY <2>1 DEF Sound, Mp4Sound
      <4> QED BY <4>2, <4>3 DEF DataSound, Uploaded, Deletes
    <3>2. CASE j \notin MainJob
      <4>1. PICK i \in 1 .. MaxSlices : j = <<"frame", i>>
        BY <3>2 DEF Job
      <4>2. Input(j) = media[i].data
        BY <4>1 DEF Input
      <4>3. i \in DOMAIN media
        BY <1>2, <1>3, <4>1 DEF JobsInv
      <4>4. DataSound(media[i].data, bucket)
        BY <2>1, <4>3 DEF Sound, PartSound
      <4> QED BY <4>2, <4>4 DEF DataSound, Uploaded, Deletes
    <3> QED BY <3>1, <3>2
  <2>3. ok
    <3>1. Blame(Failing("job", ok))
      BY <1>1, <2>2
    <3>2. "job" \notin Failing("job", ok)
      BY <1>3, <1>7, <3>1, BlameFacts DEF TypesInv, NotRetriedKinds
    <3> QED BY <3>2 DEF Failing
  <2>4. bucket \subseteq bucket' /\ Left({}, bucket, bucket') /\ Outputs(j) \subseteq bucket'
    BY <1>1, <2>3 DEF Left
  <2>5. JobsSound(run', jobs', bucket')
    <3>1. JobsSound(run, jobs, bucket)
      BY <2>1 DEF Sound
    <3>2. MainJob \subseteq Job /\ <<"slice", 0>> \in Job
      BY DEF Job, MainJob
    <3>3. j # <<"slice", 0>> => j \in bucket'
      BY <2>4, OutputFacts
    <3>4. j = <<"slice", 0>> => \A i \in Slices(run.duration) : <<"slice", i>> \in bucket'
      BY <2>4, OutputFacts
    <3>5. \A k \in Job : jobs'[k] \notin {"failed", "gone"}
      BY <1>3, <2>3, <3>1 DEF JobsSound
    <3>6. ASSUME NEW k \in MainJob \ {<<"slice", 0>>}, jobs'[k] = "done" PROVE k \in bucket'
      <4>1. CASE k = j
        BY <3>3, <3>6, <4>1
      <4>2. CASE k # j
        BY <1>3, <2>4, <3>1, <3>2, <3>6, <4>2 DEF JobsSound
      <4> QED BY <4>1, <4>2
    <3>7. ASSUME jobs'[<<"slice", 0>>] = "done", NEW i \in Slices(run.duration)
          PROVE  <<"slice", i>> \in bucket'
      <4>1. CASE j = <<"slice", 0>>
        BY <3>4, <4>1
      <4>2. CASE j # <<"slice", 0>>
        BY <1>3, <2>4, <3>1, <3>2, <3>7, <4>2 DEF JobsSound
      <4> QED BY <4>1, <4>2
    <3> QED BY <1>2, <3>5, <3>6, <3>7 DEF JobsSound
  <2>6. Mp4Sound(run', mp4', jobs', bucket')
    <3>1. Mp4Sound(run, mp4, jobs, bucket)
      BY <2>1 DEF Sound
    <3>2. jobs'[<<"size", 0>>] # "none" => jobs[<<"size", 0>>] # "none"
      <4>1. <<"size", 0>> \in Job
        BY DEF Job, MainJob
      <4> QED BY <1>2, <1>3, <4>1
    <3>3. /\ mp4.inner.path \in {NoPath, <<"convert", 0>>}
          /\ mp4.outer.path \in {NoPath, <<"mp4", 0>>}
          /\ run.type = "video" /\ run.step \in Describing \cup {"slice"} => Located(mp4.outer)
      BY <1>3, <3>1 DEF TypesInv, Mp4Sound
    <3> QED BY <1>2, <2>4, <3>1, <3>2, <3>3, Mp4Stays
  <2>7. ASSUME NEW i \in DOMAIN media PROVE PartSound(i, media[i], run, jobs', bucket', faults')
    <3>1. /\ media[i] \in Part /\ PartInv(i, media[i], run) /\ Attempts \in Nat
          /\ PartSound(i, media[i], run, jobs, bucket, faults)
      BY <1>3, <2>1 DEF MediaInv, ConstantsAreSound, Sound
    <3>2. SameInput(run, run) /\ run.step = run.step /\ i \notin {}
      BY DEF SameInput
    <3>3. PartSound(i, media[i], run, jobs, bucket', faults')
      <4>1. jobs[<<"frame", i>>] = jobs[<<"frame", i>>]
        OBVIOUS
      <4> QED BY <1>4, <2>4, <3>1, <3>2, <4>1, PartStays
    <3>4. CASE j # <<"frame", i>>
      <4>1. jobs'[<<"frame", i>>] = jobs[<<"frame", i>>]
        BY <1>1, <1>3, <3>4
      <4> QED BY <3>3, <4>1 DEF PartSound, FrameSound
    <3>5. CASE j = <<"frame", i>>
      <4>1. j \in bucket'
        <5>1. j # <<"slice", 0>>
          BY <3>5
        <5> QED BY <2>4, <5>1, OutputFacts
      <4>2. run.type = "video" => media[i].frame.path = <<"frame", i>>
        BY <3>1 DEF PartInv
      <4>3. jobs[<<"frame", i>>] # "none"
        BY <1>2, <3>5
      <4> QED BY <3>3, <3>5, <4>1, <4>2, <4>3 DEF PartSound, FrameSound
    <3> QED BY <3>4, <3>5
  <2>8. run.tries <= faults'["llm"]
    <3>1. run.tries \in Nat
      BY <1>3 DEF TypesInv, RunInv, Run
    <3> QED BY <1>4, <2>1, <3>1, GrownFacts DEF Sound
  <2> QED BY <1>2, <2>1, <2>5, <2>6, <2>7, <2>8 DEF Sound
<1>8. ASSUME run'.outcome = "failed" PROVE Excused(run', mp4', faults')
  <2>1. SameInput(run, run) /\ Attempts \in Nat
    BY DEF SameInput, ConstantsAreSound
  <2> QED BY <1>2, <1>4, <1>8, <2>1, ExcusedStays DEF ExtractInv
<1>9. OrderInv(run', media', embedded', results')
  BY <1>2 DEF ExtractInv
<1> QED BY <1>6, <1>7, <1>8, <1>9 DEF ExtractInv, SoundInv

\* Its outputs are deleted while they are needed.
LEMMA ExpireKeeps ==
  ASSUME ExtractInv, NEW j \in Job, Expire(j)
  PROVE  ExtractInv'
<1>1. /\ jobs[j] = "done" /\ jobs' = [jobs EXCEPT ![j] = "gone"] /\ bucket' \subseteq bucket
      /\ Blame({"expiry"}) /\ run' = run /\ mp4' = mp4 /\ media' = media
      /\ embedded' = embedded /\ results' = results
  BY DEF Expire
<1>2. TypesInv(run, mp4, media, jobs, bucket, faults)
  BY DEF ExtractInv
<1>3. Grown(faults, faults') /\ ~Clean(faults')
  BY <1>1, <1>2, BlameFacts DEF TypesInv, NotRetriedKinds
<1>4. JobsInv(run', media', jobs')
  <2>1. <<"size", 0>> \in Job /\ \A i \in 1 .. MaxSlices : <<"frame", i>> \in Job
    BY DEF Job, MainJob
  <2> QED BY <1>1, <1>2, <2>1 DEF TypesInv, JobsInv
<1>5. TypesInv(run', mp4', media', jobs', bucket', faults')
  BY <1>1, <1>2, <1>3, <1>4 DEF TypesInv, Grown
<1> QED BY <1>1, <1>3, <1>5 DEF ExtractInv, SoundInv, Excused

\* ... and after the end.
LEMMA ExpireRestKeeps ==
  ASSUME ExtractInv, ExpireRest
  PROVE  ExtractInv'
<1> DEFINE done == {j \in Job : jobs[j] = "done"}
<1>1. /\ run.step = "done" /\ jobs' = [j \in Job |-> IF j \in done THEN "gone" ELSE jobs[j]]
      /\ bucket' \subseteq bucket /\ run' = run /\ mp4' = mp4 /\ media' = media
      /\ embedded' = embedded /\ results' = results /\ faults' = faults
  BY DEF ExpireRest
<1>2. TypesInv(run, mp4, media, jobs, bucket, faults)
  BY DEF ExtractInv
<1>3. JobsInv(run', media', jobs')
  <2>1. \A i \in 1 .. MaxSlices : <<"frame", i>> \in Job
    BY DEF Job
  <2> QED BY <1>1, <1>2, <2>1 DEF TypesInv, JobsInv
<1>4. TypesInv(run', mp4', media', jobs', bucket', faults')
  BY <1>1, <1>2, <1>3 DEF TypesInv
<1> QED BY <1>1, <1>4 DEF ExtractInv, SoundInv, Open

\* The client goes away.
LEMMA CancelKeeps ==
  ASSUME ExtractInv, Cancel
  PROVE  ExtractInv'
<1>1. /\ run' = [run EXCEPT !.cancelled = TRUE] /\ Blame({"cancel"}) /\ mp4' = mp4 /\ media' = media
      /\ embedded' = embedded /\ results' = results /\ jobs' = jobs /\ bucket' = bucket
      /\ run.step \notin {"idle", "done"}
  BY DEF Cancel
<1>2. TypesInv(run, mp4, media, jobs, bucket, faults) /\ run \in Run
  BY DEF ExtractInv, TypesInv, RunInv
<1>3. Grown(faults, faults') /\ ~Clean(faults')
  BY <1>1, <1>2, BlameFacts DEF TypesInv, NotRetriedKinds
<1>4. /\ run' \in Run /\ run'.step = run.step /\ run'.outcome = run.outcome
      /\ SameInput(run, run')
  BY <1>1, <1>2 DEF Run, SameInput
<1>5. RunInv(run')
  BY <1>2, <1>4 DEF TypesInv, RunInv, SameInput
<1>6. MediaInv(run', media')
  <2>1. run'.step \in Encoding => media = <<>>
    BY <1>2, <1>4 DEF TypesInv, MediaInv
  <2>2. MediaInv(run, media)
    BY <1>2 DEF TypesInv
  <2> QED BY <1>1, <1>4, <2>1, <2>2, MediaStays
<1>7. TypesInv(run', mp4', media', jobs', bucket', faults')
  BY <1>1, <1>2, <1>3, <1>4, <1>5, <1>6 DEF TypesInv, JobsInv, Grown
<1>8. OrderInv(run', media', embedded', results')
  BY <1>1, <1>4, OrderStays DEF ExtractInv
<1> QED BY <1>3, <1>7, <1>8 DEF ExtractInv, SoundInv, Excused

\* A step of one part, of which a frame may be taken or closed.
LEMMA PartKeeps ==
  ASSUME ConstantsAreSound, SlicesAreBounded, ExtractInv, Open(run),
         NEW i \in DOMAIN media, NEW p \in Part, PartInv(i, p, run),
         media' = [media EXCEPT ![i] = p], run' = run, mp4' = mp4,
         \/ jobs' = jobs
         \/ run.type = "video" /\ jobs' = [jobs EXCEPT ![<<"frame", i>>] = "running"],
         bucket' \subseteq Path, Left({i}, bucket, bucket'), Grown(faults, faults'),
         OrderInv(run, media', embedded', results'),
         Clean(faults') => PartSound(i, p, run, jobs', bucket', faults')
  PROVE  ExtractInv'
<1>1. /\ TypesInv(run, mp4, media, jobs, bucket, faults) /\ MediaInv(run, media)
      /\ JobsInv(run, media, jobs) /\ run.outcome = "none"
  BY DEF ExtractInv, TypesInv, RunInv, Open
<1>2. MediaInv(run, media') /\ DOMAIN media' = DOMAIN media
  BY <1>1, PartChanged
<1>3. run.step \notin Encoding /\ media \in [Parts(run) -> Part]
  <2>1. media # <<>>
    OBVIOUS
  <2> QED BY <1>1, <2>1 DEF MediaInv
<1>4. JobsInv(run, media', jobs')
  <2>1. \A k \in 1 .. MaxSlices : k # i => <<"frame", k>> # <<"frame", i>>
    OBVIOUS
  <2>2. \A k \in 1 .. MaxSlices : <<"frame", k>> \in Job
    BY DEF Job
  <2> QED BY <1>1, <1>2, <1>3, <2>1, <2>2 DEF JobsInv, Encoding
<1>5. TypesInv(run', mp4', media', jobs', bucket', faults')
  BY <1>1, <1>2, <1>4 DEF TypesInv, Grown
<1>6. ASSUME Clean(faults') PROVE Sound(run', mp4', media', jobs', bucket', faults')
  <2>1. Sound(run, mp4, media, jobs, bucket, faults)
    BY <1>6, GrownFacts, NowSound
  <2>2. SameInput(run, run)
    BY DEF SameInput
  <2>3. JobsSound(run, jobs', bucket')
    <3>1. JobsSound(run, jobs, bucket')
      BY <2>1, <2>2, JobsStay DEF Sound
    <3>2. \A k \in MainJob : k \in Job /\ k # <<"frame", i>>
      BY Jobs
    <3>3. <<"slice", 0>> \in MainJob
      BY DEF MainJob
    <3> QED BY <1>1, <3>1, <3>2, <3>3 DEF JobsSound, JobsInv
  <2>4. Mp4Sound(run, mp4, jobs', bucket')
    <3>1. Mp4Sound(run, mp4, jobs, bucket)
      BY <2>1 DEF Sound
    <3>2. jobs'[<<"size", 0>>] = jobs[<<"size", 0>>]
      <4>1. <<"size", 0>> \in Job /\ <<"size", 0>> # <<"frame", i>>
        BY DEF Job, MainJob
      <4> QED BY <1>1, <4>1 DEF JobsInv
    <3>3. /\ mp4.inner.path \in {NoPath, <<"convert", 0>>}
          /\ mp4.outer.path \in {NoPath, <<"mp4", 0>>}
          /\ run.type = "video" /\ run.step \in Describing \cup {"slice"} => Located(mp4.outer)
      BY <1>1, <3>1 DEF TypesInv, Mp4Sound
    <3> QED BY <3>1, <3>2, <3>3, Mp4Stays
  <2>5. ASSUME NEW k \in DOMAIN media' PROVE PartSound(k, media'[k], run, jobs', bucket', faults')
    <3>1. CASE k = i
      <4>1. media'[k] = p
        BY <3>1
      <4> QED BY <1>6, <3>1, <4>1
    <3>2. CASE k # i
      <4>1. media'[k] = media[k] /\ k \in DOMAIN media
        BY <1>2, <3>2
      <4>2. /\ media[k] \in Part /\ PartInv(k, media[k], run) /\ Attempts \in Nat
            /\ PartSound(k, media[k], run, jobs, bucket, faults)
        BY <1>1, <2>1, <4>1 DEF MediaInv, ConstantsAreSound, Sound
      <4>3. jobs'[<<"frame", k>>] = jobs[<<"frame", k>>]
        <5>1. CASE jobs' = jobs
          BY <5>1
        <5>2. CASE run.type = "video" /\ jobs' = [jobs EXCEPT ![<<"frame", i>>] = "running"]
          <6>1. k \in Slices(run.duration) /\ run.duration \in {0} \cup Durations
            BY <1>1, <1>3, <4>1, <5>2 DEF Parts, TypesInv, RunInv, Run
          <6>2. <<"frame", k>> \in Job /\ <<"frame", k>> # <<"frame", i>>
            BY <3>2, <6>1 DEF SlicesAreBounded, Job
          <6> QED BY <1>1, <5>2, <6>2 DEF JobsInv
        <5> QED BY <5>1, <5>2
      <4>4. k \notin {i} /\ run.step = run.step
        BY <3>2
      <4> QED BY <2>2, <4>1, <4>2, <4>3, <4>4, PartStays
    <3> QED BY <3>1, <3>2
  <2>6. run.tries <= faults'["llm"]
    <3>1. run.tries \in Nat
      BY <1>1 DEF TypesInv, RunInv, Run
    <3> QED BY <2>1, <3>1, GrownFacts DEF Sound
  <2> QED BY <2>1, <2>3, <2>4, <2>5, <2>6 DEF Sound
<1> QED BY <1>1, <1>5, <1>6 DEF ExtractInv, SoundInv

\* A part that is not done yet is not among those that are.
LEMMA NotCompleted ==
  ASSUME ExtractInv, NEW i \in DOMAIN media, NEW p, p.state # "ok", media[i].state # "ok",
         media' = [media EXCEPT ![i] = p], embedded' = embedded, results' = results
  PROVE  OrderInv(run, media', embedded', results')
<1>1. media = [k \in DOMAIN media |-> media[k]]
  <2>1. media = <<>> \/ media \in [Parts(run) -> Part]
    BY DEF ExtractInv, TypesInv, MediaInv
  <2> QED BY <2>1
<1>2. DOMAIN media' = DOMAIN media /\ Completed(media') = Completed(media)
  BY <1>1 DEF Completed
<1> QED BY <1>2, OrderStays DEF ExtractInv

\* One more comes.
LEMMA OneMoreCame ==
  ASSUME NEW s, NEW S, NEW i, Enumerates(s, S), i \notin S
  PROVE  Enumerates(Append(s, i), S \cup {i})
<1>1. s \in Seq(S) /\ Len(s) \in Nat /\ DOMAIN s = 1 .. Len(s)
  BY DEF Enumerates
<1> DEFINE e == Append(s, i)
           T == S \cup {i}
<1>2. /\ s \in Seq(T) /\ i \in T
  BY <1>1
<1>3. /\ e \in Seq(T) /\ Len(e) = Len(s) + 1 /\ e[Len(s) + 1] = i
      /\ DOMAIN e = 1 .. Len(s) + 1
      /\ \A k \in 1 .. Len(s) : e[k] = s[k]
  BY <1>2
<1> HIDE DEF e
<1>4. \A k \in 1 .. Len(s) : s[k] \in S
  BY <1>1
<1>5. \A k, l \in DOMAIN e : e[k] = e[l] => k = l
  BY <1>1, <1>3, <1>4 DEF Enumerates
<1>6. ASSUME NEW x \in T PROVE \E k \in DOMAIN e : e[k] = x
  <2>1. CASE x = i
    BY <1>1, <1>3, <2>1
  <2>2. CASE x # i
    <3>1. PICK k \in DOMAIN s : s[k] = x
      BY <2>2 DEF Enumerates
    <3> QED BY <1>1, <1>3, <3>1
  <2> QED BY <2>1, <2>2
<1> QED BY <1>3, <1>5, <1>6 DEF Enumerates, e

\* A frame of a slice is asked for.
LEMMA SubmitFrameKeeps ==
  ASSUME ConstantsAreSound, SlicesAreBounded, ExtractInv, NEW i \in DOMAIN media, SubmitFrame(i)
  PROVE  ExtractInv'
<1> DEFINE d == media[i].data
           place == <<"upload", i>>
<1>1. PICK get \in Get(d.inner), put \in Put(d), ok \in Succeeds("job") :
        LET located == Locate(d, place, get, put)
            sent == Located(located.outer) /\ ok /\ ~run.cancelled
        IN /\ media' = [media EXCEPT ![i].data = located,
                                     ![i].state = IF sent THEN "frame" ELSE "failed"]
           /\ bucket' = bucket \cup Uploaded(located)
           /\ jobs' = IF sent THEN [jobs EXCEPT ![<<"frame", i>>] = "running"] ELSE jobs
           /\ Blame(Unread(d.inner, get) \cup Failing("put", put) \cup Failing("job", ok))
  BY DEF SubmitFrame
<1> DEFINE located == Locate(d, place, get, put)
           sent == Located(located.outer) /\ ok /\ ~run.cancelled
           state == IF sent THEN "frame" ELSE "failed"
           p == [media[i] EXCEPT !.data = located, !.state = state]
<1>2. /\ run.type = "video" /\ run.embedder = "openrouter" /\ run.step = "embed"
      /\ media[i].state = "todo" /\ run' = run /\ mp4' = mp4
      /\ embedded' = embedded /\ results' = results
  BY DEF SubmitFrame, Framed
<1>3. get \in BOOLEAN /\ put \in BOOLEAN /\ ok \in BOOLEAN
  BY Chances
<1>4. /\ TypesInv(run, mp4, media, jobs, bucket, faults) /\ MediaInv(run, media) /\ Open(run)
      /\ media \in [Parts(run) -> Part] /\ media[i] \in Part /\ PartInv(i, media[i], run)
      /\ JobsInv(run, media, jobs)
  BY <1>2 DEF ExtractInv, TypesInv, MediaInv, Describing, Open
<1>5. d \in Data /\ place \in Path
  <2>1. i \in Nat
    BY <1>2, <1>4 DEF Parts, Slices
  <2> QED BY <1>4, <2>1 DEF Part, Path
<1>6. /\ located \in Data /\ located.inner.path = d.inner.path
      /\ located.outer.path \in {d.outer.path, place}
      /\ Uploaded(located) \subseteq {d.outer.path, place} \ {NoPath}
  <2> HIDE DEF d, place
  <2> QED BY <1>3, <1>5, DataFacts
<1> HIDE DEF d, located, sent, state
<1>7. /\ p \in Part /\ p.data = located /\ p.state = state /\ p.tries = media[i].tries
      /\ p.frame = media[i].frame /\ p.from = media[i].from /\ p.to = media[i].to
      /\ p.startTime = media[i].startTime /\ p.endTime = media[i].endTime
      /\ state \in {"frame", "failed"}
  BY <1>4, <1>6 DEF Part, state
<1>8. /\ media' = [media EXCEPT ![i] = p] /\ bucket' = bucket \cup Uploaded(located)
      /\ jobs' = IF sent THEN [jobs EXCEPT ![<<"frame", i>>] = "running"] ELSE jobs
      /\ Blame(Unread(d.inner, get) \cup Failing("put", put) \cup Failing("job", ok))
  BY <1>1, <1>4 DEF d, located, sent, state
<1> HIDE DEF p
<1>9. PartInv(i, p, run)
  BY <1>2, <1>4, <1>6, <1>7 DEF PartInv, d
<1>10. Grown(faults, faults')
  BY <1>4, <1>8, BlameFacts DEF TypesInv
<1>11. OrderInv(run, media', embedded', results')
  BY <1>2, <1>7, <1>8, NotCompleted
<1>12. bucket' \subseteq Path /\ Left({i}, bucket, bucket')
  <2>1. {d.outer.path, place} \ {NoPath} \subseteq Path
    BY <1>4, <1>5 DEF PartInv, d
  <2> QED BY <1>4, <1>6, <1>8, <2>1 DEF TypesInv, Left
<1>13. ASSUME Clean(faults') PROVE PartSound(i, p, run, jobs', bucket', faults')
  <2>1. Sound(run, mp4, media, jobs, bucket, faults)
    BY <1>4, <1>10, <1>13, GrownFacts, NowSound
  <2>2. "get" \notin Unread(d.inner, get) /\ "job" \notin Failing("job", ok)
    BY <1>4, <1>8, <1>13, BlameFacts DEF TypesInv, NotRetriedKinds
  <2>3. /\ DataSound(d, bucket) /\ NeedsUpload(d.outer) /\ ~media[i].frame.spent
        /\ ~run.cancelled
    BY <1>2, <2>1 DEF Sound, PartSound, FrameSound, NeedsUpload, d
  <2>4. get /\ ok
    BY <2>2, <2>3, <1>3, GetFacts DEF DataSound, Failing
  <2>5. DataSound(located, bucket') /\ Located(located.outer) = put
    <3>1. bucket \cup Uploaded(Locate(d, place, get, put)) \subseteq bucket'
      BY <1>8 DEF located
    <3> HIDE DEF place
    <3> QED BY <1>3, <1>5, <2>3, <2>4, <3>1, SoundFacts DEF located
  <2>6. sent <=> put
    BY <2>3, <2>4, <2>5 DEF sent
  <2>7. ~put => faults'["put"] > 0
    <3>1. SUFFICES ASSUME ~put PROVE faults'["put"] > 0
      OBVIOUS
    <3>2. "put" \in Failing("put", put) /\ "put" \in Fault
      BY <3>1 DEF Failing, Fault
    <3>3. faults["put"] \in Nat /\ faults'["put"] = faults["put"] + 1
      BY <1>4, <1>8, <3>2, BlameFacts DEF TypesInv
    <3> QED BY <3>3
  <2>8. sent => jobs'[<<"frame", i>>] = "running"
    <3>1. i \in Slices(run.duration) /\ run.duration \in {0} \cup Durations
      BY <1>2, <1>4 DEF Parts, TypesInv, RunInv, Run
    <3>2. <<"frame", i>> \in Job
      BY <3>1 DEF SlicesAreBounded, Job
    <3> QED BY <1>4, <1>8, <3>2 DEF JobsInv
  <2>9. state = IF sent THEN "frame" ELSE "failed"
    BY DEF state
  <2> QED BY <1>2, <1>7, <2>3, <2>5, <2>6, <2>7, <2>8, <2>9 DEF PartSound, FrameSound
<1>14. jobs' = jobs \/ jobs' = [jobs EXCEPT ![<<"frame", i>>] = "running"]
  BY <1>8
<1> QED BY <1>2, <1>4, <1>7, <1>8, <1>9, <1>10, <1>11, <1>12, <1>13, <1>14, PartKeeps

\* It is there, or the wait for it is over.
LEMMA PollFrameKeeps ==
  ASSUME ConstantsAreSound, SlicesAreBounded, ExtractInv, NEW i \in DOMAIN media, PollFrame(i)
  PROVE  ExtractInv'
<1> DEFINE j == <<"frame", i>>
           P(state) == [media[i] EXCEPT !.state = state]
<1>1. /\ media[i].state = "frame" /\ run' = run /\ mp4' = mp4 /\ jobs' = jobs /\ bucket' = bucket
      /\ embedded' = embedded /\ results' = results
      /\ \/ /\ Answered(j) /\ faults' = faults
            /\ media' = [media EXCEPT ![i].state = IF Succeeded(j) THEN "call" ELSE "failed"]
         \/ /\ Blame({"timeout"}) /\ media' = [media EXCEPT ![i].state = "failed"]
  BY DEF PollFrame
<1>2. /\ TypesInv(run, mp4, media, jobs, bucket, faults) /\ MediaInv(run, media)
      /\ media[i] \in Part /\ PartInv(i, media[i], run) /\ JobsInv(run, media, jobs)
      /\ media \in [Parts(run) -> Part]
  BY DEF ExtractInv, TypesInv, MediaInv
<1>3. /\ media[i].tries = 0 /\ run.step = "embed" /\ run.type = "video"
      /\ run.embedder = "openrouter" /\ Open(run)
  BY <1>1, <1>2 DEF PartInv, Open
<1>4. PICK state \in {"call", "failed"} :
        /\ media' = [media EXCEPT ![i] = P(state)]
        /\ Grown(faults, faults')
        /\ Clean(faults') => Answered(j) /\ (state = "failed" => ~Succeeded(j))
                               /\ (state = "call" => Succeeded(j)) /\ faults' = faults
  <2>1. CASE Answered(j) /\ faults' = faults
               /\ media' = [media EXCEPT ![i].state = IF Succeeded(j) THEN "call" ELSE "failed"]
    <3>1. Grown(faults, faults')
      BY <1>2, <2>1 DEF TypesInv, Grown
    <3>2. CASE Succeeded(j)
      BY <2>1, <3>1, <3>2
    <3>3. CASE ~Succeeded(j)
      BY <2>1, <3>1, <3>3
    <3> QED BY <3>2, <3>3
  <2>2. CASE Blame({"timeout"}) /\ media' = [media EXCEPT ![i].state = "failed"]
    <3>1. Grown(faults, faults') /\ ~Clean(faults')
      BY <1>2, <2>2, BlameFacts DEF TypesInv, NotRetriedKinds
    <3> QED BY <2>2, <3>1
  <2> QED BY <1>1, <2>1, <2>2
<1>5. /\ P(state) \in Part /\ P(state).state = state /\ P(state).tries = 0
      /\ P(state).frame = media[i].frame /\ P(state).data = media[i].data
      /\ PartInv(i, P(state), run)
  <2>1. P(state) \in Part /\ 0 < Attempts
    BY <1>2 DEF Part, ConstantsAreSound
  <2>2. /\ P(state).state = state /\ P(state).tries = media[i].tries
        /\ P(state).frame = media[i].frame /\ P(state).data = media[i].data
        /\ P(state).from = media[i].from /\ P(state).to = media[i].to
        /\ P(state).startTime = media[i].startTime /\ P(state).endTime = media[i].endTime
    BY <1>2 DEF Part
  <2> HIDE DEF P
  <2> QED BY <1>2, <1>3, <2>1, <2>2 DEF PartInv
<1> HIDE DEF P
<1>6. OrderInv(run, media', embedded', results')
  <2>1. P(state).state # "ok" /\ media[i].state # "ok"
    BY <1>1, <1>5
  <2> QED BY <1>1, <1>4, <2>1, NotCompleted
<1>7. ASSUME Clean(faults') PROVE PartSound(i, P(state), run, jobs', bucket', faults')
  <2>1. Sound(run, mp4, media, jobs, bucket, faults)
    BY <1>3, <1>4, <1>7, GrownFacts, NowSound
  <2>2. jobs[j] \in {"none", "running", "done"}
    <3>1. i \in Slices(run.duration) /\ run.duration \in {0} \cup Durations
      BY <1>2, <1>3 DEF Parts, TypesInv, RunInv, Run
    <3>2. j \in Job
      BY <3>1 DEF SlicesAreBounded, Job
    <3> QED BY <1>2, <2>1, <3>2 DEF JobsInv, Sound, JobsSound
  <2>3. jobs[j] = "done" /\ state = "call"
    BY <1>4, <1>7, <2>1, <2>2 DEF Answered, Succeeded, GetJobStatus, Sound
  <2>4. PartSound(i, media[i], run, jobs, bucket, faults)
    BY <2>1 DEF Sound
  <2>5. Available(media[i].frame, bucket)
    BY <1>1, <1>3, <2>3, <2>4 DEF PartSound, FrameSound, Available
  <2>6. 0 <= faults["llm"] /\ faults' = faults
    BY <1>2, <1>4, <1>7 DEF TypesInv, Fault
  <2> QED BY <1>1, <1>3, <1>5, <2>3, <2>4, <2>5, <2>6 DEF PartSound, FrameSound
<1>8. bucket' \subseteq Path /\ Left({i}, bucket, bucket')
  BY <1>1, <1>2 DEF TypesInv, Left
<1> QED BY <1>1, <1>3, <1>4, <1>5, <1>6, <1>7, <1>8, PartKeeps

\* What the model is given is made of the part.
LEMMA PreparedFacts ==
  ASSUME ExtractInv, NEW i \in DOMAIN media, NEW get \in BOOLEAN, NEW put \in BOOLEAN
  PROVE  LET part == Prepared(i, get, put) IN
         /\ part \in Part /\ part.tries = media[i].tries /\ part.state = media[i].state
         /\ part.from = media[i].from /\ part.to = media[i].to
         /\ part.startTime = media[i].startTime /\ part.endTime = media[i].endTime
         /\ part.frame.path = media[i].frame.path
         /\ ~Framed => part.frame = media[i].frame
         /\ part.data.inner.path = media[i].data.inner.path
         /\ part.data.outer.path \in {media[i].data.outer.path, <<"upload", i>>}
         /\ <<"upload", i>> \in Path /\ Uploaded(part.data) \subseteq {<<"upload", i>>}
<1> DEFINE m == media[i]
           place == <<"upload", i>>
           d == Locate(m.data, place, get, put)
           c == Fetch(m.data, get)
           f == ResolveDownload(m.frame, get)
<1>1. /\ m \in Part /\ m.data \in Data /\ m.frame \in Datum /\ PartInv(i, m, run) /\ place \in Path
  <2>1. media \in [Parts(run) -> Part] /\ PartInv(i, m, run)
    BY DEF ExtractInv, TypesInv, MediaInv
  <2>2. i \in Nat
    BY <2>1 DEF Parts, Slices
  <2> QED BY <2>1, <2>2 DEF Part, Path
<1>2. /\ d \in Data /\ d.inner.path = m.data.inner.path
      /\ d.outer.path \in {m.data.outer.path, place}
      /\ c \in Data /\ c.inner.path = m.data.inner.path /\ c.outer = m.data.outer
  <2> HIDE DEF m, place
  <2> QED BY <1>1, DataFacts
<1>3. f \in Datum /\ f.path = m.frame.path
  <2> HIDE DEF m
  <2> QED BY <1>1, DatumFacts
<1>4. Prepared(i, get, put) = IF Provider = "gemini" THEN [m EXCEPT !.data = d]
                              ELSE IF Framed THEN [m EXCEPT !.frame = f] ELSE [m EXCEPT !.data = c]
  BY <1>1 DEF Prepared, ByUrl, Inline, Part
<1> DEFINE part == Prepared(i, get, put)
<1>5. Provider = "gemini" => ~Framed
  BY DEF Framed, Provider
<1> HIDE DEF m, place, d, c, f
<1>6. /\ part \in Part /\ part.tries = m.tries /\ part.state = m.state
      /\ part.from = m.from /\ part.to = m.to
      /\ part.startTime = m.startTime /\ part.endTime = m.endTime
  BY <1>1, <1>2, <1>3, <1>4 DEF Part
<1>7. /\ part.frame \in {m.frame, f} /\ part.data \in {m.data, d, c}
      /\ ~Framed => part.frame = m.frame
  BY <1>1, <1>4, <1>5 DEF Part
<1> HIDE DEF part
<1>8. /\ part.data.inner.path = m.data.inner.path
      /\ part.data.outer.path \in {m.data.outer.path, place}
      /\ part.frame.path = m.frame.path
  BY <1>2, <1>3, <1>7
<1>9. Uploaded(part.data) \subseteq {place}
  BY <1>1, <1>8 DEF Uploaded, Deletes, Located, PartInv, place
<1> QED BY <1>1, <1>6, <1>7, <1>8, <1>9 DEF part, m, place

\* It can be had as long as nothing went wrong.
LEMMA PreparedSound ==
  ASSUME ExtractInv, NEW i \in DOMAIN media, NEW get \in BOOLEAN, get, NEW put \in BOOLEAN,
         media[i].state = "call", PartSound(i, media[i], run, jobs, bucket, faults)
  PROVE  LET part == Prepared(i, get, put) IN
         /\ Given(part) /\ DataSound(part.data, bucket \cup Uploaded(part.data))
         /\ Framed => part.frame.held
<1> DEFINE m == media[i]
           place == <<"upload", i>>
           d == Locate(m.data, place, get, put)
           part == Prepared(i, get, put)
           b == bucket \cup Uploaded(part.data)
<1>1. /\ m \in Part /\ m.data \in Data /\ m.frame \in Datum /\ place \in Path
      /\ Provider \in {"gemini", "openrouter"}
  <2>1. media \in [Parts(run) -> Part] /\ PartInv(i, m, run)
    BY DEF ExtractInv, TypesInv, MediaInv
  <2>2. i \in Nat
    BY <2>1 DEF Parts, Slices
  <2> QED BY <2>1, <2>2 DEF Part, Path, ExtractInv, TypesInv, RunInv, Run, Provider
<1>2. DataSound(m.data, bucket) /\ (Framed => Available(m.frame, bucket))
  BY DEF PartSound, FrameSound, Framed
<1>3. CASE Provider = "gemini"
  <2>1. part.data = d /\ ~Framed
    BY <1>1, <1>3 DEF Prepared, ByUrl, Framed, Provider, Part
  <2>2. DataSound(d, b) /\ (Located(d.outer) \/ d.inner.held)
    <3>1. bucket \cup Uploaded(Locate(m.data, place, get, put)) \subseteq b
      BY <2>1
    <3> HIDE DEF m, place, part, b
    <3> QED BY <1>1, <1>2, <3>1, SoundFacts
  <2> HIDE DEF m, d, part, b
  <2>3. DataSound(part.data, b) /\ Given(part)
    BY <2>1, <2>2 DEF Given, Readable
  <2> QED BY <2>1, <2>3 DEF b, part
<1>4. CASE Provider = "openrouter" /\ Framed
  <2>1. part.data = m.data /\ part.frame = ResolveDownload(m.frame, get)
    BY <1>1, <1>4 DEF Prepared, Inline, Part
  <2>2. part.frame.held
    BY <1>1, <1>2, <1>4, <2>1 DEF ResolveDownload, NeedsDownload, Available, Datum
  <2> HIDE DEF m, part, b
  <2>3. DataSound(part.data, b)
    BY <1>2, <2>1 DEF DataSound, Available, b
  <2>4. Given(part)
    BY <1>4, <2>2 DEF Given, Readable
  <2> QED BY <2>2, <2>3, <2>4 DEF b, part
<1>5. CASE Provider = "openrouter" /\ ~Framed
  <2>1. part.data = Fetch(m.data, get)
    BY <1>1, <1>5 DEF Prepared, Inline, Part
  <2>2. Fetch(m.data, get).inner.held /\ DataSound(Fetch(m.data, get), bucket)
    <3>1. bucket \cup Uploaded(Locate(m.data, place, get, put)) \subseteq
            bucket \cup Uploaded(Locate(m.data, place, get, put))
      OBVIOUS
    <3> HIDE DEF m, place
    <3> QED BY <1>1, <1>2, <3>1, SoundFacts
  <2> HIDE DEF m, part, b
  <2>3. DataSound(part.data, b)
    BY <2>1, <2>2 DEF DataSound, Available, b
  <2>4. Given(part)
    BY <1>5, <2>1, <2>2 DEF Given, Readable
  <2> QED BY <1>5, <2>3, <2>4 DEF b, part
<1> QED BY <1>1, <1>3, <1>4, <1>5

\* What is retried, and what is given up.
LEMMA RetriedFacts ==
  ASSUME ConstantsAreSound, NEW n \in Nat
  PROVE  /\ Retried(n) \in {"call", "failed"}
         /\ Retried(n) = "call" <=> n < Attempts
         /\ Attempts \in Nat /\ (Retried(n) = "failed" => n >= Attempts)
BY DEF Retried, ConstantsAreSound

\* The order after one call of the model.
LEMMA CallsInOrder ==
  ASSUME ExtractInv, NEW i \in DOMAIN media, NEW p, media[i].state # "ok", run.step \in Parallel,
         media' = [media EXCEPT ![i] = p],
         embedded' = IF p.state = "ok" /\ run.step = "embed" THEN Append(embedded, i) ELSE embedded,
         results' = IF p.state = "ok" /\ run.step = "extract" THEN Append(results, i) ELSE results
  PROVE  OrderInv(run, media', embedded', results')
<1>1. CASE p.state # "ok"
  BY <1>1, NotCompleted
<1>2. CASE p.state = "ok"
  <2>1. media = [k \in DOMAIN media |-> media[k]]
    <3>1. media = <<>> \/ media \in [Parts(run) -> Part]
      BY DEF ExtractInv, TypesInv, MediaInv
    <3> QED BY <3>1
  <2>2. /\ DOMAIN media' = DOMAIN media /\ Completed(media') = Completed(media) \cup {i}
        /\ i \notin Completed(media)
    BY <1>2, <2>1 DEF Completed
  <2>3. OrderInv(run, media, embedded, results) /\ run.outcome # "saved"
    BY DEF ExtractInv, TypesInv, RunInv, Parallel
  <2>4. CASE run.step = "embed"
    <3>1. Enumerates(embedded, Completed(media)) /\ results = <<>>
      BY <2>3, <2>4 DEF OrderInv
    <3>2. embedded' = Append(embedded, i) /\ results' = results
      BY <1>2, <2>4
    <3>3. Enumerates(Append(embedded, i), Completed(media) \cup {i})
      BY <2>2, <3>1, OneMoreCame
    <3>4. Enumerates(embedded', Completed(media'))
      BY <2>2, <3>2, <3>3
    <3> QED BY <2>3, <2>4, <3>1, <3>2, <3>4 DEF OrderInv, Encoding, Describing
  <2>5. CASE run.step = "extract"
    <3>1. Enumerates(results, Completed(media)) /\ Enumerates(embedded, DOMAIN media)
      BY <2>3, <2>5 DEF OrderInv, Describing
    <3>2. embedded' = embedded /\ results' = Append(results, i)
      BY <1>2, <2>5
    <3>3. Enumerates(Append(results, i), Completed(media) \cup {i})
      BY <2>2, <3>1, OneMoreCame
    <3>4. Enumerates(results', Completed(media'))
      BY <2>2, <3>2, <3>3
    <3>5. Enumerates(embedded', DOMAIN media')
      BY <2>2, <3>1, <3>2
    <3> QED BY <2>3, <2>5, <3>4, <3>5 DEF OrderInv, Encoding, Describing
  <2> QED BY <2>4, <2>5 DEF Parallel
<1> QED BY <1>1, <1>2

\* The model is called about a part.
LEMMA AttemptKeeps ==
  ASSUME ConstantsAreSound, SlicesAreBounded, ExtractInv, NEW i \in DOMAIN media, Attempt(i)
  PROVE  ExtractInv'
<1> DEFINE Ok(part, llm) == Given(part) /\ llm
           State(part, llm) == IF Ok(part, llm) THEN "ok" ELSE Retried(part.tries + 1)
           Kept == IF Framed THEN Succeeds("delete") ELSE {TRUE}
           Called(get, put, llm, kept) ==
             LET part == Prepared(i, get, put)
                 ok == Ok(part, llm)
                 state == State(part, llm)
             IN /\ media' = [media EXCEPT ![i] = [part EXCEPT !.tries = @ + 1, !.state = state]]
                /\ bucket' = (bucket \cup Uploaded(part.data)) \ (IF kept THEN Frame(i, state) ELSE {})
                /\ embedded' = IF ok /\ run.step = "embed" THEN Append(embedded, i) ELSE embedded
                /\ results' = IF ok /\ run.step = "extract" THEN Append(results, i) ELSE results
                /\ Blame(Unread(Source(i), get) \cup Failing("put", put) \cup Failing("llm", llm)
                           \cup Failing("delete", kept))
<1>1. PICK get \in Downloads(i), put \in PutFor(i), llm \in Succeeds("llm"), kept \in BOOLEAN :
        Called(get, put, llm, kept)
  <2>1. Kept \subseteq BOOLEAN
    BY Chances
  <2>2. \E get \in Downloads(i), put \in PutFor(i), llm \in Succeeds("llm"), kept \in Kept :
          Called(get, put, llm, kept)
    BY Zenon DEF Attempt
  <2> HIDE DEF Kept, Called
  <2> QED BY <2>1, <2>2
<1>2. /\ media[i].state = "call" /\ run.step \in Parallel /\ ~run.cancelled
      /\ run' = run /\ mp4' = mp4 /\ jobs' = jobs
  BY DEF Attempt, Calling
<1>3. get \in BOOLEAN /\ put \in BOOLEAN /\ llm \in BOOLEAN
  <2>1. /\ Get(Source(i)) \subseteq BOOLEAN /\ Put(media[i].data) \subseteq BOOLEAN
        /\ Succeeds("llm") \subseteq BOOLEAN
    BY Chances
  <2> QED BY <2>1 DEF Downloads, PutFor
<1> DEFINE part == Prepared(i, get, put)
           ok == Ok(part, llm)
           state == State(part, llm)
           p == [part EXCEPT !.tries = @ + 1, !.state = state]
           gone == IF kept THEN Frame(i, state) ELSE {}
<1>4. /\ TypesInv(run, mp4, media, jobs, bucket, faults) /\ media[i] \in Part
      /\ PartInv(i, media[i], run) /\ Open(run)
  BY <1>2 DEF ExtractInv, TypesInv, MediaInv, Open, Parallel
<1>5. /\ part \in Part /\ part.tries = media[i].tries
      /\ part.from = media[i].from /\ part.to = media[i].to
      /\ part.startTime = media[i].startTime /\ part.endTime = media[i].endTime
      /\ part.frame.path = media[i].frame.path
      /\ ~Framed => part.frame = media[i].frame
      /\ part.data.inner.path = media[i].data.inner.path
      /\ part.data.outer.path \in {media[i].data.outer.path, <<"upload", i>>}
      /\ <<"upload", i>> \in Path /\ Uploaded(part.data) \subseteq {<<"upload", i>>}
  BY <1>3, PreparedFacts
<1>6. /\ media' = [media EXCEPT ![i] = p] /\ bucket' = (bucket \cup Uploaded(part.data)) \ gone
      /\ embedded' = IF ok /\ run.step = "embed" THEN Append(embedded, i) ELSE embedded
      /\ results' = IF ok /\ run.step = "extract" THEN Append(results, i) ELSE results
      /\ Blame(Unread(Source(i), get) \cup Failing("put", put) \cup Failing("llm", llm)
                 \cup Failing("delete", kept))
  BY <1>1
<1> HIDE DEF part
<1>7. /\ part.tries \in Nat /\ part.tries < Attempts /\ part.tries + 1 \in 0 .. Attempts
      /\ state \in {"ok", "call", "failed"}
      /\ state = "ok" <=> ok
      /\ state = "call" => part.tries + 1 < Attempts
      /\ state = "failed" => part.tries + 1 >= Attempts
  <2>1. part.tries \in Nat /\ part.tries < Attempts /\ Attempts \in Nat
    BY <1>2, <1>4, <1>5 DEF Part, PartInv, ConstantsAreSound
  <2>2. /\ Retried(part.tries + 1) \in {"call", "failed"}
        /\ Retried(part.tries + 1) = "call" => part.tries + 1 < Attempts
        /\ Retried(part.tries + 1) = "failed" => part.tries + 1 >= Attempts
    BY <2>1, RetriedFacts
  <2> HIDE DEF Ok
  <2> QED BY <2>1, <2>2
<1> HIDE DEF ok, state, Ok, State, gone
<1>8. /\ p \in Part /\ p.tries = part.tries + 1 /\ p.state = state /\ p.data = part.data
      /\ p.frame = part.frame /\ p.from = part.from /\ p.to = part.to
      /\ p.startTime = part.startTime /\ p.endTime = part.endTime
  BY <1>5, <1>7 DEF Part
<1> HIDE DEF p
<1>9. PartInv(i, p, run)
  BY <1>2, <1>4, <1>5, <1>7, <1>8 DEF PartInv
<1>10. Grown(faults, faults')
  BY <1>4, <1>6, BlameFacts DEF TypesInv
<1>11. OrderInv(run, media', embedded', results')
  <2>1. media[i].state # "ok" /\ (ok <=> p.state = "ok")
    BY <1>2, <1>7, <1>8
  <2> QED BY <1>2, <1>6, <2>1, CallsInOrder
<1>12. /\ gone \subseteq {<<"frame", i>>} /\ (~Framed \/ state = "call" => gone = {})
  <2>1. run.type = "video" => media[i].frame.path = <<"frame", i>>
    BY <1>4 DEF PartInv
  <2> QED BY <2>1 DEF gone, Frame, Deletes, Framed
<1>13. bucket' \subseteq Path /\ Left({i}, bucket, bucket')
  <2>1. bucket \subseteq Path
    BY <1>4 DEF TypesInv
  <2> QED BY <1>5, <1>6, <1>12, <2>1 DEF Left
<1>14. ASSUME Clean(faults') PROVE PartSound(i, p, run, jobs', bucket', faults')
  <2>1. PartSound(i, media[i], run, jobs, bucket, faults)
    BY <1>4, <1>10, <1>14, GrownFacts, NowSound DEF Sound
  <2>2. get
    <3>1. "get" \notin Unread(Source(i), get)
      BY <1>4, <1>6, <1>14, BlameFacts DEF TypesInv, NotRetriedKinds
    <3>2. Available(Source(i), bucket)
      BY <1>2, <2>1 DEF Source, PartSound, DataSound, FrameSound, Framed
    <3>3. get \in Get(Source(i)) \/ get \in {TRUE}
      BY DEF Downloads
    <3> QED BY <3>1, <3>2, <3>3, GetFacts
  <2>3. /\ Given(part) /\ DataSound(part.data, bucket \cup Uploaded(part.data))
        /\ Framed => part.frame.held
    BY <1>2, <1>3, <2>1, <2>2, PreparedSound DEF part
  <2>4. DataSound(p.data, bucket')
    <3>1. /\ part.data.inner.path # <<"frame", i>> /\ part.data.outer.path # <<"frame", i>>
      BY <1>4, <1>5 DEF PartInv, NoPath
    <3> QED BY <1>6, <1>8, <1>12, <2>3, <3>1 DEF DataSound, Available
  <2>5. state # "ok" => part.tries + 1 <= faults'["llm"]
    <3>1. SUFFICES ASSUME state # "ok" PROVE part.tries + 1 <= faults'["llm"]
      OBVIOUS
    <3>2. ~llm
      BY <1>7, <2>3, <3>1 DEF ok, Ok
    <3>3. faults'["llm"] = faults["llm"] + 1 /\ faults["llm"] \in Nat
      <4>1. "llm" \in Failing("llm", llm) /\ "llm" \in Fault
        BY <3>2 DEF Failing, Fault
      <4> QED BY <1>4, <1>6, <4>1, BlameFacts DEF TypesInv
    <3>4. part.tries <= faults["llm"]
      BY <1>2, <1>5, <2>1 DEF PartSound
    <3> QED BY <1>7, <3>3, <3>4
  <2>6. state = "failed" => faults'["llm"] >= Attempts
    <3>1. faults'["llm"] \in Nat /\ Attempts \in Nat
      BY <1>10, GrownFacts DEF ConstantsAreSound
    <3> QED BY <1>7, <2>5, <3>1
  <2>7. run.type = "image" => p.frame.held \/ ~p.frame.spent
    BY <1>5, <1>8, <2>1 DEF PartSound, Framed
  <2>8. Framed => FrameSound(i, p, jobs', bucket')
    BY <1>7, <1>8, <2>3 DEF FrameSound, Available
  <2> QED BY <1>7, <1>8, <2>4, <2>5, <2>6, <2>7, <2>8 DEF PartSound, Framed
<1> QED BY <1>2, <1>4, <1>6, <1>8, <1>9, <1>10, <1>11, <1>13, <1>14, PartKeeps

\* It is not called any more.
LEMMA GiveUpKeeps ==
  ASSUME ConstantsAreSound, SlicesAreBounded, ExtractInv, NEW i \in DOMAIN media, GiveUp(i)
  PROVE  ExtractInv'
<1> DEFINE p == [media[i] EXCEPT !.state = "failed"]
<1>1. /\ media[i].state = "call" /\ run.step \in Parallel /\ run.cancelled
      /\ media' = [media EXCEPT ![i].state = "failed"] /\ bucket' = bucket \ Frame(i, "failed")
      /\ run' = run /\ mp4' = mp4 /\ jobs' = jobs /\ faults' = faults
      /\ embedded' = embedded /\ results' = results
  BY DEF GiveUp, Calling
<1>2. /\ TypesInv(run, mp4, media, jobs, bucket, faults) /\ media[i] \in Part
      /\ PartInv(i, media[i], run) /\ Open(run)
  BY <1>1 DEF ExtractInv, TypesInv, MediaInv, Open, Parallel
<1>3. media' = [media EXCEPT ![i] = p]
  BY <1>1
<1>4. /\ p \in Part /\ p.state = "failed" /\ p.tries = media[i].tries /\ p.data = media[i].data
      /\ p.frame = media[i].frame /\ p.from = media[i].from /\ p.to = media[i].to
      /\ p.startTime = media[i].startTime /\ p.endTime = media[i].endTime
  BY <1>2 DEF Part
<1> HIDE DEF p
<1>5. PartInv(i, p, run)
  BY <1>2, <1>4 DEF PartInv
<1>6. Grown(faults, faults')
  BY <1>1, <1>2 DEF TypesInv, Grown
<1>7. OrderInv(run, media', embedded', results')
  BY <1>1, <1>3, <1>4, NotCompleted
<1>8. bucket' \subseteq Path /\ Left({i}, bucket, bucket')
  <2>1. Frame(i, "failed") \subseteq {<<"frame", i>>} /\ bucket \subseteq Path
    BY <1>2 DEF Frame, Deletes, Framed, PartInv, TypesInv
  <2> QED BY <1>1, <2>1 DEF Left
<1>9. Clean(faults') => PartSound(i, p, run, jobs', bucket', faults')
  BY <1>1, <1>2, NowSound DEF Sound
<1> QED BY <1>1, <1>2, <1>3, <1>4, <1>5, <1>6, <1>7, <1>8, <1>9, PartKeeps

-----------------------------------------------------------------------------
(* The pipeline *)

\* The meme is a duplicate: nothing more is done about it.
LEMMA DuplicateKeeps ==
  ASSUME ExtractInv, Duplicate, mp4' = mp4, MediaInv(run', media'), DOMAIN media \subseteq DOMAIN media',
         jobs' = jobs, bucket' \subseteq Path, Grown(faults, faults')
  PROVE  ExtractInv'
<1>1. /\ RunInv(run') /\ SameInput(run, run') /\ run'.step = "close" /\ ~Open(run')
  BY FailFacts DEF ExtractInv, TypesInv
<1>2. run'.outcome = "duplicate"
  BY DEF ExtractInv, TypesInv, RunInv, Run, Duplicate
<1>3. TypesInv(run', mp4', media', jobs', bucket', faults')
  BY <1>1 DEF ExtractInv, TypesInv, JobsInv, Grown
<1>4. OrderInv(run', media', embedded', results')
  BY <1>1, <1>2, OrderClosed
<1> QED BY <1>1, <1>2, <1>3, <1>4 DEF ExtractInv, SoundInv

\* All the parts are embedded, or one is not.
LEMMA EmbedDoneKeeps ==
  ASSUME ConstantsAreSound, ExtractInv, EmbedDone
  PROVE  ExtractInv'
<1>1. /\ run.step = "embed" /\ Ready /\ mp4' = mp4 /\ media' = media /\ embedded' = embedded
      /\ results' = results /\ jobs' = jobs /\ bucket' = bucket /\ faults' = faults
      /\ \A i \in DOMAIN media : media[i].state \notin {"todo", "frame"}
  BY DEF EmbedDone, Ready
<1>2. /\ RunInv(run) /\ MediaInv(run, media) /\ bucket' \subseteq Path /\ Grown(faults, faults')
      /\ Open(run)
  BY <1>1 DEF ExtractInv, TypesInv, Grown, Open
<1>3. CASE AllOk
  <2>1. Advance("duplicate") /\ "duplicate" \in Describing
    BY <1>3 DEF EmbedDone, Describing
  <2>2. /\ RunInv(run') /\ SameInput(run, run') /\ run'.step = "duplicate" /\ run'.tries = 0
        /\ run'.cancelled = run.cancelled /\ run'.outcome = "none"
    BY <1>2, <2>1, AdvanceFacts
  <2>3. MediaInv(run', media)
    BY <1>1, <1>2, <2>2, MediaStays DEF Describing, Encoding
  <2>4. OrderInv(run', media', embedded', results')
    <3>1. Completed(media) = DOMAIN media
      BY <1>3 DEF Completed, AllOk
    <3>2. Enumerates(embedded, DOMAIN media) /\ results = <<>>
      BY <1>1, <3>1 DEF ExtractInv, OrderInv
    <3> QED BY <1>1, <2>2, <3>2 DEF OrderInv, Encoding
  <2>5. run'.tries <= faults'["llm"]
    <3>1. faults'["llm"] \in Nat
      BY <1>2, GrownFacts
    <3> QED BY <2>2, <3>1
  <2>6. run.step \in Describing /\ run'.step # "embed" /\ run'.step \in Describing
    BY <1>1, <2>2 DEF Describing
  <2> QED BY <1>1, <1>2, <2>2, <2>3, <2>4, <2>5, <2>6, AdvanceKeeps
<1>4. CASE ~AllOk
  <2>1. Fail
    BY <1>4 DEF EmbedDone
  <2>2. MediaInv(run', media')
    BY <1>1, <2>1, ClosedMedia
  <2>3. Excused(run, mp4, faults')
    <3>1. CASE ~Clean(faults)
      BY <1>1, <3>1 DEF Excused
    <3>2. CASE Clean(faults)
      <4>1. PICK i \in DOMAIN media : media[i].state = "failed"
        BY <1>1, <1>4 DEF AllOk, Ready
      <4>2. PartSound(i, media[i], run, jobs, bucket, faults)
        BY <1>2, <3>2, NowSound DEF Sound
      <4> QED BY <1>1, <4>1, <4>2 DEF PartSound, Excused
    <3> QED BY <3>1, <3>2
  <2> QED BY <1>1, <1>2, <2>1, <2>2, <2>3, FailKeeps
<1> QED BY <1>3, <1>4

\* The parts are called about anew.
LEMMA AgainFacts ==
  ASSUME ConstantsAreSound, ExtractInv, run.step = "duplicate"
  PROVE  /\ DOMAIN Again("call") = DOMAIN media /\ Completed(Again("call")) = {}
         /\ \A q : SameInput(run, q) /\ q.step \in {"check", "extract", "close"}
                     => MediaInv(q, Again("call"))
         /\ \A q, f : SameInput(run, q) /\ q.step # "embed" /\ Clean(faults) /\ Grown(faults, f)
              => \A i \in DOMAIN media : PartSound(i, Again("call")[i], q, jobs, bucket, f)
<1> DEFINE m == Again("call")
<1>1. /\ MediaInv(run, media) /\ media \in [Parts(run) -> Part] /\ Open(run)
      /\ faults \in [Fault -> Nat]
  BY DEF ExtractInv, TypesInv, MediaInv, Describing, Open
<1>2. DOMAIN m = DOMAIN media
  BY DEF Again
<1>3. ASSUME NEW i \in DOMAIN media
      PROVE  /\ m[i] \in Part /\ m[i].state = "call" /\ m[i].tries = 0 /\ m[i].data = media[i].data
             /\ m[i].frame = media[i].frame /\ m[i].from = media[i].from /\ m[i].to = media[i].to
             /\ m[i].startTime = media[i].startTime /\ m[i].endTime = media[i].endTime
  <2>1. /\ m[i] = [media[i] EXCEPT !.state = "call", !.tries = 0] /\ media[i] \in Part
        /\ 0 \in 0 .. Attempts
    BY <1>1 DEF Again, ConstantsAreSound
  <2> HIDE DEF m
  <2> QED BY <2>1 DEF Part
<1>4. Completed(m) = {}
  <2>1. \A i \in DOMAIN m : m[i].state # "ok"
    BY <1>2, <1>3
  <2> HIDE DEF m
  <2> QED BY <2>1 DEF Completed
<1>5. m \in [Parts(run) -> Part]
  <2>1. DOMAIN media = Parts(run)
    BY <1>1
  <2> QED BY <1>3, <2>1 DEF Again
<1> HIDE DEF m
<1>6. ASSUME NEW q, SameInput(run, q), q.step \in {"check", "extract", "close"} PROVE MediaInv(q, m)
  <2>1. Parts(q) = Parts(run) /\ q.step \notin Encoding
    BY <1>6 DEF Parts, SameInput, Encoding
  <2>2. ASSUME NEW i \in DOMAIN m PROVE PartInv(i, m[i], q)
    <3>1. PartInv(i, media[i], run)
      BY <1>1, <1>2 DEF MediaInv
    <3>2. 0 < Attempts
      BY DEF ConstantsAreSound
    <3> QED BY <1>2, <1>3, <1>6, <3>1, <3>2 DEF PartInv, SameInput
  <2> QED BY <1>5, <2>1, <2>2 DEF MediaInv
<1>7. ASSUME NEW q, NEW f, SameInput(run, q), q.step # "embed", Clean(faults), Grown(faults, f),
             NEW i \in DOMAIN media
      PROVE  PartSound(i, m[i], q, jobs, bucket, f)
  <2>1. PartSound(i, media[i], run, jobs, bucket, faults)
    BY <1>1, <1>7, NowSound DEF Sound
  <2>2. f["llm"] \in Nat
    BY <1>7, GrownFacts
  <2>3. 0 <= f["llm"]
    BY <2>2
  <2> QED BY <1>3, <1>7, <2>1, <2>3 DEF PartSound, SameInput
<1> QED BY <1>2, <1>4, <1>6, <1>7 DEF m

\* The pipeline goes on after the index was asked.
LEMMA AskedKeeps ==
  ASSUME ConstantsAreSound, ExtractInv, run.step = "duplicate",
         NEW next \in {"check", "extract"}, next = "check" => run.type = "image", Advance(next),
         mp4' = mp4, media' = Again("call"), embedded' = embedded, results' = results,
         jobs' = jobs, bucket' = bucket, Grown(faults, faults')
  PROVE  ExtractInv'
<1>1. RunInv(run) /\ Open(run) /\ next \in Describing \cup {"size", "slice"}
  BY DEF ExtractInv, TypesInv, Open, Describing
<1>2. /\ RunInv(run') /\ SameInput(run, run') /\ run'.step = next /\ run'.tries = 0
      /\ run'.cancelled = run.cancelled /\ run'.outcome = "none"
  BY <1>1, AdvanceFacts
<1>3. /\ DOMAIN media' = DOMAIN media /\ Completed(media') = {} /\ MediaInv(run', media')
  BY <1>2, AgainFacts
<1>4. OrderInv(run', media', embedded', results')
  <2>1. Enumerates(embedded, DOMAIN media) /\ results = <<>>
    BY DEF ExtractInv, OrderInv, Describing
  <2>2. Enumerates(<<>>, {})
    BY NothingCame
  <2> QED BY <1>2, <1>3, <2>1, <2>2 DEF OrderInv, Encoding
<1>5. ASSUME Clean(faults')
      PROVE  /\ Mp4Sound(run', mp4', jobs', bucket') /\ run'.tries <= faults'["llm"]
             /\ \A i \in DOMAIN media' : PartSound(i, media'[i], run', jobs', bucket', faults')
  <2>1. Clean(faults) /\ faults'["llm"] \in Nat
    BY <1>5, GrownFacts
  <2>2. Sound(run, mp4, media, jobs, bucket, faults)
    BY <1>1, <2>1, NowSound
  <2>3. Mp4Sound(run', mp4', jobs', bucket')
    BY <1>2, <2>2 DEF Sound, Mp4Sound, SameInput, Describing
  <2>4. run'.step # "embed"
    BY <1>2
  <2>5. \A i \in DOMAIN media : PartSound(i, Again("call")[i], run', jobs, bucket, faults')
    BY <1>2, <2>1, <2>4, AgainFacts
  <2>6. \A i \in DOMAIN media' : PartSound(i, media'[i], run', jobs', bucket', faults')
    BY <1>3, <2>5
  <2>7. 0 <= faults'["llm"]
    BY <2>1
  <2> QED BY <1>2, <2>3, <2>6, <2>7
<1>6. /\ mp4' \in Data /\ mp4'.inner.path \in {NoPath, <<"convert", 0>>} /\ bucket' \subseteq Path
      /\ mp4'.outer.path \in {NoPath, <<"mp4", 0>>}
      /\ run'.step \notin {"idle", "convert"} /\ DOMAIN media \subseteq DOMAIN media'
      /\ bucket \subseteq bucket'
  BY <1>2, <1>3 DEF ExtractInv, TypesInv
<1> QED BY <1>1, <1>2, <1>3, <1>4, <1>5, <1>6, GoesOn

\* The index did not answer.
LEMMA IndexFailed ==
  ASSUME ExtractInv, Open(run), NEW ok \in BOOLEAN, Blame(Failing("index", ok)),
         ~GetDuplicatesByEmbedding(ok)
  PROVE  Grown(faults, faults') /\ Excused(run, mp4, faults')
<1>1. faults \in [Fault -> Nat]
  BY DEF ExtractInv, TypesInv
<1>2. Grown(faults, faults')
  BY <1>1, BlameFacts
<1>3. ~Clean(faults')
  <2>1. SUFFICES ASSUME Clean(faults') PROVE FALSE
    OBVIOUS
  <2>2. Clean(faults) /\ \A k \in NotRetriedKinds : k \notin Failing("index", ok)
    BY <1>1, <2>1, BlameFacts
  <2>3. ok
    BY <2>2 DEF Failing, NotRetriedKinds
  <2>4. ~run.cancelled
    BY <2>2, NowSound DEF Sound
  <2> QED BY <2>3, <2>4 DEF GetDuplicatesByEmbedding
<1> QED BY <1>2, <1>3 DEF Excused

\* Is the image a duplicate of a meme?
LEMMA CheckDuplicateImageKeeps ==
  ASSUME ConstantsAreSound, ExtractInv, CheckDuplicateImage
  PROVE  ExtractInv'
<1>1. PICK found \in BOOLEAN, ok \in BOOLEAN :
        /\ IF GetDuplicatesByEmbedding(ok)
             THEN Advance(IF found THEN "check" ELSE "extract") /\ media' = Again("call")
             ELSE Fail /\ UNCHANGED media
        /\ Blame(Failing("index", ok))
  <2>1. Succeeds("index") \subseteq BOOLEAN
    BY Chances
  <2> QED BY <2>1 DEF CheckDuplicateImage
<1>2. /\ run.step = "duplicate" /\ run.type = "image" /\ Open(run)
      /\ mp4' = mp4 /\ embedded' = embedded /\ results' = results /\ jobs' = jobs
      /\ bucket' = bucket
  BY DEF CheckDuplicateImage, Open
<1>3. Grown(faults, faults')
  BY <1>1, BlameFacts DEF ExtractInv, TypesInv
<1>4. CASE GetDuplicatesByEmbedding(ok)
  <2>1. PICK next \in {"check", "extract"} : Advance(next)
    BY <1>1, <1>4
  <2> QED BY <1>1, <1>2, <1>3, <1>4, <2>1, AskedKeeps
<1>5. CASE ~GetDuplicatesByEmbedding(ok)
  <2>1. Fail /\ media' = media
    BY <1>1, <1>5
  <2>2. MediaInv(run', media') /\ DOMAIN media \subseteq DOMAIN media' /\ bucket' \subseteq Path
    BY <1>2, <2>1, ClosedMedia DEF ExtractInv, TypesInv
  <2>3. Excused(run, mp4, faults')
    BY <1>1, <1>2, <1>5, IndexFailed
  <2> QED BY <1>2, <1>3, <2>1, <2>2, <2>3, FailKeeps
<1> QED BY <1>4, <1>5

\* Is the video a duplicate of a meme?
LEMMA CheckDuplicateVideoKeeps ==
  ASSUME ConstantsAreSound, ExtractInv, CheckDuplicateVideo
  PROVE  ExtractInv'
<1> DEFINE Queried(ok) == embedded = <<>> \/ GetDuplicatesByEmbedding(ok)
<1>1. PICK ok \in BOOLEAN :
        /\ Fail \/ Duplicate \/ Advance("extract")
        /\ Fail => ~GetDuplicatesByEmbedding(ok) \/ Duplicate \/ Advance("extract")
        /\ media' = Again("call") /\ Blame(Failing("index", ok))
  <2>1. Succeeds("index") \subseteq BOOLEAN
    BY Chances
  <2>2. PICK similar \in SUBSET Range(embedded), ok \in BOOLEAN :
       LET same == /\ similar # {}
                   /\ 100 * Cardinality(similar) >= Share * Len(embedded)
       IN /\ CASE ~Queried(ok) -> Fail
               [] Queried(ok) /\ same -> Duplicate
               [] Queried(ok) /\ ~same -> Advance("extract")
          /\ media' = Again("call")
          /\ Blame(Failing("index", ok))
    BY <2>1 DEF CheckDuplicateVideo
  <2> DEFINE same == /\ similar # {}
                     /\ 100 * Cardinality(similar) >= Share * Len(embedded)
  <2> HIDE DEF same
  <2>3. \/ Fail /\ ~Queried(ok)
        \/ Duplicate
        \/ Advance("extract")
    BY <2>2 DEF same
  <2> QED BY <2>2, <2>3
<1>2. /\ run.step = "duplicate" /\ run.type = "video" /\ Open(run)
      /\ mp4' = mp4 /\ embedded' = embedded /\ results' = results /\ jobs' = jobs
      /\ bucket' = bucket
  BY DEF CheckDuplicateVideo, Open
<1>3. Grown(faults, faults')
  BY <1>1, BlameFacts DEF ExtractInv, TypesInv
<1>4. CASE Advance("extract")
  BY <1>1, <1>2, <1>3, <1>4, AskedKeeps
<1>5. ASSUME Fail \/ Duplicate
      PROVE  MediaInv(run', media') /\ DOMAIN media \subseteq DOMAIN media' /\ bucket' \subseteq Path
  <2>1. SameInput(run, run') /\ run'.step = "close" /\ bucket' \subseteq Path
    BY <1>2, <1>5, FailFacts DEF ExtractInv, TypesInv
  <2> QED BY <1>1, <1>2, <2>1, AgainFacts
<1>6. CASE Duplicate
  BY <1>2, <1>3, <1>5, <1>6, DuplicateKeeps
<1>7. CASE Fail /\ ~GetDuplicatesByEmbedding(ok)
  <2>1. Excused(run, mp4, faults')
    BY <1>1, <1>2, <1>7, IndexFailed
  <2> QED BY <1>2, <1>3, <1>5, <1>7, <2>1, FailKeeps
<1> QED BY <1>1, <1>4, <1>6, <1>7

\* The parts are a sequence.
LEMMA PartsNumbered ==
  ASSUME ConstantsAreSound, ExtractInv
  PROVE  \E n \in Nat : DOMAIN media = 1 .. n /\ Len(media) = n
<1>1. run \in Run /\ (media = <<>> \/ media \in [Parts(run) -> Part])
  BY DEF ExtractInv, TypesInv, RunInv, MediaInv
<1>2. PICK n \in Nat : DOMAIN media = 1 .. n
  <2>1. CASE media = <<>>
    <3>1. DOMAIN <<>> = 1 .. 0
      OBVIOUS
    <3> QED BY <2>1, <3>1
  <2>2. CASE media \in [Parts(run) -> Part] /\ run.type = "image"
    <3>1. DOMAIN media = 1 .. 1
      BY <2>2 DEF Parts
    <3> QED BY <3>1
  <2>3. CASE media \in [Parts(run) -> Part] /\ run.type = "video"
    <3>1. run.duration \in {0} \cup Durations /\ DOMAIN media = Slices(run.duration)
      BY <1>1, <2>3 DEF Parts, Run
    <3>2. run.duration \in Nat
      BY <3>1, Lengths
    <3> QED BY <3>1, <3>2, SlicesNumbered
  <2> QED BY <1>1, <2>1, <2>2, <2>3 DEF Run
<1>3. media \in Seq(Part)
  <2>1. CASE media = <<>>
    BY <2>1
  <2>2. CASE media \in [Parts(run) -> Part]
    <3>1. media \in [1 .. n -> Part]
      BY <1>2, <2>2
    <3> QED BY <3>1
  <2> QED BY <1>1, <2>1, <2>2
<1>4. Len(media) \in Nat /\ DOMAIN media = 1 .. Len(media)
  BY <1>3
<1> QED BY <1>2, <1>4

\* All the parts are described, or one is not.
LEMMA ExtractDoneKeeps ==
  ASSUME ConstantsAreSound, SlicesAreBounded, ExtractInv, ExtractDone
  PROVE  ExtractInv'
<1>1. /\ run.step = "extract" /\ Ready /\ mp4' = mp4 /\ media' = media /\ embedded' = embedded
      /\ jobs' = jobs /\ bucket' = bucket /\ faults' = faults
      /\ results' = IF AllOk THEN BySlice(results) ELSE results
  BY DEF ExtractDone
<1>2. /\ RunInv(run) /\ MediaInv(run, media) /\ bucket' \subseteq Path /\ Grown(faults, faults')
      /\ Open(run) /\ media \in [Parts(run) -> Part] /\ run.step \in Describing
  BY <1>1 DEF ExtractInv, TypesInv, MediaInv, Grown, Open, Describing
<1>3. CASE AllOk /\ media # <<>>
  <2>1. PICK next \in {"thumb", "combine"} : Advance(next)
    BY <1>3 DEF ExtractDone
  <2>2. next \in Describing
    BY DEF Describing
  <2>3. /\ RunInv(run') /\ SameInput(run, run') /\ run'.step = next /\ run'.tries = 0
        /\ run'.cancelled = run.cancelled /\ run'.outcome = "none"
    BY <1>2, <2>1, <2>2, AdvanceFacts
  <2>4. MediaInv(run', media)
    BY <1>1, <1>2, <2>3, MediaStays DEF Describing, Encoding
  <2>5. OrderInv(run', media', embedded', results')
    <3>1. Completed(media) = DOMAIN media
      BY <1>3 DEF Completed, AllOk
    <3>2. Enumerates(embedded, DOMAIN media) /\ Enumerates(results, DOMAIN media)
      BY <1>1, <3>1 DEF ExtractInv, OrderInv, Describing
    <3>3. PICK n \in Nat : DOMAIN media = 1 .. n
      BY PartsNumbered
    <3>4. BySlice(results) = [i \in 1 .. n |-> i]
      BY <3>2, <3>3, SortedBySlice
    <3>5. results' = [i \in DOMAIN media' |-> i]
      BY <1>1, <1>3, <3>3, <3>4
    <3> QED BY <1>1, <2>3, <3>2, <3>5 DEF OrderInv, Encoding
  <2>6. run'.tries <= faults'["llm"]
    <3>1. faults'["llm"] \in Nat
      BY <1>2, GrownFacts
    <3> QED BY <2>3, <3>1
  <2>7. run'.step # "embed" /\ run'.step \in Describing
    BY <2>2, <2>3
  <2> QED BY <1>1, <1>2, <2>3, <2>4, <2>5, <2>6, <2>7, AdvanceKeeps
<1>4. CASE ~(AllOk /\ media # <<>>)
  <2>1. Fail
    BY <1>4 DEF ExtractDone
  <2>2. MediaInv(run', media')
    BY <1>1, <2>1, ClosedMedia
  <2>3. Excused(run, mp4, faults')
    <3>1. CASE ~Clean(faults)
      BY <1>1, <3>1 DEF Excused
    <3>2. CASE Clean(faults) /\ ~AllOk
      <4>1. PICK i \in DOMAIN media : media[i].state = "failed"
        BY <1>1, <3>2 DEF AllOk, Ready
      <4>2. PartSound(i, media[i], run, jobs, bucket, faults)
        BY <1>2, <3>2, NowSound DEF Sound
      <4> QED BY <1>1, <4>1, <4>2 DEF PartSound, Excused
    <3>3. CASE media = <<>>
      <4>1. DOMAIN <<>> = {}
        OBVIOUS
      <4>2. Parts(run) = {}
        BY <1>2, <3>3, <4>1
      <4>3. run.type = "video" /\ Slices(run.duration) = {} /\ run.duration \in {0} \cup Durations
        BY <1>2, <4>2 DEF Parts, RunInv, Run
      <4>4. run.duration \in Nat
        BY <4>3, Lengths
      <4>5. run.duration # 0 => 1 \in Slices(run.duration)
        BY <4>4, Starts DEF Slices, Shorter
      <4> QED BY <4>3, <4>5 DEF Excused
    <3> QED BY <1>4, <3>1, <3>2, <3>3
  <2> QED BY <1>1, <1>2, <2>1, <2>2, <2>3, FailKeeps
<1> QED BY <1>3, <1>4

\* The results are put together, or this is tried again.
LEMMA CombineResultsKeeps ==
  ASSUME ConstantsAreSound, ExtractInv, CombineResults
  PROVE  ExtractInv'
<1>1. PICK ok \in BOOLEAN :
        /\ IF ok /\ ~run.cancelled THEN Advance("thumb")
           ELSE IF run.cancelled \/ Retried(run.tries + 1) = "failed" THEN Fail
           ELSE run' = [run EXCEPT !.tries = @ + 1]
        /\ Blame(Failing("llm", ok))
  <2>1. Succeeds("llm") \subseteq BOOLEAN
    BY Chances
  <2> QED BY <2>1 DEF CombineResults
<1>2. /\ run.step = "combine" /\ mp4' = mp4 /\ media' = media /\ embedded' = embedded
      /\ results' = results /\ jobs' = jobs /\ bucket' = bucket
  BY DEF CombineResults
<1>3. /\ RunInv(run) /\ run \in Run /\ MediaInv(run, media) /\ bucket' \subseteq Path
      /\ faults \in [Fault -> Nat] /\ Open(run) /\ run.step \in Describing
  BY <1>2 DEF ExtractInv, TypesInv, RunInv, Open, Describing
<1>4. Grown(faults, faults') /\ faults["llm"] \in Nat /\ faults'["llm"] \in Nat
  <2>1. Grown(faults, faults') /\ "llm" \in Fault
    BY <1>1, <1>3, BlameFacts DEF Fault
  <2> QED BY <1>3, <2>1 DEF Grown
<1>5. Clean(faults') => ~run.cancelled /\ run.tries <= faults["llm"]
  BY <1>3, <1>4, GrownFacts, NowSound DEF Sound
<1>6. ~ok => faults'["llm"] = faults["llm"] + 1
  <2>1. ~ok => "llm" \in Failing("llm", ok) \cap Fault
    BY DEF Failing, Fault
  <2> QED BY <1>1, <1>3, <2>1, BlameFacts
<1>7. run.tries \in Nat /\ Attempts \in Nat
  BY <1>3 DEF Run, ConstantsAreSound
<1>8. /\ Enumerates(embedded, DOMAIN media) /\ results = [i \in DOMAIN media |-> i]
  BY <1>2 DEF ExtractInv, OrderInv, Describing
<1>9. CASE ok /\ ~run.cancelled
  <2>1. Advance("thumb") /\ "thumb" \in Describing
    BY <1>1, <1>9 DEF Describing
  <2>2. /\ RunInv(run') /\ SameInput(run, run') /\ run'.step = "thumb" /\ run'.tries = 0
        /\ run'.cancelled = run.cancelled /\ run'.outcome = "none"
    BY <1>3, <2>1, AdvanceFacts
  <2>3. MediaInv(run', media)
    BY <1>2, <1>3, <2>2, MediaStays DEF Encoding
  <2>4. OrderInv(run', media', embedded', results')
    BY <1>2, <1>8, <2>2 DEF OrderInv, Encoding
  <2>5. run'.step # "embed" /\ run'.step \in Describing /\ run'.tries <= faults'["llm"]
    BY <1>4, <2>1, <2>2
  <2> QED BY <1>2, <1>3, <1>4, <2>2, <2>3, <2>4, <2>5, AdvanceKeeps
<1>10. CASE ~(ok /\ ~run.cancelled) /\ (run.cancelled \/ Retried(run.tries + 1) = "failed")
  <2>1. Fail
    BY <1>1, <1>10
  <2>2. MediaInv(run', media')
    BY <1>2, <2>1, ClosedMedia
  <2>3. Excused(run, mp4, faults')
    <3>1. CASE ~Clean(faults')
      BY <3>1 DEF Excused
    <3>2. CASE Clean(faults')
      <4>1. ~ok /\ run.tries + 1 >= Attempts
        BY <1>5, <1>7, <1>10, <3>2, RetriedFacts
      <4>2. faults'["llm"] >= Attempts
        BY <1>4, <1>5, <1>6, <1>7, <3>2, <4>1
      <4> QED BY <4>2 DEF Excused
    <3> QED BY <3>1, <3>2
  <2> QED BY <1>2, <1>3, <1>4, <2>1, <2>2, <2>3, FailKeeps
<1>11. CASE ~(ok /\ ~run.cancelled) /\ ~(run.cancelled \/ Retried(run.tries + 1) = "failed")
  <2>1. run' = [run EXCEPT !.tries = @ + 1] /\ ~ok
    BY <1>1, <1>11
  <2>2. run.tries + 1 \in 0 .. Attempts - 1
    BY <1>7, <1>11, RetriedFacts
  <2>3. /\ run' \in Run /\ SameInput(run, run') /\ run'.step = run.step
        /\ run'.tries = run.tries + 1
        /\ run'.cancelled = run.cancelled /\ run'.outcome = run.outcome
    BY <1>3, <2>1, <2>2 DEF Run, SameInput
  <2>4. RunInv(run') /\ run'.outcome = "none"
    BY <1>2, <1>3, <2>3 DEF RunInv
  <2>5. MediaInv(run', media)
    BY <1>2, <1>3, <2>3, MediaStays DEF Encoding
  <2>6. OrderInv(run', media', embedded', results')
    BY <1>2, <2>3, OrderStays DEF ExtractInv
  <2>7. Clean(faults') => run'.tries <= faults'["llm"]
    BY <1>4, <1>5, <1>6, <1>7, <2>1, <2>3
  <2> QED BY <1>2, <1>3, <1>4, <2>3, <2>4, <2>5, <2>6, <2>7, AdvanceKeeps
<1> QED BY <1>9, <1>10, <1>11

\* The thumbnail of an image.
LEMMA ImageThumbnailKeeps ==
  ASSUME ConstantsAreSound, ExtractInv, ImageThumbnail
  PROVE  ExtractInv'
<1>1. /\ run.step = "thumb" /\ run.type = "image" /\ Advance("save") /\ mp4' = mp4 /\ media' = media
      /\ embedded' = embedded /\ results' = results /\ jobs' = jobs /\ bucket' = bucket
      /\ faults' = faults
  BY DEF ImageThumbnail
<1>2. /\ RunInv(run) /\ MediaInv(run, media) /\ Grown(faults, faults') /\ Open(run)
      /\ run.step \in Describing /\ "save" \in Describing
  BY <1>1 DEF ExtractInv, TypesInv, Grown, Open, Describing
<1>3. /\ RunInv(run') /\ SameInput(run, run') /\ run'.step = "save" /\ run'.tries = 0
      /\ run'.cancelled = run.cancelled /\ run'.outcome = "none"
  BY <1>1, <1>2, AdvanceFacts
<1>4. MediaInv(run', media)
  BY <1>1, <1>2, <1>3, MediaStays DEF Encoding
<1>5. OrderInv(run', media', embedded', results')
  <2>1. /\ Enumerates(embedded, DOMAIN media) /\ results = [i \in DOMAIN media |-> i]
    BY <1>1 DEF ExtractInv, OrderInv, Describing
  <2> QED BY <1>1, <1>3, <2>1 DEF OrderInv, Encoding
<1>6. run'.tries <= faults'["llm"] /\ run'.step # "embed" /\ run'.step \in Describing
  <2>1. faults'["llm"] \in Nat
    BY <1>2, GrownFacts
  <2> QED BY <1>2, <1>3, <2>1
<1> QED BY <1>1, <1>2, <1>3, <1>4, <1>5, <1>6, AdvanceKeeps

\* The meme is stored, or is not.
LEMMA SaveMemeKeeps ==
  ASSUME ConstantsAreSound, ExtractInv, SaveMeme
  PROVE  ExtractInv'
<1>1. PICK get \in Get(mp4.inner), ok \in BOOLEAN :
        /\ mp4' = Fetch(mp4, get)
        /\ run' = [run EXCEPT !.step = "close",
             !.outcome = IF Readable(mp4'.inner) /\ ok /\ ~run.cancelled THEN "saved" ELSE "failed"]
        /\ Blame(Unread(mp4.inner, get) \cup Failing("index", ok))
  <2>1. Succeeds("index") \subseteq BOOLEAN
    BY Chances
  <2> QED BY <2>1 DEF SaveMeme
<1>2. /\ run.step = "save" /\ media' = media /\ embedded' = embedded
      /\ results' = results /\ jobs' = jobs /\ bucket' = bucket
  BY DEF SaveMeme
<1>3. /\ RunInv(run) /\ run \in Run /\ MediaInv(run, media) /\ JobsInv(run, media, jobs)
      /\ bucket' \subseteq Path /\ faults \in [Fault -> Nat] /\ Open(run) /\ mp4 \in Data
      /\ mp4.inner.path \in {NoPath, <<"convert", 0>>} /\ mp4.outer.path \in {NoPath, <<"mp4", 0>>}
  BY <1>2 DEF ExtractInv, TypesInv, RunInv, Open
<1>4. get \in BOOLEAN /\ Grown(faults, faults')
  BY <1>1, <1>3, Chances, BlameFacts
<1>5. /\ run' \in Run /\ SameInput(run, run') /\ run'.step = "close"
      /\ run'.outcome = IF Readable(mp4'.inner) /\ ok /\ ~run.cancelled THEN "saved" ELSE "failed"
  <2>1. "close" \in Steps
    BY DEF Steps
  <2> QED BY <1>1, <1>3, <2>1 DEF Run, SameInput
<1>6. RunInv(run') /\ ~Open(run')
  BY <1>5 DEF RunInv, Open
<1>7. /\ mp4' \in Data /\ mp4'.inner.path \in {NoPath, <<"convert", 0>>}
      /\ mp4'.outer.path \in {NoPath, <<"mp4", 0>>}
  <2>1. <<"mp4", 0>> \in Path
    BY DEF Path
  <2> QED BY <1>1, <1>3, <1>4, <2>1, DataFacts
<1>8. MediaInv(run', media)
  BY <1>2, <1>3, <1>5, MediaStays DEF Describing, Encoding
<1>9. TypesInv(run', mp4', media', jobs', bucket', faults')
  BY <1>2, <1>3, <1>4, <1>5, <1>6, <1>7, <1>8 DEF TypesInv, JobsInv, Grown
<1>10. OrderInv(run', media', embedded', results')
  <2>1. /\ Enumerates(embedded, DOMAIN media) /\ results = [i \in DOMAIN media |-> i]
    BY <1>2 DEF ExtractInv, OrderInv, Describing
  <2> QED BY <1>2, <1>5, <2>1 DEF OrderInv, Encoding, Describing
<1>11. Clean(faults') => run'.outcome = "saved"
  <2>1. SUFFICES ASSUME Clean(faults') PROVE run'.outcome = "saved"
    OBVIOUS
  <2>2. Clean(faults) /\ "get" \notin Unread(mp4.inner, get) /\ "index" \notin Failing("index", ok)
    BY <1>1, <1>3, <2>1, BlameFacts DEF NotRetriedKinds
  <2>3. ~run.cancelled /\ DataSound(mp4, bucket)
    BY <1>3, <2>2, NowSound DEF Sound, Mp4Sound
  <2>4. get /\ ok
    BY <2>2, <2>3, GetFacts DEF DataSound, Failing
  <2>5. Fetch(mp4, get).inner.held
    <3>1. <<"mp4", 0>> \in Path /\ FALSE \in BOOLEAN
      BY DEF Path
    <3> QED BY <1>3, <1>4, <2>3, <2>4, <3>1, SoundFacts
  <2> QED BY <1>1, <1>5, <2>3, <2>4, <2>5 DEF Readable
<1> QED BY <1>6, <1>9, <1>10, <1>11 DEF ExtractInv, SoundInv, Excused

\* The image is compared with the most similar one.
LEMMA CheckDuplicateKeeps ==
  ASSUME ConstantsAreSound, ExtractInv, CheckDuplicate
  PROVE  ExtractInv'
<1> DEFINE Part2(get, put) == [Prepared(1, TRUE, put) EXCEPT !.frame = ResolveDownload(@, get)]
           Ok(part, llm) == ~run.cancelled /\ llm /\ Compared(part)
           State(part) == IF run.cancelled THEN "failed" ELSE Retried(part.tries + 1)
           Gets == IF Provider = "gemini" THEN {TRUE} ELSE Get(media[1].frame)
           Called(get, put, llm, same) ==
             LET part == Part2(get, put)
                 ok == Ok(part, llm)
                 state == State(part)
             IN /\ CASE ok /\ same -> Duplicate /\ media' = <<part>>
                     [] ok /\ ~same -> Advance("extract") /\ media' = <<[part EXCEPT !.tries = 0]>>
                     [] ~ok /\ state = "failed" -> Fail /\ media' = <<part>>
                     [] ~ok /\ state # "failed" ->
                          UNCHANGED run /\ media' = <<[part EXCEPT !.tries = @ + 1]>>
                /\ bucket' = bucket \cup Uploaded(part.data)
                /\ Blame(Unread(media[1].frame, get) \cup Failing("put", put) \cup Failing("llm", llm))
<1>1. PICK get \in Gets, put \in PutFor(1), llm \in Succeeds("llm"), same \in BOOLEAN :
        Called(get, put, llm, same)
  BY Zenon DEF CheckDuplicate
<1>2. get \in BOOLEAN /\ put \in BOOLEAN /\ llm \in BOOLEAN
  <2>1. /\ Get(media[1].frame) \subseteq BOOLEAN /\ Put(media[1].data) \subseteq BOOLEAN
        /\ Succeeds("llm") \subseteq BOOLEAN
    BY Chances
  <2> QED BY <2>1 DEF PutFor
<1>3. /\ run.step = "check" /\ 1 \in DOMAIN media /\ media[1].state = "call"
      /\ mp4' = mp4 /\ embedded' = embedded /\ results' = results /\ jobs' = jobs
  BY DEF CheckDuplicate, Calling
<1>4. /\ RunInv(run) /\ run \in Run /\ MediaInv(run, media) /\ faults \in [Fault -> Nat]
      /\ Open(run)
      /\ run.type = "image" /\ media \in [{1} -> Part] /\ DOMAIN media = {1}
      /\ bucket \subseteq Path
      /\ PartInv(1, media[1], run) /\ run.outcome = "none"
  <2>1. /\ RunInv(run) /\ MediaInv(run, media) /\ faults \in [Fault -> Nat] /\ bucket \subseteq Path
    BY DEF ExtractInv, TypesInv
  <2>2. run \in Run /\ run.type = "image" /\ Open(run) /\ run.outcome = "none"
    BY <1>3, <2>1 DEF RunInv, Open
  <2>3. media \in [{1} -> Part]
    BY <1>3, <2>1, <2>2 DEF MediaInv, Parts, Describing
  <2> QED BY <1>3, <2>1, <2>2, <2>3 DEF MediaInv
<1> DEFINE given == Prepared(1, TRUE, put)
           frame == ResolveDownload(media[1].frame, get)
           part == Part2(get, put)
           ok == Ok(part, llm)
           state == State(part)
<1>5. /\ given \in Part /\ given.tries = media[1].tries /\ given.state = "call"
      /\ given.frame = media[1].frame
      /\ given.data.inner.path = media[1].data.inner.path
      /\ given.data.outer.path \in {media[1].data.outer.path, <<"upload", 1>>}
      /\ <<"upload", 1>> \in Path /\ Uploaded(given.data) \subseteq {<<"upload", 1>>}
  <2>1. TRUE \in BOOLEAN /\ ~Framed
    BY <1>3 DEF Framed
  <2> QED BY <1>2, <1>3, <2>1, PreparedFacts
<1>6. /\ frame \in Datum /\ frame.path = <<"stored", 0>>
      /\ frame.held <=> (media[1].frame.held \/ (~media[1].frame.spent /\ get))
  <2>1. media[1].frame \in Datum /\ media[1].frame.path = <<"stored", 0>>
    BY <1>4 DEF Part, PartInv
  <2>2. <<"upload", 1>> \in Path
    BY <1>5
  <2> QED BY <1>2, <2>1, <2>2, DatumFacts
<1>7. part = [given EXCEPT !.frame = frame]
  <2>1. part = [given EXCEPT !.frame = ResolveDownload(given.frame, get)]
    OBVIOUS
  <2> QED BY <1>5, <2>1
<1>8. Called(get, put, llm, same)
  BY <1>1
<1>9. /\ \/ ok /\ Duplicate /\ media' = <<part>>
         \/ ok /\ Advance("extract") /\ media' = <<[part EXCEPT !.tries = 0]>>
         \/ ~ok /\ state = "failed" /\ Fail /\ media' = <<part>>
         \/ ~ok /\ state # "failed" /\ run' = run /\ media' = <<[part EXCEPT !.tries = @ + 1]>>
      /\ bucket' = bucket \cup Uploaded(part.data)
      /\ Blame(Unread(media[1].frame, get) \cup Failing("put", put) \cup Failing("llm", llm))
  <2> HIDE DEF Part2, Ok, State
  <2> QED BY <1>8
<1> HIDE DEF part, given, frame, Called
<1>10. /\ part \in Part /\ part.tries = media[1].tries /\ part.state = "call"
       /\ part.data = given.data /\ part.frame = frame
  BY <1>5, <1>6, <1>7 DEF Part
<1>11. /\ part.tries \in Nat /\ part.tries < Attempts /\ Attempts \in Nat
  BY <1>4, <1>3, <1>10 DEF PartInv, Part, ConstantsAreSound
<1>12. ASSUME NEW n \in 0 .. Attempts
       PROVE  LET p == [part EXCEPT !.tries = n] IN
              /\ p \in Part /\ p.tries = n /\ p.state = "call" /\ p.data = part.data
              /\ p.frame = part.frame
  BY <1>10 DEF Part
<1>13. ASSUME NEW p \in Part, p.tries < Attempts, p.state = "call", p.data = part.data,
              p.frame = part.frame, NEW q, SameInput(run, q), q.step \in {"check", "extract", "close"}
       PROVE  MediaInv(q, <<p>>)
  <2>1. <<p>> \in [{1} -> Part] /\ DOMAIN <<p>> = {1} /\ <<p>>[1] = p
    OBVIOUS
  <2>2. Parts(q) = {1} /\ q.type = "image" /\ q.step \notin Encoding
    BY <1>4, <1>13 DEF Parts, SameInput, Encoding
  <2>3. PartInv(1, p, q)
    BY <1>4, <1>5, <1>6, <1>10, <1>13, <2>2 DEF PartInv
  <2> QED BY <2>1, <2>2, <2>3 DEF MediaInv
<1>14. bucket' \subseteq Path /\ bucket \subseteq bucket'
  BY <1>4, <1>5, <1>9, <1>10
<1>15. Grown(faults, faults') /\ faults["llm"] \in Nat /\ faults'["llm"] \in Nat
  <2>1. Grown(faults, faults') /\ "llm" \in Fault
    BY <1>4, <1>9, BlameFacts DEF Fault
  <2> QED BY <1>4, <2>1 DEF Grown
<1>16. ~llm => faults'["llm"] = faults["llm"] + 1
  <2>1. ~llm => "llm" \in Failing("llm", llm) /\ "llm" \in Fault
    BY DEF Failing, Fault
  <2> QED BY <1>4, <1>9, <2>1, BlameFacts
<1>17. ASSUME Clean(faults')
       PROVE  /\ Sound(run, mp4, media, jobs, bucket, faults)
              /\ DataSound(part.data, bucket') /\ part.frame.held
              /\ part.tries <= faults["llm"]
              /\ ok \/ ~llm
  <2>1. /\ Sound(run, mp4, media, jobs, bucket, faults)
        /\ PartSound(1, media[1], run, jobs, bucket, faults)
    BY <1>3, <1>4, <1>15, <1>17, GrownFacts, NowSound DEF Sound
  <2>2. Given(given) /\ DataSound(given.data, bucket \cup Uploaded(given.data))
    BY <1>2, <1>3, <2>1, PreparedSound DEF given
  <2>3. Given(part)
    <3>1. ~Framed
      BY <1>3 DEF Framed
    <3> QED BY <1>10, <2>2, <3>1 DEF Given
  <2>4. part.frame.held
    <3>1. media[1].frame.held \/ ~media[1].frame.spent
      BY <1>4, <2>1 DEF PartSound
    <3>2. "get" \notin Unread(media[1].frame, get)
      BY <1>4, <1>9, <1>17, BlameFacts DEF NotRetriedKinds
    <3>3. CASE media[1].frame.held
      BY <1>6, <1>10, <3>3
    <3>4. CASE ~media[1].frame.held
      <4>1. media[1].frame.path = <<"stored", 0>>
        BY <1>4 DEF PartInv
      <4>2. Present(media[1].frame)
        BY <4>1 DEF Present
      <4>3. get
        BY <1>2, <3>2, <4>2 DEF Unread, Failing
      <4> QED BY <1>6, <1>10, <3>1, <4>3
    <3> QED BY <3>3, <3>4
  <2>5. ok \/ ~llm
    BY <2>1, <2>3, <2>4 DEF Sound, Compared, Readable
  <2> QED BY <1>3, <1>9, <1>10, <2>1, <2>2, <2>4, <2>5 DEF PartSound
<1> HIDE DEF ok
<1>18. CASE ok /\ Duplicate /\ media' = <<part>>
  <2>1. SameInput(run, run') /\ run'.step = "close"
    BY <1>4, <1>18, FailFacts
  <2>2. MediaInv(run', <<part>>) /\ DOMAIN <<part>> = {1}
    BY <1>10, <1>11, <1>13, <2>1
  <2> QED BY <1>3, <1>4, <1>14, <1>15, <1>18, <2>2, DuplicateKeeps
<1>19. CASE ~ok /\ state = "failed" /\ Fail /\ media' = <<part>>
  <2>1. SameInput(run, run') /\ run'.step = "close"
    BY <1>4, <1>19, FailFacts
  <2>2. MediaInv(run', <<part>>) /\ DOMAIN <<part>> = {1}
    BY <1>10, <1>11, <1>13, <2>1
  <2>3. Excused(run, mp4, faults')
    <3>1. CASE ~Clean(faults')
      BY <3>1 DEF Excused
    <3>2. CASE Clean(faults')
      <4>1. ~run.cancelled /\ ~llm /\ part.tries <= faults["llm"]
        BY <1>17, <1>19, <3>2 DEF Sound
      <4>2. part.tries + 1 >= Attempts
        BY <1>11, <1>19, <4>1, RetriedFacts
      <4>3. faults'["llm"] >= Attempts
        BY <1>11, <1>15, <1>16, <4>1, <4>2
      <4> QED BY <4>3 DEF Excused
    <3> QED BY <3>1, <3>2
  <2> QED BY <1>3, <1>4, <1>14, <1>15, <1>19, <2>2, <2>3, FailKeeps
<1>20. CASE ok /\ Advance("extract") /\ media' = <<[part EXCEPT !.tries = 0]>>
  <2> DEFINE p == [part EXCEPT !.tries = 0]
  <2>1. /\ p \in Part /\ p.tries = 0 /\ p.state = "call" /\ p.data = part.data
        /\ p.frame = part.frame
    <3>1. 0 \in 0 .. Attempts
      BY <1>11
    <3> QED BY <1>12, <3>1
  <2>2. media' = <<p>>
    BY <1>20
  <2> HIDE DEF p
  <2>3. "extract" \in Describing \cup {"size", "slice"}
    BY DEF Describing
  <2>4. /\ RunInv(run') /\ SameInput(run, run') /\ run'.step = "extract" /\ run'.tries = 0
        /\ run'.cancelled = run.cancelled /\ run'.outcome = "none"
    BY <1>4, <1>20, <2>3, AdvanceFacts
  <2>5. 0 < Attempts
    BY DEF ConstantsAreSound
  <2>6. MediaInv(run', media') /\ DOMAIN media' = {1} /\ media'[1] = p
    BY <1>13, <2>1, <2>2, <2>4, <2>5
  <2>7. OrderInv(run', media', embedded', results')
    <3>1. Enumerates(embedded, DOMAIN media) /\ results = <<>>
      BY <1>3 DEF ExtractInv, OrderInv, Describing
    <3>2. \A k \in Completed(media') : FALSE
      BY <2>1, <2>6 DEF Completed
    <3>3. Enumerates(<<>>, Completed(media'))
      BY <3>2, NothingCame
    <3> QED BY <1>3, <1>4, <2>4, <2>6, <3>1, <3>3 DEF OrderInv, Encoding
  <2>8. ASSUME Clean(faults')
        PROVE  /\ Mp4Sound(run', mp4', jobs', bucket') /\ run'.tries <= faults'["llm"]
               /\ \A i \in DOMAIN media' : PartSound(i, media'[i], run', jobs', bucket', faults')
    <3>1. /\ Sound(run, mp4, media, jobs, bucket, faults)
          /\ DataSound(part.data, bucket') /\ part.frame.held
      BY <1>17, <2>8
    <3>2. Mp4Sound(run', mp4', jobs', bucket')
      <4>1. Left({}, bucket, bucket')
        BY <1>14 DEF Left
      <4>2. run'.type # "video"
        BY <1>4, <2>4 DEF SameInput
      <4>3. /\ Mp4Sound(run, mp4, jobs, bucket)
            /\ mp4.inner.path \in {NoPath, <<"convert", 0>>}
            /\ mp4.outer.path \in {NoPath, <<"mp4", 0>>}
        BY <3>1 DEF ExtractInv, TypesInv, Sound
      <4>4. Mp4Sound(run, mp4, jobs, bucket')
        BY <1>4, <4>1, <4>3, Mp4Stays
      <4>5. Mp4Sound(run', mp4, jobs, bucket')
        BY <4>2, <4>4 DEF Mp4Sound
      <4> QED BY <1>3, <4>5
    <3>3. 0 <= faults'["llm"]
      BY <1>15
    <3>4. PartSound(1, p, run', jobs', bucket', faults')
      BY <1>4, <2>1, <2>4, <3>1, <3>3 DEF PartSound, SameInput
    <3> QED BY <2>4, <2>6, <3>2, <3>3, <3>4
  <2>9. run'.step \notin {"idle", "convert"}
    BY <2>4
  <2>10. /\ mp4' \in Data /\ mp4'.inner.path \in {NoPath, <<"convert", 0>>}
         /\ mp4'.outer.path \in {NoPath, <<"mp4", 0>>}
    BY <1>3 DEF ExtractInv, TypesInv
  <2> QED BY <1>3, <1>4, <1>14, <1>15, <2>4, <2>6, <2>7, <2>8, <2>9, <2>10, GoesOn
<1>21. CASE ~ok /\ state # "failed" /\ run' = run /\ media' = <<[part EXCEPT !.tries = @ + 1]>>
  <2> DEFINE p == [part EXCEPT !.tries = part.tries + 1]
  <2>1. part.tries + 1 < Attempts /\ part.tries + 1 \in 0 .. Attempts
    BY <1>11, <1>21, RetriedFacts
  <2>2. /\ p \in Part /\ p.tries = part.tries + 1 /\ p.state = "call" /\ p.data = part.data
        /\ p.frame = part.frame
    BY <1>12, <2>1
  <2>3. media' = <<p>>
    BY <1>21
  <2> HIDE DEF p
  <2>4. SameInput(run, run)
    BY DEF SameInput
  <2>5. MediaInv(run', media') /\ DOMAIN media' = {1} /\ media'[1] = p
    BY <1>3, <1>13, <1>21, <2>1, <2>2, <2>3, <2>4
  <2>6. OrderInv(run', media', embedded', results')
    <3>1. Enumerates(embedded, DOMAIN media) /\ results = <<>>
      BY <1>3 DEF ExtractInv, OrderInv, Describing
    <3> QED BY <1>3, <1>4, <1>21, <2>5, <3>1 DEF OrderInv, Encoding
  <2>7. ASSUME Clean(faults')
        PROVE  /\ Mp4Sound(run', mp4', jobs', bucket') /\ run'.tries <= faults'["llm"]
               /\ \A i \in DOMAIN media' : PartSound(i, media'[i], run', jobs', bucket', faults')
    <3>1. /\ Sound(run, mp4, media, jobs, bucket, faults)
          /\ DataSound(part.data, bucket') /\ part.frame.held
          /\ part.tries <= faults["llm"] /\ ~llm
      BY <1>17, <1>21, <2>7
    <3>2. Mp4Sound(run', mp4', jobs', bucket')
      <4>1. Left({}, bucket, bucket')
        BY <1>14 DEF Left
      <4>2. /\ Mp4Sound(run, mp4, jobs, bucket)
            /\ mp4.inner.path \in {NoPath, <<"convert", 0>>}
            /\ mp4.outer.path \in {NoPath, <<"mp4", 0>>}
        BY <3>1 DEF ExtractInv, TypesInv, Sound
      <4>3. Mp4Sound(run, mp4, jobs, bucket')
        BY <1>4, <4>1, <4>2, Mp4Stays
      <4> QED BY <1>3, <1>21, <4>3
    <3>3. part.tries + 1 <= faults'["llm"]
      BY <1>11, <1>15, <1>16, <3>1
    <3>4. PartSound(1, p, run', jobs', bucket', faults')
      BY <1>3, <1>4, <1>21, <2>2, <3>1, <3>3 DEF PartSound
    <3>5. run'.tries <= faults'["llm"]
      <4>1. run.tries \in Nat /\ run.tries <= faults["llm"]
        BY <1>4, <3>1 DEF Run, Sound
      <4> QED BY <1>15, <1>16, <1>21, <3>1, <4>1
    <3> QED BY <2>5, <3>2, <3>4, <3>5
  <2>8. run'.step \notin {"idle", "convert"} /\ RunInv(run') /\ SameInput(run, run')
        /\ run'.outcome = "none" /\ run'.cancelled = run.cancelled
    BY <1>3, <1>4, <1>21, <2>4
  <2>9. /\ mp4' \in Data /\ mp4'.inner.path \in {NoPath, <<"convert", 0>>}
        /\ mp4'.outer.path \in {NoPath, <<"mp4", 0>>}
    BY <1>3 DEF ExtractInv, TypesInv
  <2> QED BY <1>3, <1>4, <1>14, <1>15, <2>5, <2>6, <2>7, <2>8, <2>9, GoesOn
<1> QED BY <1>9, <1>18, <1>19, <1>20, <1>21

\* What the pipeline holds is released.
LEMMA ClosePipelineKeeps ==
  ASSUME ConstantsAreSound, ExtractInv, ClosePipeline
  PROVE  ExtractInv'
<1> DEFINE all == IF run.kept
                    THEN DeletesWrapped(mp4) \cup
                           UNION {DeletesWrapped(media[i].data) : i \in DOMAIN media}
                    ELSE {}
           Lefts == {{}} \cup IF Injected < ExtractFaults THEN {{p} : p \in all \cap bucket} ELSE {}
<1>1. PICK left \in Lefts :
        /\ run' = [run EXCEPT !.step = "done", !.left = left]
        /\ bucket' = bucket \ (all \ left)
        /\ Blame(Failing("delete", left = {}))
  BY DEF ClosePipeline
<1>2. /\ run.step = "close" /\ mp4' = CloseWrapped(mp4)
      /\ media' = [i \in DOMAIN media |-> [media[i] EXCEPT !.data = CloseWrapped(@)]]
      /\ embedded' = embedded /\ results' = results /\ jobs' = jobs
  BY DEF ClosePipeline
<1>3. /\ RunInv(run) /\ run \in Run /\ MediaInv(run, media) /\ JobsInv(run, media, jobs)
      /\ bucket \subseteq Path /\ faults \in [Fault -> Nat] /\ mp4 \in Data
      /\ mp4.inner.path \in {NoPath, <<"convert", 0>>} /\ mp4.outer.path \in {NoPath, <<"mp4", 0>>}
  BY DEF ExtractInv, TypesInv, RunInv
<1>4. left \subseteq Path /\ bucket' \subseteq Path
  <2> HIDE DEF all
  <2>1. \A l \in Lefts : l \subseteq bucket
    OBVIOUS
  <2>2. left \subseteq bucket
    BY <2>1
  <2> QED BY <1>1, <1>3, <2>2
<1>5. Grown(faults, faults')
  BY <1>1, <1>3, BlameFacts
<1>6. /\ run' \in Run /\ SameInput(run, run') /\ run'.step = "done" /\ run'.outcome = run.outcome
  <2>1. "done" \in Steps
    BY DEF Steps
  <2> QED BY <1>1, <1>3, <1>4, <2>1 DEF Run, SameInput
<1>7. RunInv(run') /\ ~Open(run')
  BY <1>2, <1>3, <1>6 DEF RunInv, Open
<1>8. /\ mp4' \in Data /\ mp4'.inner.path = mp4.inner.path /\ mp4'.outer.path = mp4.outer.path
  <2>1. <<"mp4", 0>> \in Path /\ TRUE \in BOOLEAN
    BY DEF Path
  <2> QED BY <1>2, <1>3, <2>1, DataFacts
<1>9. DOMAIN media' = DOMAIN media
  BY <1>2
<1>10. ASSUME NEW i \in DOMAIN media
       PROVE  media'[i] \in Part /\ PartInv(i, media'[i], run')
  <2> DEFINE d == CloseWrapped(media[i].data)
  <2>1. media[i] \in Part /\ media[i].data \in Data /\ PartInv(i, media[i], run)
    BY <1>3 DEF MediaInv, Part
  <2>2. /\ d \in Data /\ d.inner.path = media[i].data.inner.path
        /\ d.outer.path = media[i].data.outer.path
    <3>1. <<"mp4", 0>> \in Path /\ TRUE \in BOOLEAN
      BY DEF Path
    <3> QED BY <2>1, <3>1, DataFacts
  <2>3. media'[i] = [media[i] EXCEPT !.data = d]
    BY <1>2
  <2> HIDE DEF d
  <2>4. /\ media'[i] \in Part /\ media'[i].data = d /\ media'[i].frame = media[i].frame
        /\ media'[i].state = media[i].state /\ media'[i].tries = media[i].tries
        /\ media'[i].from = media[i].from /\ media'[i].to = media[i].to
        /\ media'[i].startTime = media[i].startTime /\ media'[i].endTime = media[i].endTime
    BY <2>1, <2>2, <2>3 DEF Part
  <2>5. media[i].state \notin {"todo", "frame"}
    BY <1>2, <2>1 DEF PartInv
  <2> QED BY <1>6, <2>1, <2>2, <2>4, <2>5 DEF PartInv, SameInput
<1>11. MediaInv(run', media')
  <2>1. Parts(run') = Parts(run) /\ run'.step \notin Describing /\ run'.step \notin Encoding
    BY <1>6 DEF Parts, SameInput, Describing, Encoding
  <2>2. CASE media = <<>>
    <3>1. DOMAIN <<>> = {}
      OBVIOUS
    <3>2. media' = <<>>
      BY <1>2, <2>2, <3>1
    <3> QED BY <1>9, <1>10, <2>1, <3>2 DEF MediaInv
  <2>3. CASE media \in [Parts(run) -> Part]
    <3>1. media' \in [Parts(run) -> Part]
      BY <1>2, <1>10, <2>3
    <3> QED BY <1>9, <1>10, <2>1, <3>1 DEF MediaInv
  <2> QED BY <1>3, <2>2, <2>3 DEF MediaInv
<1>12. TypesInv(run', mp4', media', jobs', bucket', faults')
  BY <1>2, <1>3, <1>4, <1>5, <1>6, <1>7, <1>8, <1>9, <1>11 DEF TypesInv, JobsInv, Grown
<1>13. OrderInv(run', media', embedded', results')
  <2>1. OrderInv(run, media, embedded, results)
    BY DEF ExtractInv
  <2>2. [i \in DOMAIN media |-> i] = [i \in DOMAIN media' |-> i]
    BY <1>9
  <2> QED BY <1>2, <1>6, <1>9, <2>1, <2>2 DEF OrderInv, Encoding, Describing
<1>14. run'.outcome = "failed" => Excused(run', mp4', faults')
  <2>1. SUFFICES ASSUME run'.outcome = "failed" PROVE Excused(run', mp4', faults')
    OBVIOUS
  <2>2. Excused(run, mp4, faults) /\ Attempts \in Nat
    BY <1>6, <2>1 DEF ExtractInv, ConstantsAreSound
  <2>3. Located(mp4'.outer) => Located(mp4.outer)
    BY <1>8 DEF Located
  <2> QED BY <1>5, <1>6, <2>2, <2>3, ExcusedStays
<1> QED BY <1>7, <1>12, <1>13, <1>14 DEF ExtractInv, SoundInv

-----------------------------------------------------------------------------
(* The theorems *)

\* Nothing has begun.
LEMMA InitHolds ==
  ASSUME ConstantsAreSound, ExtractInit
  PROVE  ExtractInv
<1>1. /\ run = [step |-> "idle", type |-> "image", embedder |-> "gemini", extractor |-> "gemini",
                duration |-> 0, cancelled |-> FALSE, kept |-> FALSE, tries |-> 0, outcome |-> "none", left |-> {}]
      /\ mp4 = WrappedLocal /\ media = <<>> /\ embedded = <<>> /\ results = <<>>
      /\ jobs = [j \in Job |-> "none"] /\ bucket = {} /\ faults = [k \in Fault |-> 0]
  BY DEF ExtractInit
<1>2. RunInv(run) /\ run.step = "idle" /\ ~run.cancelled /\ run.tries = 0 /\ run.outcome = "none"
  <2>1. 0 \in 0 .. Attempts - 1 /\ "idle" \in Steps
    BY DEF ConstantsAreSound, Steps
  <2>2. run \in Run
    BY <1>1, <2>1 DEF Run
  <2> QED BY <1>1, <2>2 DEF RunInv
<1>3. DOMAIN media = {}
  <2>1. DOMAIN <<>> = {}
    OBVIOUS
  <2> QED BY <1>1, <2>1
<1>4. MediaInv(run, media)
  BY <1>1, <1>2, <1>3 DEF MediaInv, Describing
<1>5. JobsInv(run, media, jobs)
  <2>1. <<"size", 0>> \in Job /\ \A i \in 1 .. MaxSlices : <<"frame", i>> \in Job
    BY DEF Job, MainJob
  <2> QED BY <1>1, <2>1 DEF JobsInv
<1>6. <<"convert", 0>> \in Path
  BY DEF Path
<1>7. TypesInv(run, mp4, media, jobs, bucket, faults)
  <2>1. /\ mp4 \in Data /\ mp4.inner.path = NoPath /\ mp4.outer.path = NoPath
    BY <1>1, <1>6, DataMade
  <2> QED BY <1>1, <1>2, <1>4, <1>5, <2>1 DEF TypesInv
<1>8. OrderInv(run, media, embedded, results)
  BY <1>1, <1>2 DEF OrderInv, Encoding, Describing
<1>9. Sound(run, mp4, media, jobs, bucket, faults)
  <2>1. /\ \A k \in MainJob : k \in Job
        /\ <<"size", 0>> \in MainJob /\ <<"slice", 0>> \in MainJob
    BY DEF Job, MainJob
  <2>2. JobsSound(run, jobs, bucket)
    BY <1>1, <2>1 DEF JobsSound
  <2>3. Mp4Sound(run, mp4, jobs, bucket)
    <3>1. DataSound(mp4, bucket) /\ ~mp4.outer.spent
      BY <1>1, <1>6, DataMade
    <3> QED BY <1>1, <1>2, <2>1, <3>1 DEF Mp4Sound, Describing
  <2>4. run.tries <= faults["llm"]
    BY <1>1, <1>2 DEF Fault
  <2> QED BY <1>2, <1>3, <2>2, <2>3, <2>4 DEF Sound
<1> QED BY <1>2, <1>7, <1>8, <1>9 DEF ExtractInv, SoundInv

\* Every step keeps the invariant.
LEMMA StepKeeps ==
  ASSUME ConstantsAreSound, SlicesAreBounded, ExtractInv, [ExtractNext]_extractVars
  PROVE  ExtractInv'
<1>1. ASSUME NEW type \in {"image", "video"}, NEW embedder \in Providers,
             NEW extractor \in Providers, NEW duration \in {0} \cup Durations,
             Begin(type, embedder, extractor, duration)
      PROVE  ExtractInv'
  BY <1>1, BeginKeeps
<1>2. ASSUME NEW j \in MainJob, SubmitMain(j) \/ PollMain(j) \/ TimeoutMain(j) PROVE ExtractInv'
  BY <1>2, SubmitMainKeeps, PollMainKeeps, TimeoutMainKeeps
<1>3. ASSUME NEW i \in DOMAIN media, SubmitFrame(i) \/ PollFrame(i) \/ Attempt(i) \/ GiveUp(i)
      PROVE  ExtractInv'
  BY <1>3, SubmitFrameKeeps, PollFrameKeeps, AttemptKeeps, GiveUpKeeps
<1>4. ASSUME EmbedDone \/ CheckDuplicateImage \/ CheckDuplicate \/ CheckDuplicateVideo
      PROVE  ExtractInv'
  BY <1>4, EmbedDoneKeeps, CheckDuplicateImageKeeps, CheckDuplicateKeeps, CheckDuplicateVideoKeeps
<1>5. ASSUME ExtractDone \/ CombineResults \/ ImageThumbnail \/ SaveMeme \/ ClosePipeline
      PROVE  ExtractInv'
  BY <1>5, ExtractDoneKeeps, CombineResultsKeeps, ImageThumbnailKeeps, SaveMemeKeeps,
     ClosePipelineKeeps
<1>6. ASSUME NEW j \in Job, JobEnds(j) \/ Expire(j) PROVE ExtractInv'
  BY <1>6, JobEndsKeeps, ExpireKeeps
<1>7. CASE Cancel
  BY <1>7, CancelKeeps
<1>8. CASE ExpireRest
  BY <1>8, ExpireRestKeeps
<1>9. CASE UNCHANGED extractVars
  BY <1>9 DEF ExtractInv, extractVars
<1> QED BY <1>1, <1>2, <1>3, <1>4, <1>5, <1>6, <1>7, <1>8, <1>9 DEF ExtractNext, ExtractStep

\* The invariant holds of every pipeline, whatever the video, the models and the retries.
THEOREM ExtractInvariant == ExtractSpec => []ExtractInv
<1>1. ExtractInit => ExtractInv
  BY InitHolds, Assumed
<1>2. ExtractInv /\ [ExtractNext]_extractVars => ExtractInv'
  BY StepKeeps, Assumed
<1> QED BY <1>1, <1>2, PTL DEF ExtractSpec

\* Every variable has its type, and no call is attempted too often.
THEOREM ExtractTypes == ExtractSpec => []ExtractTypeOK
<1>1. ExtractInv => ExtractTypeOK
  <2>1. SUFFICES ASSUME ExtractInv PROVE ExtractTypeOK
    OBVIOUS
  <2>2. \A i \in DOMAIN media : media[i] \in Part
    <3>1. media = <<>> \/ media \in [Parts(run) -> Part]
      BY <2>1 DEF ExtractInv, TypesInv, MediaInv
    <3> QED BY <3>1
  <2>3. /\ RunInv(run) /\ run \in Run /\ faults \in [Fault -> Nat]
        /\ jobs \in [Job -> {"none", "running", "done", "failed", "gone"}]
    BY <2>1 DEF ExtractInv, TypesInv, RunInv, JobsInv
  <2> QED BY <2>2, <2>3 DEF ExtractTypeOK, RunInv, Run, Part
<1> QED BY <1>1, ExtractInvariant, PTL

\* The slices cover the whole video, overlap, and are reported with the right times: so it is
\* for any length, interval and overlap, and not only for those the run tries.
THEOREM VideosAreCovered == ExtractSpec => []SlicesCoverVideo
<1>1. ExtractInv => SlicesCoverVideo
  <2>1. SUFFICES ASSUME ExtractInv, run.type = "video",
                        run.step \in {"embed", "duplicate", "extract", "combine", "save"}
                 PROVE  /\ \A t \in 0 .. run.duration - 1 :
                             \E i \in DOMAIN media : media[i].from <= t /\ t < media[i].to
                        /\ \A i \in DOMAIN media :
                             /\ media[i].startTime <= media[i].endTime
                             /\ media[i].startTime * Second <= media[i].from
                             /\ media[i].to < (media[i].endTime + 1) * Second
                        /\ \A i, k \in DOMAIN media : k = i + 1 =>
                             /\ media[i].from < media[k].from /\ media[k].from <= media[i].to
                             /\ media[k].startTime <= media[i].endTime
    BY DEF SlicesCoverVideo
  <2> DEFINE total == run.duration
  <2>2. run.step \in Describing /\ total \in {0} \cup Durations
    BY <2>1 DEF Describing, ExtractInv, TypesInv, RunInv, Run
  <2>3. total \in Nat
    BY <2>2, Lengths, Assumed
  <2>4. DOMAIN media = Slices(total) /\ \A i \in DOMAIN media : PartInv(i, media[i], run)
    BY <2>1, <2>2 DEF ExtractInv, TypesInv, MediaInv, Parts
  <2>5. \A i \in Slices(total) :
          /\ media[i].from = StartOf(i) /\ media[i].to = SliceEnd(StartOf(i), total)
          /\ media[i].startTime = StartOf(i) \div Second
          /\ media[i].endTime = SliceEnd(StartOf(i), total) \div Second
    BY <2>1, <2>4 DEF PartInv
  <2> HIDE DEF total
  <2>6. ASSUME NEW t \in 0 .. run.duration - 1
        PROVE  \E i \in DOMAIN media : media[i].from <= t /\ t < media[i].to
    BY <2>3, <2>4, <2>5, <2>6, SlicesCover, Assumed DEF total
  <2>7. ASSUME NEW i \in DOMAIN media
        PROVE  /\ media[i].startTime <= media[i].endTime
               /\ media[i].startTime * Second <= media[i].from
               /\ media[i].to < (media[i].endTime + 1) * Second
    <3> DEFINE a == StartOf(i)
               z == SliceEnd(StartOf(i), total)
    <3>1. a \in Nat /\ z \in Nat /\ a <= z
      BY <2>3, <2>4, SliceTimes, Assumed
    <3>2. /\ media[i].from = a /\ media[i].to = z
          /\ media[i].startTime = a \div Second /\ media[i].endTime = z \div Second
      BY <2>4, <2>5
    <3> HIDE DEF a, z
    <3> QED BY <3>1, <3>2, Seconds, Assumed
  <2>8. ASSUME NEW i \in DOMAIN media, NEW k \in DOMAIN media, k = i + 1
        PROVE  /\ media[i].from < media[k].from /\ media[k].from <= media[i].to
               /\ media[k].startTime <= media[i].endTime
    <3> DEFINE a == StartOf(i)
               b == StartOf(k)
               z == SliceEnd(StartOf(i), total)
    <3>1. a \in Nat /\ b \in Nat /\ z \in Nat /\ a < b /\ b <= z
      BY <2>3, <2>4, <2>8, SliceTimes, Assumed
    <3>2. /\ media[i].from = a /\ media[i].to = z /\ media[k].from = b
          /\ media[i].endTime = z \div Second /\ media[k].startTime = b \div Second
      BY <2>4, <2>5
    <3> HIDE DEF a, b, z
    <3> QED BY <3>1, <3>2, Seconds, Assumed
  <2> QED BY <2>6, <2>7, <2>8
<1> QED BY <1>1, ExtractInvariant, PTL

\* What is saved has one result and one embedding of each slice, however their calls
\* interleaved.
THEOREM ResultsAreComplete == ExtractSpec => []ResultsMatchSlices
<1>1. ExtractInv => ResultsMatchSlices
  <2>1. SUFFICES ASSUME ExtractInv, run.outcome = "saved"
                 PROVE  /\ results = [i \in DOMAIN media |-> i]
                        /\ Len(embedded) = Len(media) /\ Range(embedded) = DOMAIN media
    BY DEF ResultsMatchSlices
  <2>2. Enumerates(embedded, DOMAIN media) /\ results = [i \in DOMAIN media |-> i]
    BY <2>1 DEF ExtractInv, OrderInv
  <2>3. PICK n \in Nat : DOMAIN media = 1 .. n /\ Len(media) = n
    BY <2>1, PartsNumbered, Assumed
  <2>4. Len(embedded) = n /\ DOMAIN embedded = 1 .. n /\ embedded \in [1 .. n -> 1 .. n]
    BY <2>2, <2>3, EnumerationLength
  <2>5. \A i \in 1 .. n : \E k \in 1 .. n : embedded[k] = i
    BY <2>2, <2>3, <2>4 DEF Enumerates
  <2>6. Range(embedded) = 1 .. n
    BY <2>4, <2>5 DEF Range
  <2> QED BY <2>2, <2>3, <2>4, <2>6
<1> QED BY <1>1, ExtractInvariant, PTL

\* A meme is lost only to what is not retried, or to Attempts failed calls.
THEOREM TransientFailuresAreSurvived == ExtractSpec => []SurvivesTransientFailures
<1>1. ExtractInv => SurvivesTransientFailures
  <2>1. SUFFICES ASSUME ExtractInv, run.outcome = "failed" PROVE SurvivesTransientFailures
    BY DEF SurvivesTransientFailures
  <2>2. Excused(run, mp4, faults) /\ faults \in [Fault -> Nat]
    BY <2>1 DEF ExtractInv, TypesInv
  <2>3. ~Clean(faults) => \E k \in NotRetriedKinds : faults[k] > 0
    <3>1. NotRetriedKinds \subseteq Fault
      BY DEF NotRetriedKinds, Fault
    <3>2. \A k \in NotRetriedKinds : faults[k] \in Nat
      BY <2>2, <3>1
    <3> QED BY <3>2 DEF Clean
  <2> QED BY <2>2, <2>3 DEF Excused, SurvivesTransientFailures, NotRetriedKinds
<1> QED BY <1>1, ExtractInvariant, PTL

=============================================================================
