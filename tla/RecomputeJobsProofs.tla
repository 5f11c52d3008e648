-------------------------- MODULE RecomputeJobsProofs --------------------------
(****************************************************************************)
(* A recompute job visits each meme at most once, and all of them before it *)
(* says it is done, for any number of memes, any page size and any pool.    *)
(****************************************************************************)
EXTENDS RecomputeJobs, Integers, FiniteSetTheorems, WellFoundedInduction, TLAPS

\* A nonempty finite set of naturals has a least and a greatest member.
LEMMA Extremes ==
  ASSUME NEW S \in SUBSET Nat, IsFiniteSet(S), S # {}
  PROVE  /\ \E x \in S : \A y \in S : x <= y
         /\ \E x \in S : \A y \in S : y <= x
<1>0. \A k \in S : k \in Nat
  OBVIOUS
<1>1. IsWellFoundedOn(StrictSubsetOrdering(S), SUBSET S)
  BY FS_StrictSubsetOrderingWellFounded, FS_FiniteSubsetsOfFinite
<1>2. \E x \in S : \A y \in S : x <= y
  <2> DEFINE upto(x) == {k \in S : k <= x}
             T == {upto(x) : x \in S}
  <2>1. PICK t \in T : \A u \in T : ~(<<u, t>> \in StrictSubsetOrdering(S))
    <3>1. T \subseteq SUBSET S /\ T # {}
      OBVIOUS
    <3> QED BY <1>1, <3>1, WFMin
  <2>2. PICK x \in S : t = upto(x)
    OBVIOUS
  <2>3. ASSUME NEW y \in S, y < x PROVE FALSE
    <3>1. ASSUME NEW k \in upto(y) PROVE k \in upto(x)
      <4>1. k \in S /\ k <= y /\ k \in Nat /\ x \in Nat /\ y \in Nat
        BY <1>0
      <4> QED BY <2>3, <4>1
    <3>2. x \in upto(x) /\ x \notin upto(y)
      BY <1>0, <2>3
    <3>3. <<upto(y), upto(x)>> \in StrictSubsetOrdering(S)
      BY <3>1, <3>2 DEF StrictSubsetOrdering
    <3> QED BY <2>1, <2>2, <3>3
  <2> QED BY <1>0, <2>3
<1>3. \E x \in S : \A y \in S : y <= x
  <2> DEFINE from(x) == {k \in S : x <= k}
             T == {from(x) : x \in S}
  <2>1. PICK t \in T : \A u \in T : ~(<<u, t>> \in StrictSubsetOrdering(S))
    <3>1. T \subseteq SUBSET S /\ T # {}
      OBVIOUS
    <3> QED BY <1>1, <3>1, WFMin
  <2>2. PICK x \in S : t = from(x)
    OBVIOUS
  <2>3. ASSUME NEW y \in S, x < y PROVE FALSE
    <3>1. ASSUME NEW k \in from(y) PROVE k \in from(x)
      <4>1. k \in S /\ y <= k /\ k \in Nat /\ x \in Nat /\ y \in Nat
        BY <1>0
      <4> QED BY <2>3, <4>1
    <3>2. x \in from(x) /\ x \notin from(y)
      BY <1>0, <2>3
    <3>3. <<from(y), from(x)>> \in StrictSubsetOrdering(S)
      BY <3>1, <3>2 DEF StrictSubsetOrdering
    <3> QED BY <2>1, <2>2, <3>3
  <2> QED BY <1>0, <2>3
<1> QED BY <1>2, <1>3

\* Max and Min are what their names say.
LEMMA MaxMin ==
  ASSUME NEW S \in SUBSET Nat, IsFiniteSet(S), S # {}
  PROVE  /\ Max(S) \in S /\ \A y \in S : y <= Max(S)
         /\ Min(S) \in S /\ \A y \in S : Min(S) <= y
<1>1. Max(S) \in S /\ \A y \in S : Max(S) >= y
  <2>1. \E x \in S : \A y \in S : x >= y
    BY Extremes
  <2> QED BY <2>1 DEF Max
<1>2. Min(S) \in S /\ \A y \in S : Min(S) =< y
  BY Extremes DEF Min
<1> QED BY <1>1, <1>2

\* A page that is not full has all there is, and one that is has all up to its last.
LEMMA PageIsPrefix ==
  ASSUME NEW S \in SUBSET Nat, IsFiniteSet(S), NEW n \in Nat \ {0}
  PROVE  /\ FirstOf(S, n) \subseteq S
         /\ Cardinality(FirstOf(S, n)) # n => FirstOf(S, n) = S
         /\ \A x \in FirstOf(S, n), y \in S : y <= x => y \in FirstOf(S, n)
<1> DEFINE upto(m) == {k \in S : k <= m}
           P == FirstOf(S, n)
<1>0. P = {m \in S : Cardinality(upto(m)) <= n}
  BY DEF FirstOf
<1>1. \A m : IsFiniteSet(upto(m)) /\ Cardinality(upto(m)) \in Nat
  BY FS_Subset, FS_CardinalityType
<1>nat. \A k \in S : k \in Nat
  OBVIOUS
<1>2. P \subseteq S /\ IsFiniteSet(P) /\ Cardinality(P) \in Nat
  BY <1>0, FS_Subset, FS_CardinalityType
<1>3. ASSUME NEW x \in P, NEW y \in S, y <= x
      PROVE  y \in P
  <2>1. ASSUME NEW k \in upto(y) PROVE k \in upto(x)
    <3>1. k \in S /\ k <= y /\ k \in Nat /\ x \in Nat /\ y \in Nat
      BY <1>nat, <1>2
    <3> QED BY <1>3, <3>1
  <2>2. Cardinality(upto(y)) <= Cardinality(upto(x))
    <3>1. upto(y) \in SUBSET upto(x)
      BY <2>1
    <3> HIDE DEF upto
    <3> QED BY <1>1, <3>1, FS_Subset
  <2>3. Cardinality(upto(x)) <= n
    BY <1>0
  <2>4. Cardinality(upto(y)) <= n
    <3> HIDE DEF upto
    <3> QED BY <1>1, <2>2, <2>3
  <2> QED BY <1>0, <2>4
<1>4. ASSUME P # S
      PROVE  Cardinality(P) = n
  <2>1. IsFiniteSet(S \ P) /\ S \ P # {} /\ S \ P \in SUBSET Nat
    BY <1>2, <1>4, FS_Subset
  <2>2. PICK m \in S \ P : \A y \in S \ P : m <= y
    BY <2>1, Extremes
  <2>0. m \in S /\ m \notin P /\ m \in Nat
    BY <1>nat
  <2>3. ASSUME NEW x \in P PROVE x < m
    <3>1. x \in Nat /\ ~(m <= x)
      BY <1>nat, <1>2, <1>3, <2>0
    <3> QED BY <2>0, <3>1
  <2>4. \A y \in S : y < m => y \in P
    BY <1>nat, <2>2
  <2>5. \A k : k \in P <=> k \in upto(m) /\ k # m
    <3>1. ASSUME NEW k \in P PROVE k \in upto(m) /\ k # m
      <4>1. k \in S /\ k \in Nat /\ k < m
        BY <1>nat, <1>2, <2>3
      <4> QED BY <2>0, <4>1
    <3>2. ASSUME NEW k \in upto(m), k # m PROVE k \in P
      <4>1. k \in S /\ k \in Nat /\ k <= m
        BY <1>nat
      <4>2. k < m
        BY <2>0, <3>2, <4>1
      <4> QED BY <2>4, <4>1, <4>2
    <3> QED BY <3>1, <3>2
  <2>6. Cardinality(P) = Cardinality(upto(m)) - 1
    <3>1. m \in upto(m)
      BY <1>nat
    <3>2. P = upto(m) \ {m}
      BY <2>5
    <3> HIDE DEF upto, P
    <3> QED BY <1>1, <3>1, <3>2, FS_RemoveElement
  <2>7. Cardinality(upto(m)) > n
    BY <1>0, <1>1, <2>2
  <2>8. P # {}
    <3> HIDE DEF upto, P
    <3> QED BY <1>1, <2>6, <2>7, FS_EmptySet
  <2>9. PICK x \in P : \A y \in P : y <= x
    BY <1>2, <2>8, Extremes
  <2>10. P \in SUBSET upto(x) /\ Cardinality(upto(x)) <= n
    BY <1>0, <1>2, <2>9
  <2>11. Cardinality(P) <= n
    <3> HIDE DEF upto, P
    <3>1. Cardinality(P) <= Cardinality(upto(x))
      BY <1>1, <2>10, FS_Subset
    <3> QED BY <1>1, <1>2, <2>10, <3>1
  <2> HIDE DEF upto, P
  <2> QED BY <1>1, <1>2, <2>6, <2>7, <2>11
<1> QED BY <1>2, <1>3, <1>4

-----------------------------------------------------------------------------
(* The inductive invariant: what is behind the cursor is on the page or     *)
(* handed out, nothing before it is, and nothing is handed out twice.       *)

Handed(m) == processed[m] > 0 \/ m \in wg

\* Nothing happens before the job runs.
Fresh == \A m \in Memes : ~Handed(m)

\* Each meme is counted once, by a worker that has just one such meme, and a meme on the
\* page is not handed out yet.
CountedOnce == \A m \in Memes : /\ processed[m] <= 1
                                /\ m \in page => ~Handed(m)
                                /\ m \in wg \ sem => processed[m] = 1

\* The cursor is behind what was fetched, ...
CursorInv == \A m \in Memes : m \in page \/ Handed(m) => m <= cursor

\* ... and a meme that was there all the while is not left out.
CoverInv == \A m \in steady : m <= cursor \/ ~more => m \in page \/ Handed(m)

DoneInv == state = "done" => wg = {} /\ page = {} /\ ~more

RecomputeInv == /\ TypeOK /\ (state \in {"none", "pending"} => Fresh /\ page = {} /\ cursor = 0 /\ more)
                /\ CountedOnce /\ CursorInv /\ CoverInv /\ DoneInv

\* The invariant says what the properties say.
LEMMA InvImplies == RecomputeInv => AtMostOnce /\ DoneMeansAll
<1> SUFFICES ASSUME RecomputeInv PROVE AtMostOnce /\ DoneMeansAll
  OBVIOUS
<1>1. AtMostOnce
  BY DEF RecomputeInv, CountedOnce, AtMostOnce, Handed, TypeOK
<1>2. DoneMeansAll
  <2>1. \A m \in steady : m \in Memes
    BY DEF RecomputeInv, TypeOK
  <2> QED BY <2>1 DEF RecomputeInv, CountedOnce, CoverInv, DoneInv, Handed, DoneMeansAll, TypeOK
<1> QED BY <1>1, <1>2

\* Before the job nothing is fetched or handed out.
LEMMA InitInv == Init => RecomputeInv
<1> SUFFICES ASSUME Init PROVE RecomputeInv
  OBVIOUS
<1>1. Cardinality({}) = 0
  BY FS_EmptySet
<1>2. TypeOK
  BY <1>1, ConstantsAssumption DEF Init, TypeOK, State
<1>3. \A m \in steady : m \in Nat \ {0}
  BY ConstantsAssumption DEF Init
<1>4. CoverInv
  BY <1>3 DEF Init, CoverInv
<1> QED BY <1>2, <1>4 DEF Init, RecomputeInv, Fresh, Handed, CountedOnce, CursorInv, DoneInv

\* A page has the next memes, and if it is not full, all of them.
LEMMA FetchKeeps ==
  ASSUME RecomputeInv, FetchPage
  PROVE  RecomputeInv'
<1> DEFINE S == {m \in live : m > cursor}
<1>1. /\ S \in SUBSET Nat /\ IsFiniteSet(S) /\ PageSize \in Nat \ {0} /\ Memes \subseteq Nat \ {0}
      /\ cursor \in Nat
  <2>1. /\ PageSize \in Nat \ {0} /\ Memes \subseteq Nat \ {0} /\ IsFiniteSet(Memes)
        /\ live \subseteq Memes /\ cursor \in Memes \cup {0}
    BY ConstantsAssumption DEF RecomputeInv, TypeOK
  <2>2. S \in SUBSET Memes /\ Memes \in SUBSET Nat
    BY <2>1
  <2>3. IsFiniteSet(S)
    BY <2>1, <2>2, FS_Subset
  <2>4. S \in SUBSET Nat /\ cursor \in Nat
    <3> HIDE DEF S
    <3> QED BY <2>1, <2>2
  <2> HIDE DEF S
  <2> QED BY <2>1, <2>3, <2>4
<1>2. /\ page' = FirstOf(S, PageSize)
      /\ more' = (Cardinality(page') = PageSize)
      /\ cursor' = IF page' = {} THEN cursor ELSE Max(page')
      /\ UNCHANGED <<live, state, processed, errors, sem, wg, steady>>
      /\ page = {} /\ state = "running"
  BY DEF FetchPage, QueryByRaw, Reading
<1>3. /\ page' \subseteq S
      /\ ~more' => page' = S
      /\ \A x \in page', y \in S : y <= x => y \in page'
  BY <1>1, <1>2, PageIsPrefix
<1>4. page' \in SUBSET Nat /\ IsFiniteSet(page')
  BY <1>1, <1>3, FS_Subset
<1>5. /\ cursor' \in Memes \cup {0} /\ cursor <= cursor'
      /\ \A m \in page' : m <= cursor'
      /\ page' = {} => cursor' = cursor
      /\ page' # {} => cursor' \in page'
  BY <1>1, <1>2, <1>3, <1>4, MaxMin DEF RecomputeInv, TypeOK
<1>6. cursor' \in Nat
  BY <1>1, <1>5
<1>7. TypeOK'
  BY <1>2, <1>3, <1>5 DEF RecomputeInv, TypeOK
<1>8. \A m \in Memes : Handed(m)' <=> Handed(m)
  BY <1>2 DEF Handed
<1>9. CountedOnce'
  BY <1>1, <1>2, <1>3, <1>8 DEF RecomputeInv, CountedOnce, CursorInv
<1>10. CursorInv'
  BY <1>1, <1>5, <1>6, <1>8 DEF RecomputeInv, CursorInv
<1>11. CoverInv'
  <2> SUFFICES ASSUME NEW m \in steady, m <= cursor' \/ ~more'
               PROVE  m \in page' \/ Handed(m)'
    BY <1>2 DEF CoverInv
  <2>1. m \in live /\ m \in Memes /\ m \in Nat
    BY <1>1 DEF RecomputeInv, TypeOK
  <2>2. CASE m <= cursor
    BY <1>2, <1>8, <2>1, <2>2 DEF RecomputeInv, CoverInv
  <2>3. CASE m > cursor
    BY <1>1, <1>3, <1>5, <1>6, <2>1, <2>3
  <2> QED BY <1>1, <2>1, <2>2, <2>3
<1> QED BY <1>2, <1>7, <1>9, <1>10, <1>11 DEF RecomputeInv, DoneInv

\* A meme goes from the page to a worker.
LEMMA DispatchKeeps ==
  ASSUME RecomputeInv, Dispatch
  PROVE  RecomputeInv'
<1> DEFINE m == Min(page)
<1>1. /\ page \in SUBSET Nat /\ IsFiniteSet(page) /\ page # {} /\ page \subseteq Memes
  BY ConstantsAssumption, FS_Subset DEF RecomputeInv, TypeOK, Dispatch
<1>2. m \in page /\ m \in Memes
  BY <1>1, MaxMin
<1>3. /\ page' = page \ {m} /\ sem' = sem \cup {m} /\ wg' = wg \cup {m}
      /\ Cardinality(sem) < Workers /\ state = "running"
      /\ UNCHANGED <<live, state, processed, errors, cursor, more, steady>>
  BY DEF Dispatch
<1> HIDE DEF m
<1>4. IsFiniteSet(sem) /\ Cardinality(sem) \in Nat /\ Workers \in Nat
  BY ConstantsAssumption, FS_Subset, FS_CardinalityType DEF RecomputeInv, TypeOK
<1>5. Cardinality(sem') <= Workers
  BY <1>3, <1>4, FS_AddElement
<1>6. TypeOK'
  BY <1>2, <1>3, <1>5 DEF RecomputeInv, TypeOK
<1>7. \A k \in Memes : Handed(k)' <=> Handed(k) \/ k = m
  BY <1>2, <1>3 DEF Handed
<1>8. CountedOnce'
  BY <1>2, <1>3, <1>7 DEF RecomputeInv, CountedOnce, Handed
<1>9. CursorInv'
  BY <1>2, <1>3, <1>7 DEF RecomputeInv, CursorInv
<1>10. CoverInv'
  BY <1>2, <1>3, <1>7 DEF RecomputeInv, CoverInv, TypeOK
<1> QED BY <1>3, <1>6, <1>8, <1>9, <1>10 DEF RecomputeInv, DoneInv

\* The other steps of the job's goroutine.
LEMMA JobKeeps ==
  ASSUME RecomputeInv, StartRecompute \/ Job
  PROVE  RecomputeInv'
<1> USE DEF RecomputeInv
<1>1. CASE StartRecompute
  <2>1. \A m \in live : m \in Nat \ {0}
    BY ConstantsAssumption DEF TypeOK
  <2>2. CoverInv'
    BY <1>1, <2>1 DEF StartRecompute, CoverInv, paging
  <2> QED BY <1>1, <2>2 DEF StartRecompute, paging, TypeOK, State, Fresh, Handed, CountedOnce,
                            CursorInv, DoneInv
<1>2. CASE RunJob \/ FetchFails
  BY <1>2 DEF RunJob, FetchFails, Reading, paging, TypeOK, State, Fresh, Handed, CountedOnce,
              CursorInv, CoverInv, DoneInv
<1>3. CASE JobDone
  BY <1>3 DEF JobDone, Drained, paging, TypeOK, State, Fresh, Handed, CountedOnce, CursorInv,
              CoverInv, DoneInv
<1> QED BY <1>1, <1>2, <1>3, FetchKeeps, DispatchKeeps DEF Job

\* A worker counts its meme once and leaves.
LEMMA WorkKeeps ==
  ASSUME RecomputeInv, NEW m \in Memes, Work(m)
  PROVE  RecomputeInv'
<1> USE DEF RecomputeInv
<1>1. CASE RecordError(m)
  BY <1>1 DEF RecordError, paging, TypeOK, Fresh, Handed, CountedOnce, CursorInv, CoverInv, DoneInv
<1>2. CASE RecordProcessed(m)
  <2>1. /\ m \in sem /\ m \in wg /\ processed[m] = 0 /\ live \subseteq live' /\ live' \subseteq Memes
        /\ processed' = [processed EXCEPT ![m] = @ + 1]
        /\ UNCHANGED <<state, errors, cursor, page, more, sem, wg, steady>>
    BY <1>2 DEF RecordProcessed, Busy, paging, TypeOK
  <2>2. processed' \in [Memes -> Nat] /\ \A k \in Memes :
          processed'[k] = IF k = m THEN 1 ELSE processed[k]
    BY <2>1 DEF TypeOK
  <2>3. TypeOK'
    BY <2>1, <2>2 DEF TypeOK
  <2>4. \A k \in Memes : Handed(k)' <=> Handed(k)
    BY <2>1, <2>2 DEF Handed
  <2>5. CountedOnce' /\ CursorInv' /\ CoverInv'
    BY <2>1, <2>2, <2>4 DEF CountedOnce, CursorInv, CoverInv, TypeOK
  <2> QED BY <2>1, <2>3, <2>4, <2>5 DEF DoneInv, Fresh, Handed
<1>3. CASE ReleaseSlot(m)
  <2>1. /\ m \in sem /\ processed[m] > 0 /\ sem' = sem \ {m}
        /\ UNCHANGED <<live, state, processed, errors, cursor, page, more, wg, steady>>
    BY <1>3 DEF ReleaseSlot, paging
  <2>2. IsFiniteSet(sem) /\ Cardinality(sem) \in Nat
    BY ConstantsAssumption, FS_Subset, FS_CardinalityType DEF TypeOK
  <2>3. Cardinality(sem') <= Workers
    <3>1. Cardinality(sem) <= Workers /\ Workers \in Nat
      BY ConstantsAssumption DEF TypeOK
    <3>2. Cardinality(sem') = Cardinality(sem) - 1
      BY <2>1, <2>2, FS_RemoveElement
    <3> QED BY <2>2, <3>1, <3>2
  <2>4. TypeOK'
    BY <2>1, <2>3 DEF TypeOK
  <2>5. processed[m] = 1
    BY <2>1 DEF CountedOnce, TypeOK
  <2> QED BY <2>1, <2>4, <2>5 DEF CountedOnce, CursorInv, CoverInv, DoneInv, Fresh, Handed
<1>4. CASE WorkerDone(m)
  <2>1. /\ m \in wg \ sem /\ wg' = wg \ {m}
        /\ UNCHANGED <<live, state, processed, errors, cursor, page, more, sem, steady>>
    BY <1>4 DEF WorkerDone, paging
  <2>2. processed[m] = 1
    BY <2>1 DEF CountedOnce
  <2>3. \A k \in Memes : Handed(k)' <=> Handed(k)
    BY <2>1, <2>2 DEF Handed
  <2>4. TypeOK'
    BY <2>1 DEF TypeOK
  <2>5. CountedOnce' /\ CursorInv' /\ CoverInv'
    BY <2>1, <2>3 DEF CountedOnce, CursorInv, CoverInv, TypeOK
  <2> QED BY <2>1, <2>3, <2>4, <2>5 DEF DoneInv, Fresh
<1> QED BY <1>1, <1>2, <1>3, <1>4 DEF Work

\* Uploads and deletions only change what was not there all the while.
LEMMA OthersKeep ==
  ASSUME RecomputeInv, NEW m \in Memes, Upload(m) \/ Delete(m)
  PROVE  RecomputeInv'
BY DEF RecomputeInv, Upload, Delete, paging, TypeOK, Fresh, Handed, CountedOnce, CursorInv,
       CoverInv, DoneInv

\* Every step keeps the invariant.
LEMMA NextInv == RecomputeInv /\ [Next]_vars => RecomputeInv'
<1> SUFFICES ASSUME RecomputeInv, [Next]_vars PROVE RecomputeInv'
  OBVIOUS
<1>1. CASE UNCHANGED vars
  BY <1>1 DEF vars, paging, RecomputeInv, TypeOK, Fresh, Handed, CountedOnce, CursorInv, CoverInv,
              DoneInv
<1> QED BY <1>1, JobKeeps, WorkKeeps, OthersKeep DEF Next, Rest

\* In every reachable state of a recompute job every variable has its type, and no more
\* workers than the pool has slots are at work.
THEOREM RecomputeTypeCorrect == Spec => []TypeOK
<1>1. RecomputeInv => TypeOK
  BY DEF RecomputeInv
<1> QED BY <1>1, InitInv, NextInv, PTL DEF Spec

\* However memes come and go between the pages, a job recomputes no meme twice.
THEOREM RecomputedAtMostOnce == Spec => []AtMostOnce
BY InitInv, NextInv, InvImplies, PTL DEF Spec

\* A job that says it is done has handled every meme that was there all the while, and
\* has no worker left.
THEOREM DoneHasAll == Spec => []DoneMeansAll
BY InitInv, NextInv, InvImplies, PTL DEF Spec
=============================================================================
