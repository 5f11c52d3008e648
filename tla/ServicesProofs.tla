----------------------------- MODULE ServicesProofs -----------------------------
(****************************************************************************)
(* Every machine of MCServices runs as its own specification says, and all  *)
(* they keep is kept.  Of two of them it is proved here what they keep: no  *)
(* migration loses an embedding, for any documents, replicas and crashes;   *)
(* the page of the web frontend shows what its query finds, for any memes,  *)
(* queries, page size, requests and orders of their answers.                *)
(****************************************************************************)
EXTENDS MCServices, TelegramBotProofs, VideoExtractProofs, FiniteSetTheorems, TLAPS

-----------------------------------------------------------------------------
(* The index migrations *)

\* The scripts keep a document's embedding, and what earlier migrations made of it.
LEMMA ScriptKeeps ==
  ASSUME NEW m \in 1 .. Last, NEW doc \in Doc, NEW n \in 0 .. Last,
         Lossless(doc), Reached(m - 1, doc)
  PROVE  /\ Script(m, doc) \in Doc
         /\ Lossless(Script(m, doc))
         /\ Reached(m, Script(m, doc))
         /\ Reached(n, doc) => Reached(n, Script(m, doc))
<1> DEFINE new == Script(m, doc)
<1>1. m \in {1, 2, 3, 4, 5} /\ n \in 0 .. 5
  BY DEF Last
<1>2. CASE m \in {1, 3}
  <2>1. new = doc
    BY <1>2 DEF Script
  <2> QED BY <1>2, <2>1 DEF Reached
<1>3. CASE m = 2
  <2>1. new = [doc EXCEPT !.images = IF @ = 0 THEN 1 ELSE @]
    BY <1>3 DEF Script
  <2>2. new \in Doc /\ new.images = 1 /\ new.v1 = doc.v1 /\ new.typed = doc.typed
    BY <2>1 DEF Doc, Lossless
  <2> QED BY <1>1, <1>3, <2>2 DEF Reached, Lossless
<1>4. CASE m = 4
  <2>1. new = [doc EXCEPT !.v1 = FALSE]
    BY <1>4 DEF Script
  <2>2. new \in Doc /\ new.images = doc.images /\ ~new.v1 /\ new.typed = doc.typed
    BY <2>1 DEF Doc
  <2>3. doc.images = 1
    BY <1>4 DEF Reached
  <2> QED BY <1>1, <1>4, <2>2, <2>3 DEF Reached, Lossless
<1>5. CASE m = 5
  <2>1. new = [doc EXCEPT !.typed = TRUE]
    BY <1>5 DEF Script
  <2>2. new \in Doc /\ new.images = doc.images /\ new.v1 = doc.v1 /\ new.typed
    BY <2>1 DEF Doc
  <2>3. doc.images = 1 /\ ~doc.v1
    BY <1>5 DEF Reached
  <2> QED BY <1>1, <1>5, <2>2, <2>3 DEF Reached, Lossless
<1> QED BY <1>1, <1>2, <1>3, <1>4, <1>5

\* A document the query of a migration leaves out needs nothing of it.
LEMMA LeftOutIsDone ==
  ASSUME NEW m \in 1 .. Last, NEW doc \in Doc, Lossless(doc), Reached(m - 1, doc),
         ~Matches(m, doc)
  PROVE  Reached(m, doc)
<1>1. m \in {1, 2, 3, 4, 5}
  BY DEF Last
<1>2. m = 2 => doc.images = 1
  BY DEF Matches, Lossless
<1>3. m = 4 => ~doc.v1
  BY DEF Matches
<1>4. m = 5 => doc.typed
  BY DEF Matches
<1> QED BY <1>1, <1>2, <1>3, <1>4 DEF Reached

\* What a serving replica saves needs no migration.
LEMMA SavedIsDone ==
  ASSUME NEW n \in 0 .. Last
  PROVE  Saved \in Doc /\ Lossless(Saved) /\ Reached(n, Saved)
  BY DEF Saved, Doc, Lossless, Reached

\* The index starts with nothing recorded and nothing running.
LEMMA InitInv == MigratorInit => MigratorInv
<1> SUFFICES ASSUME MigratorInit PROVE MigratorInv
  OBVIOUS
<1>1. content \in [Docs -> Doc] /\ \A d \in Docs : Lossless(content[d])
  BY MigratorAssumption DEF MigratorInit
<1>2. AllReached(0)
  BY DEF AllReached, Reached
<1>3. MigratorTypeOK
  BY <1>1, MigratorAssumption DEF MigratorInit, MigratorTypeOK, Last, MigratorSteps, TaskState
<1> QED
  BY <1>1, <1>2, <1>3 DEF MigratorInit, MigratorInv, ReplicaInv, TaskInv, At

\* A change of the documents that undoes no migration leaves the invariant of what has
\* not changed.
LEMMA GrowKeeps ==
  ASSUME MigratorInv, NEW r \in Replicas,
         \A d \in Docs, n \in 0 .. Last : Reached(n, content[d]) => Reached(n, content'[d])
  PROVE  /\ UNCHANGED history => AllReached(history)'
         /\ replica'[r] = replica[r] /\ task'[r].m = task[r].m /\ task'[r].state = task[r].state
              => ReplicaInv(r)'
         /\ task'[r].m = task[r].m /\ task'[r].todo = task[r].todo /\ task'[r].state = task[r].state
              => TaskInv(r)'
<1> DEFINE Later(n) == \A d \in Docs : Reached(n, content'[d])
<1>1. /\ history \in 0 .. Last /\ replica[r].next \in 0 .. Last + 1
      /\ task[r].m \in 0 .. Last
  BY DEF MigratorInv, MigratorTypeOK
<1>2. \A n \in 0 .. Last : AllReached(n) => Later(n)
  BY DEF AllReached
<1>3. ReplicaInv(r) /\ TaskInv(r) /\ AllReached(history)
  BY DEF MigratorInv
<1>4. UNCHANGED history => AllReached(history)'
  BY <1>1, <1>2, <1>3 DEF AllReached
<1>5. ASSUME replica'[r] = replica[r], task'[r].m = task[r].m, task'[r].state = task[r].state
      PROVE  ReplicaInv(r)'
  <2>1. replica[r].next > 0 => Later(replica[r].next - 1)
    <3>1. replica[r].next > 0 => replica[r].next - 1 \in 0 .. Last
      BY <1>1 DEF Last
    <3> QED BY <1>2, <1>3, <3>1 DEF ReplicaInv
  <2>2. replica[r].step = "save" => Later(replica[r].next)
    <3>1. replica[r].step = "save" => replica[r].next \in 0 .. Last
      BY <1>3 DEF ReplicaInv, Last
    <3> QED BY <1>2, <1>3, <3>1 DEF ReplicaInv, At
  <2> QED BY <1>3, <1>5, <2>1, <2>2 DEF ReplicaInv, At, AllReached
<1>6. ASSUME task'[r].m = task[r].m, task'[r].todo = task[r].todo, task'[r].state = task[r].state
      PROVE  TaskInv(r)'
  <2>1. task[r].state # "none" => task[r].m \in 0 .. Last /\ task[r].m - 1 \in 0 .. Last
    BY <1>3 DEF TaskInv, Last
  <2>2. task[r].state = "running" =>
          /\ Later(task[r].m - 1)
          /\ \A d \in Docs \ task[r].todo : Reached(task[r].m, content'[d])
    BY <1>2, <1>3, <2>1 DEF TaskInv
  <2>3. task[r].state = "ok" => Later(task[r].m)
    BY <1>2, <1>3, <2>1 DEF TaskInv
  <2> QED BY <1>3, <1>6, <2>1, <2>2, <2>3 DEF TaskInv, AllReached
<1> QED BY <1>4, <1>5, <1>6

\* Steps of Migrate that change neither documents nor requests.
LEMMA ReplicaStep ==
  ASSUME MigratorInv, NEW r \in Replicas,
         \/ Start(r) \/ EnsureHistoryIndex(r) \/ CreateHistoryIndex(r) \/ GetLastMigration(r)
         \/ Answer(r) \/ SaveLastMigration(r) \/ Crash(r)
  PROVE  MigratorInv'
<1>1. MigratorTypeOK /\ ReplicaInv(r) /\ TaskInv(r) /\ AllReached(history)
  BY DEF MigratorInv
<1>2. UNCHANGED <<content, task>>
  BY DEF Start, EnsureHistoryIndex, CreateHistoryIndex, GetLastMigration, Answer,
         SaveLastMigration, Crash
<1>3. /\ replica[r] \in [step : MigratorSteps, next : 0 .. Last + 1] /\ history \in 0 .. Last
      /\ task[r].state \in TaskState
  BY <1>1 DEF MigratorTypeOK
<1>4. \A d \in Docs : Lossless(content'[d])
  BY <1>2 DEF MigratorInv
<1>5. ASSUME NEW new, new \in [step : MigratorSteps, next : 0 .. Last + 1],
             replica' = [replica EXCEPT ![r] = new],
             historyIndex' \in BOOLEAN, history' \in 0 .. Last, crashes' \in 0 .. MaxCrashes,
             AllReached(history'),
             new.next > 0 => AllReached(new.next - 1),
             new.step = "serving" => new.next = Last + 1,
             new.step \in {"request", "wait", "save"} => new.next \in 1 .. Last,
             new.step = "wait" => task[r].m = new.next /\ task[r].state # "none",
             new.step = "save" => AllReached(new.next)
      PROVE  MigratorInv'
  <2>1. MigratorTypeOK'
    BY <1>1, <1>2, <1>5 DEF MigratorTypeOK
  <2>2. AllReached(history)'
    BY <1>2, <1>5 DEF AllReached
  <2>3. replica'[r] = new
    BY <1>1, <1>5 DEF MigratorTypeOK
  <2>4. ReplicaInv(r)'
    BY <1>2, <1>5, <2>3 DEF ReplicaInv, At, AllReached
  <2>5. ASSUME NEW s \in Replicas \ {r} PROVE ReplicaInv(s)'
    <3>1. replica'[s] = replica[s] /\ ReplicaInv(s)
      BY <1>1, <1>5 DEF MigratorTypeOK, MigratorInv
    <3> QED BY <1>2, <3>1 DEF ReplicaInv, At, AllReached
  <2>6. \A s \in Replicas : TaskInv(s)'
    BY <1>2 DEF MigratorInv, TaskInv, AllReached
  <2> QED BY <1>4, <2>1, <2>2, <2>4, <2>5, <2>6 DEF MigratorInv
<1>6. /\ crashes \in 0 .. MaxCrashes /\ historyIndex \in BOOLEAN /\ MaxCrashes \in Nat
      /\ replica[r].next > 0 => AllReached(replica[r].next - 1)
  BY <1>1, MigratorAssumption DEF MigratorTypeOK, ReplicaInv
<1>7. CASE Start(r) \/ EnsureHistoryIndex(r) \/ CreateHistoryIndex(r) \/ Crash(r)
  <2>1. PICK step \in {"ensure", "read", "create", "down"} :
          replica' = [replica EXCEPT ![r].step = step]
    BY <1>7 DEF Start, EnsureHistoryIndex, CreateHistoryIndex, Crash, Go
  <2> DEFINE new == [replica[r] EXCEPT !.step = step]
  <2>2. replica' = [replica EXCEPT ![r] = new]
    BY <2>1
  <2>3. new \in [step : MigratorSteps, next : 0 .. Last + 1] /\ new.step = step /\ new.next = replica[r].next
    BY <1>3 DEF MigratorSteps
  <2>4. history' = history /\ historyIndex' \in BOOLEAN /\ crashes' \in 0 .. MaxCrashes
    <3>1. CASE Start(r) \/ EnsureHistoryIndex(r)
      BY <1>6, <3>1 DEF Start, EnsureHistoryIndex
    <3>2. CASE CreateHistoryIndex(r)
      BY <1>6, <3>2 DEF CreateHistoryIndex
    <3>3. CASE Crash(r)
      BY <1>6, <3>3 DEF Crash
    <3> QED BY <1>7, <3>1, <3>2, <3>3
  <2> HIDE DEF new
  <2> QED BY <1>1, <1>3, <1>5, <1>6, <2>2, <2>3, <2>4
<1>8. CASE GetLastMigration(r)
  <2> DEFINE new == [step |-> After(history), next |-> history + 1]
  <2>1. replica' = [replica EXCEPT ![r] = new]
        /\ history' = history /\ historyIndex' = historyIndex /\ crashes' = crashes
    BY <1>8 DEF GetLastMigration
  <2>2. new \in [step : MigratorSteps, next : 0 .. Last + 1]
    BY <1>3 DEF MigratorSteps, After, Last
  <2>3. /\ new.next - 1 = history
        /\ new.step = "serving" => new.next = Last + 1
        /\ new.step = "request" => new.next \in 1 .. Last
        /\ new.step \notin {"wait", "save"}
    BY <1>3 DEF After, Last
  <2> HIDE DEF new
  <2> QED BY <1>1, <1>3, <1>5, <1>6, <2>1, <2>2, <2>3
<1>9. CASE Answer(r)
  <2> DEFINE new == [replica[r] EXCEPT !.step = IF task[r].state = "ok" THEN "save" ELSE "down"]
  <2>1. /\ replica' = [replica EXCEPT ![r] = new] /\ At(r, "wait")
        /\ history' = history /\ historyIndex' = historyIndex /\ crashes' = crashes
    BY <1>9 DEF Answer, Go
  <2>2. new \in [step : MigratorSteps, next : 0 .. Last + 1] /\ new.next = replica[r].next
        /\ new.step = IF task[r].state = "ok" THEN "save" ELSE "down"
    BY <1>3 DEF MigratorSteps
  <2>3. replica[r].next \in 1 .. Last /\ (new.step = "save" => AllReached(replica[r].next))
    BY <1>1, <2>1, <2>2 DEF ReplicaInv, TaskInv, At
  <2> HIDE DEF new
  <2> QED BY <1>1, <1>3, <1>5, <1>6, <2>1, <2>2, <2>3
<1>10. CASE SaveLastMigration(r)
  <2>1. replica[r].next \in 1 .. Last /\ AllReached(replica[r].next)
    BY <1>1, <1>10 DEF SaveLastMigration, ReplicaInv, At
  <2> DEFINE new == [step |-> After(replica[r].next), next |-> replica[r].next + 1]
  <2>2. replica' = [replica EXCEPT ![r] = new]
    BY <1>10 DEF SaveLastMigration
  <2>3. history' = replica[r].next /\ historyIndex' = historyIndex /\ crashes' = crashes
    BY <1>10 DEF SaveLastMigration
  <2>4. new \in [step : MigratorSteps, next : 0 .. Last + 1]
    BY <2>1 DEF MigratorSteps, After, Last
  <2>5. /\ new.next - 1 = replica[r].next /\ history' \in 0 .. Last
        /\ new.step = "serving" => new.next = Last + 1
        /\ new.step = "request" => new.next \in 1 .. Last
        /\ new.step \notin {"wait", "save"}
    BY <2>1, <2>3 DEF After, Last
  <2>6. AllReached(history')
    BY <2>1, <2>3
  <2> HIDE DEF new
  <2> QED BY <1>1, <1>3, <1>5, <1>6, <2>1, <2>2, <2>3, <2>4, <2>5, <2>6
<1> QED BY <1>7, <1>8, <1>9, <1>10

\* A request begins with the documents its query matches.
LEMMA RequestStep ==
  ASSUME MigratorInv, NEW r \in Replicas, Request(r)
  PROVE  MigratorInv'
<1> DEFINE m == replica[r].next
           todo == {d \in Docs : Matches(m, content[d])}
           new == [m |-> m, todo |-> todo, fresh |-> Docs, state |-> "running"]
<1>1. MigratorTypeOK /\ ReplicaInv(r) /\ At(r, "request")
  BY DEF MigratorInv, Request
<1>2. m \in 1 .. Last /\ AllReached(m - 1)
  BY <1>1 DEF ReplicaInv, At, Last
<1>3. /\ task' = [task EXCEPT ![r] = new] /\ replica' = [replica EXCEPT ![r].step = "wait"]
      /\ UNCHANGED <<content, historyIndex, history, crashes>>
  BY DEF Request, Go
<1>4. new \in [m : 0 .. Last, todo : SUBSET Docs, fresh : SUBSET Docs, state : TaskState]
  BY <1>2 DEF TaskState, Last
<1>5. \A d \in Docs \ todo : Reached(m, content[d])
  <2> TAKE d \in Docs \ todo
  <2>1. content[d] \in Doc /\ Lossless(content[d]) /\ Reached(m - 1, content[d])
    BY <1>1, <1>2 DEF MigratorTypeOK, MigratorInv, AllReached
  <2> QED BY <1>2, <2>1, LeftOutIsDone
<1>6. task'[r] = new /\ replica'[r].step = "wait" /\ replica'[r].next = m
  <2>1. replica[r] \in [step : MigratorSteps, next : 0 .. Last + 1]
    BY <1>1 DEF MigratorTypeOK
  <2> QED BY <1>1, <1>3, <2>1 DEF MigratorTypeOK
<1>7. new.m = m /\ new.todo = todo /\ new.state = "running"
  OBVIOUS
<1> HIDE DEF todo, new
<1>8. MigratorTypeOK'
  <2>1. replica' \in [Replicas -> [step : MigratorSteps, next : 0 .. Last + 1]]
    BY <1>1, <1>3 DEF MigratorTypeOK, MigratorSteps
  <2> QED BY <1>1, <1>3, <1>4, <2>1 DEF MigratorTypeOK
<1>9. TaskInv(r)'
  BY <1>2, <1>3, <1>5, <1>6, <1>7 DEF TaskInv, AllReached
<1>10. ReplicaInv(r)'
  <2>1. ReplicaInv(r)
    BY <1>1
  <2> QED BY <1>2, <1>3, <1>6, <1>7, <2>1 DEF ReplicaInv, At, AllReached
<1>11. ASSUME NEW s \in Replicas \ {r} PROVE ReplicaInv(s)' /\ TaskInv(s)'
  <2>1. replica'[s] = replica[s] /\ task'[s] = task[s]
    BY <1>1, <1>3 DEF MigratorTypeOK
  <2>2. ReplicaInv(s) /\ TaskInv(s)
    BY DEF MigratorInv
  <2> QED BY <1>3, <2>1, <2>2 DEF ReplicaInv, TaskInv, At, AllReached
<1>12. AllReached(history)' /\ \A d \in Docs : Lossless(content'[d])
  BY <1>3 DEF MigratorInv, AllReached
<1> QED BY <1>8, <1>9, <1>10, <1>11, <1>12 DEF MigratorInv

\* A document is written by a script or by a serving replica, and no migration undone.
LEMMA WriteStep ==
  ASSUME MigratorInv, NEW r \in Replicas, NEW d \in Docs, UpdateByQuery(r, d) \/ Save(r, d)
  PROVE  /\ content' \in [Docs -> Doc] /\ \A e \in Docs : Lossless(content'[e])
         /\ \A e \in Docs, n \in 0 .. Last : Reached(n, content[e]) => Reached(n, content'[e])
<1>1. /\ content \in [Docs -> Doc] /\ \A e \in Docs : Lossless(content[e])
      /\ TaskInv(r)
  BY DEF MigratorInv, MigratorTypeOK
<1>2. CASE UNCHANGED content
  BY <1>1, <1>2
<1>3. CASE task[r].state = "running" /\ content' = [content EXCEPT ![d] = Script(task[r].m, @)]
  <2>1. task[r].m \in 1 .. Last /\ Reached(task[r].m - 1, content[d])
    BY <1>1, <1>3 DEF TaskInv, AllReached
  <2>2. /\ Script(task[r].m, content[d]) \in Doc /\ Lossless(Script(task[r].m, content[d]))
        /\ \A n \in 0 .. Last : Reached(n, content[d]) => Reached(n, Script(task[r].m, content[d]))
    BY <1>1, <2>1, ScriptKeeps
  <2> QED BY <1>1, <1>3, <2>2
<1>4. CASE content' = [content EXCEPT ![d] = Saved]
  <2>1. Saved \in Doc /\ Lossless(Saved) /\ \A n \in 0 .. Last : Reached(n, Saved)
    <3>1. 0 \in 0 .. Last
      BY DEF Last
    <3> QED BY <3>1, SavedIsDone
  <2> QED BY <1>1, <1>4, <2>1
<1> QED BY <1>2, <1>3, <1>4 DEF UpdateByQuery, Save

\* A step of a request, or a write of a serving replica.
LEMMA DocumentStep ==
  ASSUME MigratorInv, NEW r \in Replicas, NEW d \in Docs, UpdateByQuery(r, d) \/ Save(r, d)
  PROVE  MigratorInv'
<1>1. /\ content' \in [Docs -> Doc] /\ \A e \in Docs : Lossless(content'[e])
      /\ \A e \in Docs, n \in 0 .. Last : Reached(n, content[e]) => Reached(n, content'[e])
  BY WriteStep
<1>2. UNCHANGED <<historyIndex, history, replica, crashes>>
  BY DEF UpdateByQuery, Save
<1>3. MigratorTypeOK /\ \A s \in Replicas : ReplicaInv(s) /\ TaskInv(s)
  BY DEF MigratorInv
<1> DEFINE Task == [m : 0 .. Last, todo : SUBSET Docs, fresh : SUBSET Docs, state : TaskState]
<1>4. \A s \in Replicas : task[s] \in Task
  BY <1>3 DEF MigratorTypeOK
<1>5. ASSUME task' \in [Replicas -> Task],
             \A s \in Replicas : task'[s].m = task[s].m,
             \A s \in Replicas : task'[s].state = task[s].state
                               \/ (At(s, "wait") => task'[s].state # "none"),
             \A s \in Replicas : \/ task'[s].todo = task[s].todo /\ task'[s].state = task[s].state
                               \/ TaskInv(s)'
      PROVE  MigratorInv'
  <2>1. MigratorTypeOK'
    BY <1>1, <1>2, <1>3, <1>5 DEF MigratorTypeOK
  <2>2. AllReached(history)'
    BY <1>1, <1>2 DEF MigratorInv, MigratorTypeOK, AllReached
  <2>3. ASSUME NEW s \in Replicas PROVE TaskInv(s)'
    BY <1>1, <1>5, GrowKeeps
  <2>4. ASSUME NEW s \in Replicas PROVE ReplicaInv(s)'
    <3>1. CASE task'[s].state = task[s].state
      BY <1>1, <1>2, <1>5, <3>1, GrowKeeps
    <3>2. CASE At(s, "wait") => task'[s].state # "none"
      <4> DEFINE Later(n) == \A e \in Docs : Reached(n, content'[e])
      <4>1. ReplicaInv(s) /\ replica[s].next \in 0 .. Last + 1 /\ replica' = replica
        BY <1>2, <1>3 DEF MigratorTypeOK
      <4>2. replica[s].next > 0 => Later(replica[s].next - 1)
        <5>1. replica[s].next > 0 => replica[s].next - 1 \in 0 .. Last
          BY <4>1 DEF Last
        <5> QED BY <1>1, <4>1, <5>1 DEF ReplicaInv, AllReached
      <4>3. replica[s].step = "save" => Later(replica[s].next)
        <5>1. replica[s].step = "save" => replica[s].next \in 0 .. Last
          BY <4>1 DEF ReplicaInv, Last
        <5> QED BY <1>1, <4>1, <5>1 DEF ReplicaInv, AllReached, At
      <4> QED BY <1>5, <3>2, <4>1, <4>2, <4>3 DEF ReplicaInv, At, AllReached
    <3> QED BY <1>5, <3>1, <3>2
  <2> QED BY <1>1, <2>1, <2>2, <2>3, <2>4 DEF MigratorInv
<1>6. CASE UpdateByQuery(r, d) /\ d \in task[r].fresh
  <2>1. /\ task[r].state = "running" /\ content' = [content EXCEPT ![d] = Script(task[r].m, @)]
        /\ task' = Written([task EXCEPT ![r].todo = @ \ {d}], r, d)
    BY <1>6 DEF UpdateByQuery
  <2>2. /\ task'[r] = [task[r] EXCEPT !.todo = @ \ {d}]
        /\ \A s \in Replicas \ {r} : task'[s] = [task[s] EXCEPT !.fresh = @ \ {d}]
        /\ task' = [s \in Replicas |-> task'[s]]
    BY <1>3, <2>1 DEF Written, MigratorTypeOK
  <2>3. \A s \in Replicas :
          task'[s] \in Task /\ task'[s].m = task[s].m /\ task'[s].state = task[s].state
    BY <1>4, <2>2
  <2>4. task'[r].todo = task[r].todo \ {d} /\ \A s \in Replicas \ {r} : task'[s].todo = task[s].todo
    BY <1>4, <2>2
  <2>5. TaskInv(r)'
    <3>1. task[r].m \in 1 .. Last /\ AllReached(task[r].m - 1)
          /\ \A e \in Docs \ task[r].todo : Reached(task[r].m, content[e])
      BY <1>3, <2>1 DEF TaskInv
    <3>2. task[r].m \in 0 .. Last /\ task[r].m - 1 \in 0 .. Last
      BY <3>1 DEF Last
    <3>3. \A e \in Docs : Reached(task[r].m - 1, content'[e])
      BY <1>1, <3>1, <3>2 DEF AllReached
    <3>4. Reached(task[r].m, content'[d])
      <4>1. content[d] \in Doc /\ Lossless(content[d]) /\ Reached(task[r].m - 1, content[d])
        BY <1>3, <3>1 DEF MigratorTypeOK, MigratorInv, AllReached
      <4>2. Reached(task[r].m, Script(task[r].m, content[d]))
        BY <3>1, <3>2, <4>1, ScriptKeeps
      <4> QED BY <1>3, <2>1, <4>2 DEF MigratorTypeOK
    <3>5. \A e \in Docs \ task'[r].todo : Reached(task[r].m, content'[e])
      BY <1>1, <2>4, <3>1, <3>2, <3>4
    <3> QED BY <2>1, <2>3, <3>1, <3>3, <3>5 DEF TaskInv, AllReached
  <2>6. task' \in [Replicas -> Task]
    BY <2>2, <2>3
  <2> QED BY <1>5, <2>3, <2>4, <2>5, <2>6
<1>7. CASE UpdateByQuery(r, d) /\ d \notin task[r].fresh
  <2>1. task[r].state = "running" /\ task' = [task EXCEPT ![r].state = "failed"]
    BY <1>7 DEF UpdateByQuery
  <2>2. /\ task'[r] = [task[r] EXCEPT !.state = "failed"]
        /\ \A s \in Replicas \ {r} : task'[s] = task[s]
    BY <1>3, <2>1 DEF MigratorTypeOK
  <2>3. task'[r].state = "failed" /\ task'[r].m = task[r].m
    BY <1>4, <2>2
  <2>4. task' \in [Replicas -> Task]
    BY <1>3, <2>1 DEF MigratorTypeOK, TaskState
  <2>5. TaskInv(r)'
    BY <1>3, <2>1, <2>3 DEF TaskInv
  <2> QED BY <1>5, <2>2, <2>3, <2>4, <2>5
<1>8. CASE Save(r, d)
  <2>1. \A s \in Replicas : task'[s] = [task[s] EXCEPT !.fresh = @ \ {d}]
    BY <1>8 DEF Save
  <2>2. \A s \in Replicas : /\ task'[s] \in Task /\ task'[s].m = task[s].m
                            /\ task'[s].state = task[s].state /\ task'[s].todo = task[s].todo
    <3> SUFFICES ASSUME NEW s \in Replicas
                 PROVE  /\ task'[s] \in Task /\ task'[s].m = task[s].m
                        /\ task'[s].state = task[s].state /\ task'[s].todo = task[s].todo
      OBVIOUS
    <3>1. task[s] \in Task
      BY <1>4
    <3>2. task'[s] = [task[s] EXCEPT !.fresh = @ \ {d}]
      BY <2>1
    <3> QED BY <3>1, <3>2
  <2>3. task' = [s \in Replicas |-> task'[s]]
    BY <1>8 DEF Save
  <2>4. task' \in [Replicas -> Task]
    BY <2>2, <2>3
  <2> QED BY <1>5, <2>2, <2>4
<1> QED BY <1>6, <1>7, <1>8

\* A request whose documents have all been visited has done its migration.
LEMMA EndStep ==
  ASSUME MigratorInv, NEW r \in Replicas, EndRequest(r)
  PROVE  MigratorInv'
<1>1. /\ UNCHANGED <<content, historyIndex, history, replica, crashes>>
      /\ task[r].state = "running" /\ task[r].todo = {}
      /\ task' = [task EXCEPT ![r].state = "ok"]
  BY DEF EndRequest
<1>2. MigratorTypeOK /\ \A s \in Replicas : ReplicaInv(s) /\ TaskInv(s)
  BY DEF MigratorInv
<1>3. /\ task'[r].m = task[r].m /\ task'[r].state = "ok"
      /\ \A s \in Replicas \ {r} : task'[s] = task[s]
  BY <1>1, <1>2 DEF MigratorTypeOK
<1>4. MigratorTypeOK'
  BY <1>1, <1>2 DEF MigratorTypeOK, TaskState
<1>5. TaskInv(r)'
  BY <1>1, <1>2, <1>3 DEF TaskInv, AllReached
<1>6. ReplicaInv(r)'
  BY <1>1, <1>2, <1>3 DEF ReplicaInv, At, AllReached
<1>7. ASSUME NEW s \in Replicas \ {r} PROVE ReplicaInv(s)' /\ TaskInv(s)'
  BY <1>1, <1>2, <1>3 DEF ReplicaInv, TaskInv, At, AllReached
<1>8. AllReached(history)' /\ \A d \in Docs : Lossless(content'[d])
  BY <1>1 DEF MigratorInv, AllReached
<1> QED BY <1>4, <1>5, <1>6, <1>7, <1>8 DEF MigratorInv

\* The invariant holds in every reachable state.
THEOREM MigratorInvariant == MigratorSpec => []MigratorInv
<1>1. MigratorInit => MigratorInv
  BY InitInv
<1>2. MigratorInv /\ [MigratorNext]_migratorVars => MigratorInv'
  <2> SUFFICES ASSUME MigratorInv, [MigratorNext]_migratorVars PROVE MigratorInv'
    OBVIOUS
  <2>1. CASE UNCHANGED migratorVars
    BY <2>1 DEF migratorVars, MigratorInv, MigratorTypeOK, ReplicaInv, TaskInv, At, AllReached
  <2>2. ASSUME NEW r \in Replicas, Migrate(r) PROVE MigratorInv'
    BY <2>2, ReplicaStep, RequestStep, EndStep DEF Migrate
  <2>3. ASSUME NEW r \in Replicas, NEW d \in Docs, UpdateByQuery(r, d) \/ Save(r, d)
        PROVE  MigratorInv'
    BY <2>3, DocumentStep
  <2> QED BY <2>1, <2>2, <2>3 DEF MigratorNext
<1> QED BY <1>1, <1>2, PTL DEF MigratorSpec

\* No document loses its embedding or gets it twice, and replicas serve migrated documents:
\* for any number of documents, replicas and crashes.
THEOREM NoLoss == MigratorSpec => []NoEmbeddingLost
<1>1. MigratorInv => NoEmbeddingLost
  <2> SUFFICES ASSUME MigratorInv, NEW r \in Replicas, At(r, "serving") PROVE AllReached(Last)
    BY DEF MigratorInv, NoEmbeddingLost
  <2>1. replica[r].next = Last + 1 /\ (replica[r].next > 0 => AllReached(replica[r].next - 1))
    BY DEF MigratorInv, ReplicaInv
  <2>2. replica[r].next > 0 /\ replica[r].next - 1 = Last
    BY <2>1 DEF Last
  <2> QED BY <2>1, <2>2
<1> QED BY <1>1, MigratorInvariant, PTL

-----------------------------------------------------------------------------
(* The pages of a search *)

\* What a search finds and its page, of memes with versions v.
Found(v, order, after) ==
  {m \in Memes : order[m] > 0 /\ v[m] > 0 /\ (after = NoPage \/ order[m] < after)}

Newest(order, found) == {m \in found : Cardinality({k \in found : order[k] > order[m]}) < PageSize}

CopiesOf(v, memes) == [m \in Memes |-> IF m \in memes THEN <<v[m]>> ELSE <<>>]

\* One meme shown in one version.
CopyOf(m, x) == [k \in Memes |-> IF k = m THEN <<x>> ELSE <<>>]

LEMMA SearchIsNewest ==
  ASSUME NEW order, NEW after
  PROVE  SearchMeme(order, after) = Newest(order, Found(version, order, after))
  BY Zenon DEF SearchMeme, Newest, Found, Stored

LEMMA DtosAreCopies ==
  ASSUME NEW memes
  PROVE  Dtos(memes) = CopiesOf(version', memes)
  BY Zenon DEF Dtos, CopiesOf

LEMMA DtoIsCopy ==
  ASSUME NEW m \in Memes
  PROVE  Dtos({m}) = CopyOf(m, version'[m])
  BY DEF Dtos, CopyOf

LEMMA CopiesInGrid ==
  ASSUME NEW v \in [Memes -> Int], NEW memes
  PROVE  CopiesOf(v, memes) \in Grid
<1>1. \A m \in Memes : <<v[m]>> \in Seq(Int) /\ <<>> \in Seq(Int)
  OBVIOUS
<1> QED BY <1>1 DEF CopiesOf, Grid

LEMMA CopyInGrid ==
  ASSUME NEW m \in Memes, NEW x \in Int
  PROVE  CopyOf(m, x) \in Grid
<1>1. <<x>> \in Seq(Int) /\ <<>> \in Seq(Int)
  OBVIOUS
<1> QED BY <1>1 DEF CopyOf, Grid

LEMMA NothingInGrid == NothingShown \in Grid
<1>1. <<>> \in Seq(Int)
  OBVIOUS
<1> QED BY <1>1 DEF NothingShown, Grid

\* What a search finds are memes, finitely many.
LEMMA FoundIsFinite ==
  ASSUME NEW v, NEW order, NEW after
  PROVE  /\ Found(v, order, after) \subseteq Memes
         /\ Newest(order, Found(v, order, after)) \subseteq Found(v, order, after)
         /\ IsFiniteSet(Found(v, order, after))
<1>1. Found(v, order, after) \subseteq Memes
  BY DEF Found
<1>2. IsFiniteSet(Found(v, order, after))
  BY <1>1, FS_Subset, WebAssumption
<1>3. Newest(order, Found(v, order, after)) \subseteq Found(v, order, after)
  BY DEF Newest
<1> QED BY <1>1, <1>2, <1>3

\* A page is empty only if nothing is found.
LEMMA EmptyPage ==
  ASSUME NEW order \in [Memes -> Nat], NEW found, found \subseteq Memes, IsFiniteSet(found),
         Newest(order, found) = {}
  PROVE  found = {}
<1> SUFFICES ASSUME found # {} PROVE FALSE
  OBVIOUS
<1> DEFINE Above(m) == {k \in found : order[k] > order[m]}
           Counts == {Cardinality(Above(m)) : m \in found}
<1>1. \A m \in found : order[m] \in Nat
  OBVIOUS
<1>2. ASSUME NEW m \in found
      PROVE  IsFiniteSet(Above(m)) /\ Cardinality(Above(m)) \in Nat
  <2>1. Above(m) \in SUBSET found
    OBVIOUS
  <2> QED BY <2>1, FS_Subset, FS_CardinalityType
<1>3. Counts \subseteq Nat /\ Counts # {}
  BY <1>2
<1>4. PICK m \in found : \A k \in found : Cardinality(Above(m)) <= Cardinality(Above(k))
  <2>1. PICK n \in Counts : \A k \in Counts : n <= k
    <3> HIDE DEF Counts
    <3> QED BY <1>3, LeastNumber
  <2>2. PICK m \in found : n = Cardinality(Above(m))
    BY <2>1
  <2>3. \A k \in found : Cardinality(Above(k)) \in Counts
    OBVIOUS
  <2> HIDE DEF Counts, Above
  <2> QED BY <2>1, <2>2, <2>3
<1>5. PICK k \in found : order[k] > order[m]
  <2>1. Cardinality(Above(m)) # 0
    <3>1. ~(Cardinality(Above(m)) < PageSize)
      BY DEF Newest
    <3> QED BY <3>1, WebAssumption
  <2>2. Above(m) # {}
    BY <2>1, FS_EmptySet
  <2> QED BY <2>2
<1>6. Above(k) \in SUBSET Above(m) /\ k \notin Above(k) /\ k \in Above(m)
  <2>1. \A x \in found : order[x] > order[k] => order[x] > order[m]
    BY <1>1, <1>5
  <2>2. ~(order[k] > order[k])
    BY <1>1
  <2> QED BY <1>5, <2>1, <2>2, Zenon
<1>7. /\ Cardinality(Above(k)) <= Cardinality(Above(m))
      /\ Cardinality(Above(k)) # Cardinality(Above(m))
  <2> HIDE DEF Above
  <2> QED BY <1>2, <1>6, FS_Subset
<1> QED
  <2> HIDE DEF Above
  <2> QED BY <1>2, <1>4, <1>7

\* A page has all that is found down to its last meme.
LEMMA PageIsFull ==
  ASSUME NEW order \in [Memes -> Nat], NEW found, found \subseteq Memes, IsFiniteSet(found),
         NEW n \in Newest(order, found), NEW m \in found, order[m] >= order[n]
  PROVE  m \in Newest(order, found)
<1> DEFINE Above(k) == {x \in found : order[x] > order[k]}
<1>1. n \in found /\ \A k \in found : order[k] \in Nat
  BY DEF Newest
<1>2. Above(n) \in SUBSET found /\ Above(m) \in SUBSET Above(n)
  <2>1. \A x \in found : order[x] > order[m] => order[x] > order[n]
    BY <1>1
  <2> QED BY <2>1, Zenon
<1>3. /\ IsFiniteSet(Above(n)) /\ IsFiniteSet(Above(m))
      /\ Cardinality(Above(n)) \in Nat /\ Cardinality(Above(m)) \in Nat
      /\ Cardinality(Above(m)) <= Cardinality(Above(n))
  <2> HIDE DEF Above
  <2> QED BY <1>2, FS_Subset, FS_CardinalityType
<1>4. Cardinality(Above(n)) < PageSize
  BY DEF Newest
<1>5. Cardinality(Above(m)) < PageSize
  <2> HIDE DEF Above
  <2> QED BY <1>3, <1>4, WebAssumption
<1> QED BY <1>5 DEF Newest

\* The cursor of the next page is the rank of the last meme of this one.
LEMMA NextIsLast ==
  ASSUME NEW order \in [Memes -> Nat], NEW hits, hits \subseteq Memes, \A m \in hits : order[m] > 0
  PROVE  /\ NextPage(order, hits) \in Nat
         /\ NextPage(order, hits) = NoPage <=> hits = {}
         /\ hits # {} => /\ \E m \in hits : NextPage(order, hits) = order[m]
                         /\ \A m \in hits : order[m] >= NextPage(order, hits)
<1> DEFINE ranks == {order[m] : m \in hits}
<1>1. CASE hits = {}
  BY <1>1 DEF NextPage, NoPage
<1>2. CASE hits # {}
  <2>1. ranks \subseteq Nat /\ ranks # {} /\ NextPage(order, hits) = Min(ranks)
    BY <1>2 DEF NextPage
  <2>2. \A n \in ranks : n > 0
    OBVIOUS
  <2>3. (\E m \in hits : Min(ranks) = order[m]) <=> Min(ranks) \in ranks
    OBVIOUS
  <2>4. \A m \in hits : order[m] \in ranks
    OBVIOUS
  <2> HIDE DEF ranks
  <2>5. \E n \in ranks : \A k \in ranks : n <= k
    BY <2>1, LeastNumber
  <2>6. Min(ranks) \in ranks /\ \A k \in ranks : Min(ranks) <= k
    BY <2>5, Zenon DEF Min
  <2>7. \A k \in ranks : k >= Min(ranks)
    BY <2>1, <2>6
  <2> QED BY <1>2, <2>1, <2>2, <2>3, <2>4, <2>6, <2>7 DEF NoPage
<1> QED BY <1>1, <1>2

-----------------------------------------------------------------------------
(* The invariant *)

Changing == {"upload", "update", "delete", "recompute"}

AboutIn(m, q, j) == (\E s \in Slots : q[s].meme = m) \/ j[m] = "running"

CompleteIn(m, p, k) == IF p.next = NoPage THEN ~p.more ELSE k[m] >= p.next

\* All that is shown of meme m is as it is stored.
Fresh(m, v, p) == v[m] > 0 /\ \A i \in DOMAIN p.memes[m] : p.memes[m][i] = v[m]

RequestTyped(r) ==
  /\ r.kind \in Changing <=> r.meme \in Memes
  /\ r.kind \in Search => r.query \in Queries
  /\ r.kind \in {"update", "recompute"} /\ r.state = "ok" => r.data[r.meme] # <<>>

\* Only the load in the controller is under way.
ControllerInv(p, q) ==
  /\ \A s \in Slots : q[s].kind = "load" => p.controller = s
  /\ p.controller # NoSlot => q[p.controller].kind = "load"

Alone(s, q, j) ==
  /\ \A t \in Slots \ {s} : q[t].kind = "none"
  /\ \A m \in Memes : j[m] # "running"

Polls(r, m) == r.kind = "recompute" /\ r.meme = m /\ r.stage = 2 /\ r.state = "sent"

\* What goes on beside a request does not concern it.
Apart(q, j) ==
  /\ \A s \in Slots : q[s].kind \in Search => Alone(s, q, j)
  /\ \A s, t \in Slots : q[s].meme \in Memes /\ q[s].meme = q[t].meme => s = t
  /\ \A m \in Memes : j[m] = "running" => \E s \in Slots : Polls(q[s], m)

\* A meme is shown as it should be.  As long as the order of the pages stands (d), the next
\* page does not show it again (k: the ranking they were read by).
ShownRight(m, v, p, q, j, k, d) ==
  /\ p.memes[m] # <<>> =>
       /\ m \in (Memes \ Old) \/ m \in Matching(p.query)
       /\ ~AboutIn(m, q, j) => Fresh(m, v, p)
       /\ d = "none" => k[m] >= p.next
  /\ d # "mixed" => Len(p.memes[m]) <= 1
  /\ d # "mixed" /\ p.query \in Queries /\ v[m] > 0 /\ k[m] > 0 /\ CompleteIn(m, p, k) =>
       p.memes[m] # <<>> \/ AboutIn(m, q, j)

\* What the cursor stands for.
CursorRight(v, p, k, d) ==
  p.next # NoPage =>
    /\ d = "none" => k \in Rankings[p.query]
    /\ p.query \in ByCreation => p.next \in Memes /\ v[p.next] # 0

\* The answer of a search is the page as it still is.
SearchAnswered(r, v, k) ==
  LET hits == Newest(k, Found(v, k, r.after)) IN
  k \in Rankings[r.query] /\ r.data = CopiesOf(v, hits) /\ r.next = NextPage(k, hits)

LoadOK(r, v, p, k, d) ==
  /\ r.query = p.query /\ r.after = NoPage /\ d = "none"
  /\ p.memes = NothingShown /\ p.next = NoPage /\ p.more = TRUE
  /\ r.state = "ok" => SearchAnswered(r, v, k)

MoreOK(r, v, p, k, d) ==
  /\ r.query = p.query /\ r.after = p.next /\ r.base = p.memes /\ p.more = TRUE
  /\ r.after = NoPage => r.base = NothingShown
  /\ r.state = "ok" => SearchAnswered(r, v, k) /\ d # "reordered"

UploadOK(r, v, p, d) ==
  LET m == r.meme
      created == r.state = "ok" /\ r.data[m] # <<>>
  IN /\ p.memes[m] = <<>> /\ m \notin Old
     /\ p.query \in ByCreation => p.next < m
     /\ created => /\ v[m] > 0 /\ r.data = CopyOf(m, v[m])
                   /\ p.query \in ByCreation \/ d # "none"
     /\ ~created => v[m] = 0
     /\ r.state = "ok" /\ ~created => r.data = NothingShown

UpdateOK(r, v, p) ==
  /\ v[r.meme] > 0 /\ p.memes[r.meme] # <<>>
  /\ IF r.state = "ok" THEN r.data = CopyOf(r.meme, v[r.meme]) ELSE Fresh(r.meme, v, p)

DeleteOK(r, v, p) == IF r.state = "ok" THEN v[r.meme] <= 0 ELSE Fresh(r.meme, v, p) /\ p.memes[r.meme] # <<>>

RecomputeOK(r, v, p, j) ==
  /\ v[r.meme] > 0 /\ p.memes[r.meme] # <<>>
  /\ r.state = "ok" => r.data = CopyOf(r.meme, v[r.meme])
  /\ \/ r.state = "failed" \/ r.stage < 2
     \/ r.stage = 2 /\ j[r.meme] # "done"
     => Fresh(r.meme, v, p)

RequestOK(r, v, p, j, k, d) ==
  /\ r.kind = "load" => LoadOK(r, v, p, k, d)
  /\ r.kind = "more" => MoreOK(r, v, p, k, d)
  /\ r.kind = "upload" => UploadOK(r, v, p, d)
  /\ r.kind = "update" => UpdateOK(r, v, p)
  /\ r.kind = "delete" => DeleteOK(r, v, p)
  /\ r.kind = "recompute" => RecomputeOK(r, v, p, j)

GridInv(v, p, q, j, k, d) ==
  /\ Apart(q, j)
  /\ \A m \in Memes : ShownRight(m, v, p, q, j, k, d)
  /\ CursorRight(v, p, k, d)
  /\ \A s \in Slots : RequestOK(q[s], v, p, j, k, d)

TypedInv(v, p, q) ==
  /\ \A s \in Slots : RequestTyped(q[s])
  /\ ControllerInv(p, q)
  /\ \A m \in Old : v[m] # 0

WebInv ==
  /\ WebTypeOK /\ TypedInv(version, page, requests)
  /\ ~conflict => GridInv(version, page, requests, webJobs, ranking, drift)

-----------------------------------------------------------------------------
(* What a step keeps *)

Drift == {"none", "reordered", "mixed"}

\* A ranking k and drift d that become l and e make no meme shown wrong, nor the cursor.
Weaker(p, k, d, l, e) ==
  \/ l = k /\ (e = d \/ (d = "none" /\ e = "reordered"))
  \/ e = "mixed"
  \/ p.memes = NothingShown /\ p.next = NoPage /\ p.more = TRUE

\* What is shown of a meme stays right as long as a request is under way about it, or
\* nothing happens to it.
LEMMA ShownKept ==
  ASSUME NEW m \in Memes, NEW v, NEW p, NEW q, NEW j, NEW k, NEW d,
         NEW w, NEW o, NEW u, NEW i, NEW l, NEW e,
         ShownRight(m, v, p, q, j, k, d), Weaker(p, k, d, l, e),
         o.memes[m] = p.memes[m], o.next = p.next, o.more = p.more, o.query = p.query,
         AboutIn(m, u, i) \/ (~AboutIn(m, q, j) /\ w[m] = v[m])
  PROVE  ShownRight(m, w, o, u, i, l, e)
<1>1. CASE l = k /\ (e = d \/ (d = "none" /\ e = "reordered"))
  BY <1>1 DEF ShownRight, CompleteIn, Fresh
<1>2. CASE e = "mixed"
  BY <1>2 DEF ShownRight, Fresh
<1>3. CASE p.memes = NothingShown /\ p.next = NoPage /\ p.more = TRUE
  <2>1. o.memes[m] = <<>> /\ Len(<<>>) = 0
    BY <1>3 DEF NothingShown
  <2> QED BY <1>3, <2>1 DEF ShownRight, CompleteIn
<1> QED BY <1>1, <1>2, <1>3 DEF Weaker

\* So does the cursor, as no meme is created twice.
LEMMA CursorKept ==
  ASSUME NEW v, NEW p, NEW k, NEW d, NEW w, NEW o, NEW l, NEW e,
         CursorRight(v, p, k, d), Weaker(p, k, d, l, e), o.next = p.next, o.query = p.query,
         \A m \in Memes : v[m] # 0 => w[m] # 0
  PROVE  CursorRight(w, o, l, e)
  BY DEF CursorRight, Weaker

\* A request about a meme is not concerned with others.
LEMMA RequestKept ==
  ASSUME NEW r, NEW v, NEW p, NEW j, NEW k, NEW d, NEW w, NEW o, NEW i, NEW l, NEW e,
         RequestOK(r, v, p, j, k, d), r.kind \notin Search,
         r.kind # "none" => /\ w[r.meme] = v[r.meme] /\ i[r.meme] = j[r.meme]
                            /\ o.memes[r.meme] = p.memes[r.meme]
                            /\ o.next = p.next /\ o.query = p.query
                            /\ d # "none" => e # "none"
  PROVE  RequestOK(r, w, o, i, l, e)
<1>1. CASE r.kind = "none"
  BY <1>1 DEF RequestOK
<1>2. CASE r.kind # "none"
  BY <1>2 DEF RequestOK, Search, UploadOK, UpdateOK, DeleteOK, RecomputeOK, Fresh
<1> QED BY <1>1, <1>2

\* The kinds of requests.
LEMMA Kinds ==
  ASSUME NEW r \in WebRequest, RequestTyped(r)
  PROVE  /\ r.kind \in Search \/ r.kind \in Changing \/ r.kind = "none"
         /\ r.kind \in Search => r.kind # "none" /\ r.kind \notin Changing
         /\ r.kind \in Changing <=> r.meme \in Memes
         /\ r.kind \in Changing => r.kind # "none"
  BY DEF WebRequest, RequestTyped, Search, Changing

\* A request is served: it and its meme change, and nothing that others rely on.
LEMMA ServedKeeps ==
  ASSUME NEW s \in Slots, NEW r \in WebRequest,
         requests \in [Slots -> WebRequest], TypedInv(version, page, requests),
         GridInv(version, page, requests, webJobs, ranking, drift), page \in WebPage,
         requests' = [requests EXCEPT ![s] = r], r.kind = requests[s].kind,
         r.meme = requests[s].meme, r.kind # "none",
         \A m \in Memes : m # r.meme => version'[m] = version[m] /\ webJobs'[m] = webJobs[m],
         \A m \in Memes : version[m] # 0 => version'[m] # 0,
         r.meme \in Memes /\ webJobs'[r.meme] = "running" => Polls(r, r.meme),
         Weaker(page, ranking, drift, ranking', drift'),
         r.kind \notin Search /\ drift # "none" => drift' # "none",
         RequestOK(r, version', page, webJobs', ranking', drift')
  PROVE  GridInv(version', page, requests', webJobs', ranking', drift')
<1> DEFINE m0 == r.meme
<1>1. /\ requests' \in [Slots -> WebRequest] /\ requests'[s] = r
      /\ \A t \in Slots \ {s} : requests'[t] = requests[t]
      /\ \A t \in Slots : RequestTyped(requests[t]) /\ requests[t] \in WebRequest
  BY DEF TypedInv
<1>2. \A t \in Slots : requests'[t].kind = requests[t].kind /\ requests'[t].meme = requests[t].meme
  BY <1>1
<1>3. Apart(requests', webJobs')
  <2>1. ASSUME NEW t \in Slots, requests'[t].kind \in Search PROVE Alone(t, requests', webJobs')
    <3>1. Alone(t, requests, webJobs)
      BY <1>2, <2>1 DEF GridInv, Apart
    <3>2. t = s
      BY <3>1, <1>2 DEF Alone
    <3>3. r.meme \notin Memes
      BY <1>1, <2>1, <3>2, Kinds DEF RequestTyped
    <3> QED BY <1>2, <3>1, <3>3 DEF Alone
  <2>2. ASSUME NEW t \in Slots, NEW x \in Slots, requests'[t].meme \in Memes,
               requests'[t].meme = requests'[x].meme
        PROVE  t = x
    BY <1>2, <2>2 DEF GridInv, Apart
  <2>3. ASSUME NEW m \in Memes, webJobs'[m] = "running"
        PROVE  \E t \in Slots : Polls(requests'[t], m)
    <3>1. CASE m = m0
      BY <1>1, <2>3, <3>1
    <3>2. CASE m # m0
      <4>1. PICK t \in Slots : Polls(requests[t], m)
        BY <2>3, <3>2 DEF GridInv, Apart
      <4>2. t # s
        BY <3>2, <4>1 DEF Polls
      <4> QED BY <1>1, <4>1, <4>2
    <3> QED BY <3>1, <3>2
  <2> QED BY <2>1, <2>2, <2>3 DEF Apart
<1>4. ASSUME NEW m \in Memes PROVE ShownRight(m, version', page, requests', webJobs', ranking', drift')
  <2>1. ShownRight(m, version, page, requests, webJobs, ranking, drift)
    BY DEF GridInv
  <2>2. CASE m = m0
    <3>1. AboutIn(m, requests', webJobs')
      BY <1>1, <2>2 DEF AboutIn
    <3> QED BY <2>1, <3>1, ShownKept
  <2>3. CASE m # m0
    <3>1. AboutIn(m, requests', webJobs') <=> AboutIn(m, requests, webJobs)
      BY <1>2, <2>3 DEF AboutIn
    <3>2. version'[m] = version[m]
      BY <2>3
    <3> QED BY <2>1, <3>1, <3>2, ShownKept
  <2> QED BY <2>2, <2>3
<1>5. CursorRight(version', page, ranking', drift')
  BY CursorKept DEF GridInv
<1>6. ASSUME NEW t \in Slots PROVE RequestOK(requests'[t], version', page, webJobs', ranking', drift')
  <2>1. CASE t = s
    BY <1>1, <2>1
  <2>2. CASE t # s
    <3>1. RequestOK(requests[t], version, page, webJobs, ranking, drift) /\ requests'[t] = requests[t]
      BY <1>1, <2>2 DEF GridInv
    <3>2. requests[t].kind \notin Search
      BY <1>2, <2>2 DEF GridInv, Apart, Alone
    <3>3. requests[t].kind # "none" => requests[t].meme \in Memes /\ requests[t].meme # m0
      <4>1. requests[t].kind # "none" => requests[t].meme \in Memes
        BY <1>1, <3>2, Kinds
      <4> QED BY <1>2, <2>2, <4>1 DEF GridInv, Apart
    <3>4. requests[t].kind # "none" /\ drift # "none" => drift' # "none"
      BY <1>2, <2>2 DEF GridInv, Apart, Alone
    <3> QED BY <3>1, <3>2, <3>3, <3>4, RequestKept
  <2> QED BY <2>1, <2>2
<1> QED BY <1>3, <1>4, <1>5, <1>6 DEF GridInv

\* A request about a meme is sent.
LEMMA SentKeeps ==
  ASSUME NEW s \in Slots, NEW r \in WebRequest,
         requests \in [Slots -> WebRequest], TypedInv(version, page, requests),
         GridInv(version, page, requests, webJobs, ranking, drift), page \in WebPage,
         requests' = [requests EXCEPT ![s] = r], requests[s].kind = "none", r.kind \in Changing,
         r.meme \in Memes,
         \A t \in Slots : ~Conflicts(r, requests[t]), webJobs[r.meme] # "running",
         RequestOK(r, version, page, webJobs, ranking, drift)
  PROVE  GridInv(version, page, requests', webJobs, ranking, drift)
<1>1. /\ requests'[s] = r
      /\ \A t \in Slots \ {s} : requests'[t] = requests[t]
      /\ \A t \in Slots : RequestTyped(requests[t]) /\ requests[t] \in WebRequest
  BY DEF TypedInv
<1>2. \A t \in Slots : requests[t].kind \notin Search /\ requests[t].meme # r.meme
  <2>1. ASSUME NEW t \in Slots PROVE requests[t].kind \notin Search /\ requests[t].meme # r.meme
    <3>1. requests[t].kind = "none" \/ (requests[t].kind \notin Search /\ requests[t].meme # r.meme)
      BY DEF Conflicts, Changing
    <3>2. requests[t].kind = "none" => requests[t].kind \notin Search /\ requests[t].meme \notin Memes
      BY <1>1, Kinds
    <3> QED BY <3>1, <3>2
  <2> QED BY <2>1
<1>3. r.kind \notin Search /\ requests[s].meme \notin Memes
  BY <1>1, Kinds DEF Search, Changing
<1>4. Apart(requests', webJobs)
  <2>1. ASSUME NEW t \in Slots PROVE requests'[t].kind \notin Search
    BY <1>1, <1>2, <1>3
  <2>2. ASSUME NEW t \in Slots, NEW x \in Slots, requests'[t].meme \in Memes,
               requests'[t].meme = requests'[x].meme
        PROVE  t = x
    BY <1>1, <1>2, <2>2 DEF GridInv, Apart
  <2>3. ASSUME NEW m \in Memes, webJobs[m] = "running"
        PROVE  \E t \in Slots : Polls(requests'[t], m)
    <3>1. PICK t \in Slots : Polls(requests[t], m)
      BY <2>3 DEF GridInv, Apart
    <3>2. t # s
      BY <3>1 DEF Polls
    <3> QED BY <1>1, <3>1, <3>2
  <2> QED BY <2>1, <2>2, <2>3 DEF Apart
<1>5. ASSUME NEW m \in Memes PROVE ShownRight(m, version, page, requests', webJobs, ranking, drift)
  <2>1. ShownRight(m, version, page, requests, webJobs, ranking, drift)
    BY DEF GridInv
  <2>2. AboutIn(m, requests, webJobs) => AboutIn(m, requests', webJobs)
    BY <1>1, <1>3 DEF AboutIn
  <2> QED BY <2>1, <2>2, ShownKept DEF Weaker
<1>6. ASSUME NEW t \in Slots PROVE RequestOK(requests'[t], version, page, webJobs, ranking, drift)
  BY <1>1 DEF GridInv
<1> QED BY <1>4, <1>5, <1>6 DEF GridInv

\* The answer about a meme arrives.
LEMMA DeliveredKeeps ==
  ASSUME NEW s \in Slots,
         requests \in [Slots -> WebRequest], TypedInv(version, page, requests),
         GridInv(version, page, requests, webJobs, ranking, drift),
         requests' = [requests EXCEPT ![s] = Free], requests[s].kind \in Changing,
         requests[s].state # "sent",
         page'.next = page.next, page'.more = page.more, page'.query = page.query,
         \A m \in Memes : m # requests[s].meme => page'.memes[m] = page.memes[m],
         ~AboutIn(requests[s].meme, requests', webJobs) =>
           ShownRight(requests[s].meme, version, page', requests', webJobs, ranking, drift)
  PROVE  GridInv(version, page', requests', webJobs, ranking, drift)
<1> DEFINE m0 == requests[s].meme
<1>1. /\ requests'[s] = Free
      /\ \A t \in Slots \ {s} : requests'[t] = requests[t]
      /\ \A t \in Slots : RequestTyped(requests[t]) /\ requests[t] \in WebRequest
      /\ Free.kind = "none" /\ Free.meme \notin Memes /\ Free.kind \notin Search
  BY WebAssumption DEF TypedInv, Free, Search
<1>2. m0 \in Memes /\ requests[s].kind \notin Search /\ requests[s].kind # "none"
  BY <1>1, Kinds
<1>3. \A t \in Slots : requests[t].kind \notin Search
  <2>1. ASSUME NEW t \in Slots, requests[t].kind \in Search PROVE FALSE
    <3>1. Alone(t, requests, webJobs)
      BY <2>1 DEF GridInv, Apart
    <3> QED BY <1>2, <2>1, <3>1 DEF Alone
  <2> QED BY <2>1
<1>4. \A t \in Slots : requests[t].meme = m0 => t = s
  BY <1>2 DEF GridInv, Apart
<1>5. webJobs[m0] # "running"
  <2>1. ASSUME webJobs[m0] = "running" PROVE FALSE
    <3>1. PICK t \in Slots : Polls(requests[t], m0)
      BY <1>2, <2>1 DEF GridInv, Apart
    <3>2. t = s
      BY <1>4, <3>1 DEF Polls
    <3> QED BY <3>1, <3>2 DEF Polls
  <2> QED BY <2>1
<1>6. ~AboutIn(m0, requests', webJobs)
  BY <1>1, <1>2, <1>4, <1>5 DEF AboutIn
<1>7. Apart(requests', webJobs)
  <2>1. ASSUME NEW t \in Slots PROVE requests'[t].kind \notin Search
    BY <1>1, <1>3
  <2>2. ASSUME NEW t \in Slots, NEW x \in Slots, requests'[t].meme \in Memes,
               requests'[t].meme = requests'[x].meme
        PROVE  t = x
    BY <1>1, <2>2 DEF GridInv, Apart
  <2>3. ASSUME NEW m \in Memes, webJobs[m] = "running"
        PROVE  \E t \in Slots : Polls(requests'[t], m)
    <3>1. PICK t \in Slots : Polls(requests[t], m)
      BY <2>3 DEF GridInv, Apart
    <3>2. t # s
      BY <1>5, <2>3, <3>1 DEF Polls
    <3> QED BY <1>1, <3>1, <3>2
  <2> QED BY <2>1, <2>2, <2>3 DEF Apart
<1>8. ASSUME NEW m \in Memes PROVE ShownRight(m, version, page', requests', webJobs, ranking, drift)
  <2>1. ShownRight(m, version, page, requests, webJobs, ranking, drift)
    BY DEF GridInv
  <2>2. CASE m = m0
    BY <1>6, <2>2
  <2>3. CASE m # m0
    <3>1. AboutIn(m, requests, webJobs) => AboutIn(m, requests', webJobs)
      BY <1>1, <2>3 DEF AboutIn
    <3> QED BY <2>1, <2>3, <3>1, ShownKept DEF Weaker
  <2> QED BY <2>2, <2>3
<1>9. ASSUME NEW t \in Slots PROVE RequestOK(requests'[t], version, page', webJobs, ranking, drift)
  <2>1. CASE t = s
    BY <1>1, <2>1 DEF RequestOK
  <2>2. CASE t # s
    <3>1. RequestOK(requests[t], version, page, webJobs, ranking, drift) /\ requests'[t] = requests[t]
      BY <1>1, <2>2 DEF GridInv
    <3>2. requests[t].kind # "none" => requests[t].meme \in Memes /\ requests[t].meme # m0
      BY <1>1, <1>3, <1>4, <2>2, Kinds
    <3> QED BY <1>3, <3>1, <3>2, RequestKept
  <2> QED BY <2>1, <2>2
<1>10. CursorRight(version, page', ranking, drift)
  BY CursorKept DEF GridInv, Weaker
<1> QED BY <1>7, <1>8, <1>9, <1>10 DEF GridInv

-----------------------------------------------------------------------------
(* Requests are served *)

\* The same request, however far it is.
SameRequest(r, x) ==
  r.kind = x.kind /\ r.meme = x.meme /\ r.query = x.query /\ r.after = x.after /\ r.base = x.base

JobState == {"none", "running", "done", "failed"}

\* The order of the pages stands, or what is shown does not depend on it.
StaysRanked(kind) ==
  /\ ranking' \in [Memes -> Nat] /\ drift' \in Drift
  /\ ~conflict => Weaker(page, ranking, drift, ranking', drift')
  /\ kind \notin Search /\ drift # "none" => drift' # "none"

LEMMA NotSearched ==
  ASSUME WebInv, UNCHANGED <<ranking, drift>> \/ Reindexed, NEW kind
  PROVE  StaysRanked(kind)
<1>1. /\ drift' = drift \/ (drift = "none" /\ drift' = "reordered")
      /\ ranking' = ranking
  BY DEF Reindexed
<1> QED BY <1>1 DEF WebInv, WebTypeOK, StaysRanked, Weaker, Drift

\* What each step has to show of the request it serves.
LEMMA ServedInv ==
  ASSUME WebInv, NEW s \in Slots, NEW r \in WebRequest,
         requests' = [requests EXCEPT ![s] = r], SameRequest(r, requests[s]),
         r.kind # "none", RequestTyped(r),
         UNCHANGED <<page, clicks>>, mishaps' \in Nat, conflict' \in BOOLEAN, StaysRanked(r.kind),
         version' \in [Memes -> Int], webJobs' \in [Memes -> JobState],
         \A m \in Memes : m # r.meme => version'[m] = version[m] /\ webJobs'[m] = webJobs[m],
         \A m \in Memes : version[m] # 0 => version'[m] # 0,
         ~conflict' => /\ ~conflict
                       /\ r.meme \in Memes /\ webJobs'[r.meme] = "running" => Polls(r, r.meme)
                       /\ RequestOK(r, version', page, webJobs', ranking', drift')
  PROVE  WebInv'
<1>1. /\ WebTypeOK /\ TypedInv(version, page, requests)
      /\ ~conflict => GridInv(version, page, requests, webJobs, ranking, drift)
  BY DEF WebInv
<1>2. /\ requests \in [Slots -> WebRequest] /\ requests' \in [Slots -> WebRequest]
      /\ requests'[s] = r /\ \A t \in Slots \ {s} : requests'[t] = requests[t]
      /\ page \in WebPage
  BY <1>1 DEF WebTypeOK
<1>3. WebTypeOK'
  BY <1>1, <1>2 DEF WebTypeOK, JobState, StaysRanked, Drift
<1>4. TypedInv(version', page', requests')
  <2>1. \A t \in Slots : RequestTyped(requests'[t])
    BY <1>1, <1>2 DEF TypedInv
  <2>2. \A t \in Slots : requests'[t].kind = requests[t].kind
    BY <1>2 DEF SameRequest
  <2>3. ControllerInv(page', requests')
    BY <1>1, <1>2, <2>2 DEF TypedInv, ControllerInv, WebPage
  <2>4. \A m \in Old : version'[m] # 0
    BY <1>1, WebAssumption DEF TypedInv
  <2> QED BY <2>1, <2>3, <2>4 DEF TypedInv
<1>5. ASSUME ~conflict' PROVE GridInv(version', page', requests', webJobs', ranking', drift')
  <2>1. r.kind = requests[s].kind /\ r.meme = requests[s].meme
    BY DEF SameRequest
  <2>2. GridInv(version, page, requests, webJobs, ranking, drift)
    BY <1>1, <1>5
  <2>3. GridInv(version', page, requests', webJobs', ranking', drift')
    <3>1. /\ r.meme \in Memes /\ webJobs'[r.meme] = "running" => Polls(r, r.meme)
          /\ RequestOK(r, version', page, webJobs', ranking', drift')
      BY <1>5
    <3>2. \A m \in Memes : m # r.meme => version'[m] = version[m] /\ webJobs'[m] = webJobs[m]
      OBVIOUS
    <3>3. \A m \in Memes : version[m] # 0 => version'[m] # 0
      OBVIOUS
    <3>4. /\ Weaker(page, ranking, drift, ranking', drift')
          /\ r.kind \notin Search /\ drift # "none" => drift' # "none"
      BY <1>5 DEF StaysRanked
    <3> QED BY <1>1, <1>2, <2>1, <2>2, <3>1, <3>2, <3>3, <3>4, ServedKeeps, Zenon
  <2> QED BY <2>3
<1> QED BY <1>3, <1>4, <1>5 DEF WebInv

\* A running job about the meme of a request is its own.
LEMMA RunningIsPolled ==
  ASSUME WebInv, ~conflict, NEW s \in Slots, requests[s].meme \in Memes,
         webJobs[requests[s].meme] = "running"
  PROVE  Polls(requests[s], requests[s].meme)
<1>1. PICK t \in Slots : Polls(requests[t], requests[s].meme)
  BY DEF WebInv, GridInv, Apart
<1>2. t = s
  BY <1>1 DEF WebInv, GridInv, Apart, Polls
<1> QED BY <1>1, <1>2

\* What is known of a request under way.
LEMMA RequestFacts ==
  ASSUME WebInv, NEW s \in Slots
  PROVE  /\ requests[s] \in WebRequest /\ RequestTyped(requests[s])
         /\ requests[s].kind \in Changing <=> requests[s].meme \in Memes
         /\ ~conflict => RequestOK(requests[s], version, page, webJobs, ranking, drift)
         /\ version \in [Memes -> Int] /\ webJobs \in [Memes -> JobState] /\ page \in WebPage
         /\ ranking \in [Memes -> Nat] /\ drift \in Drift
         /\ clicks \in Nat /\ mishaps \in Nat /\ conflict \in BOOLEAN
<1>1. requests[s] \in WebRequest /\ RequestTyped(requests[s])
  BY DEF WebInv, WebTypeOK, TypedInv
<1> QED BY <1>1, Kinds DEF WebInv, WebTypeOK, GridInv, JobState, Drift

\* The request after its answer.
LEMMA Responded ==
  ASSUME WebInv, NEW s \in Slots, NEW how, NEW data \in Grid, NEW next \in Nat,
         Respond(s, how, data, next)
  PROVE  \E r \in WebRequest :
           /\ requests' = [requests EXCEPT ![s] = r] /\ SameRequest(r, requests[s])
           /\ r.stage = requests[s].stage /\ r.polls = requests[s].polls
           /\ r.state = IF how = "ok" THEN "ok" ELSE "failed"
           /\ r.data = data /\ r.next = next
           /\ mishaps' \in Nat /\ conflict' \in BOOLEAN
           /\ ~conflict' => ~conflict /\ how # "lost"
<1> DEFINE r == [requests[s] EXCEPT !.state = IF how = "ok" THEN "ok" ELSE "failed",
                                    !.data = data, !.next = next]
<1>1. requests[s] \in WebRequest /\ mishaps \in Nat /\ conflict \in BOOLEAN
  BY RequestFacts
<1>2. requests' = [requests EXCEPT ![s] = r]
  BY DEF Respond
<1>3. r \in WebRequest /\ SameRequest(r, requests[s])
  <2>1. (IF how = "ok" THEN "ok" ELSE "failed") \in {"sent", "ok", "failed"}
    OBVIOUS
  <2>2. r \in WebRequest
    <3> DEFINE state == IF how = "ok" THEN "ok" ELSE "failed"
               x == [requests[s] EXCEPT !.state = state]
    <3>1. x \in WebRequest
      <4> HIDE DEF state
      <4> QED BY <1>1, <2>1 DEF WebRequest, state
    <3>2. r = [x EXCEPT !.data = data, !.next = next]
      BY <1>1 DEF WebRequest
    <3> HIDE DEF x, r
    <3> QED BY <3>1, <3>2 DEF WebRequest
  <2>3. SameRequest(r, requests[s])
    BY <1>1 DEF WebRequest, SameRequest
  <2> QED BY <2>2, <2>3
<1>4. /\ r.stage = requests[s].stage /\ r.polls = requests[s].polls
      /\ r.state = IF how = "ok" THEN "ok" ELSE "failed"
      /\ r.data = data /\ r.next = next
  BY <1>1 DEF WebRequest
<1>5. /\ mishaps' \in Nat /\ conflict' \in BOOLEAN
      /\ ~conflict' => ~conflict /\ how # "lost"
  <2>1. conflict' = (conflict \/ how = "lost")
    BY DEF Respond
  <2>2. mishaps' \in Nat
    BY <1>1 DEF Respond
  <2> QED BY <2>1, <2>2, Zenon
<1> HIDE DEF r
<1> QED BY <1>2, <1>3, <1>4, <1>5

\* A page of a search is answered with what it is.
LEMMA SearchMemesKeeps ==
  ASSUME WebInv, NEW s \in Slots, SearchMemes(s)
  PROVE  WebInv'
<1> DEFINE r0 == requests[s]
           Hits(k) == Newest(k, Found(version, k, r0.after))
<1>1. /\ r0 \in WebRequest /\ RequestTyped(r0) /\ r0.kind \in Search /\ r0.query \in Queries
      /\ version \in [Memes -> Int] /\ webJobs \in [Memes -> JobState]
      /\ ranking \in [Memes -> Nat] /\ drift \in Drift
      /\ ~conflict => RequestOK(r0, version, page, webJobs, ranking, drift)
  BY RequestFacts DEF SearchMemes, Awaits, RequestTyped
<1>2. UNCHANGED <<page, clicks, version, webJobs>>
  BY DEF SearchMemes
<1>3. ASSUME NEW how, NEW data \in Grid, NEW next \in Nat, Respond(s, how, data, next),
             StaysRanked(r0.kind), ~conflict /\ r0.kind = "load" => drift' = "none",
             how = "ok" => /\ ranking' \in Rankings[r0.query] /\ drift' # "reordered"
                           /\ data = CopiesOf(version, Hits(ranking'))
                           /\ next = NextPage(ranking', Hits(ranking'))
      PROVE  WebInv'
  <2>1. \E r \in WebRequest :
           /\ requests' = [requests EXCEPT ![s] = r] /\ SameRequest(r, requests[s])
           /\ r.stage = requests[s].stage /\ r.polls = requests[s].polls
           /\ r.state = IF how = "ok" THEN "ok" ELSE "failed"
           /\ r.data = data /\ r.next = next
           /\ mishaps' \in Nat /\ conflict' \in BOOLEAN
           /\ ~conflict' => ~conflict /\ how # "lost"
    BY <1>3, Responded
  <2>2. PICK r \in WebRequest :
           /\ requests' = [requests EXCEPT ![s] = r] /\ SameRequest(r, requests[s])
           /\ r.state = IF how = "ok" THEN "ok" ELSE "failed"
           /\ r.data = data /\ r.next = next
           /\ mishaps' \in Nat /\ conflict' \in BOOLEAN
           /\ ~conflict' => ~conflict
    BY <2>1, Zenon
  <2>3. RequestTyped(r) /\ r.kind # "none" /\ r.meme \notin Memes
    BY <1>1, <2>2, Kinds DEF RequestTyped, SameRequest, Search
  <2>4. r.state = "ok" => SearchAnswered(r, version, ranking') /\ drift' # "reordered"
    BY <1>3, <2>2 DEF SearchAnswered, SameRequest
  <2>5. ~conflict => RequestOK(r, version, page, webJobs, ranking', drift')
    <3> SUFFICES ASSUME ~conflict
                 PROVE  /\ r.kind = "load" => LoadOK(r, version, page, ranking', drift')
                        /\ r.kind = "more" => MoreOK(r, version, page, ranking', drift')
      BY <1>1, <2>2 DEF RequestOK, SameRequest, Search
    <3>1. /\ r0.kind = "load" => LoadOK(r0, version, page, ranking, drift)
          /\ r0.kind = "more" => MoreOK(r0, version, page, ranking, drift)
      BY <1>1 DEF RequestOK
    <3>2. r.kind = r0.kind /\ r.query = r0.query /\ r.after = r0.after /\ r.base = r0.base
      BY <2>2 DEF SameRequest
    <3> HIDE DEF r0
    <3> QED BY <1>3, <2>4, <3>1, <3>2 DEF LoadOK, MoreOK
  <2>6. StaysRanked(r.kind)
    BY <1>3, <2>2 DEF SameRequest
  <2> HIDE DEF r0
  <2> QED BY <1>1, <1>2, <2>2, <2>3, <2>5, <2>6, ServedInv
<1>4. CASE Respond(s, "refused", NothingShown, NoPage) /\ UNCHANGED <<ranking, drift>>
  <2>1. StaysRanked(r0.kind)
    BY <1>4, NotSearched
  <2>2. ~conflict /\ r0.kind = "load" => drift' = "none"
    BY <1>1, <1>4 DEF RequestOK, LoadOK
  <2>3. NothingShown \in Grid /\ NoPage \in Nat
    BY NothingInGrid DEF NoPage
  <2> HIDE DEF r0, Hits
  <2> QED BY <1>3, <1>4, <2>1, <2>2, <2>3
<1>5. CASE /\ ranking' \in IF r0.after # NoPage /\ Settled(r0) THEN {ranking} ELSE Rankings[r0.query]
           /\ LET found == SearchMeme(ranking', r0.after)
              IN Respond(s, "ok", Dtos(found), NextPage(ranking', found))
           /\ drift' = IF r0.after = NoPage \/ Settled(r0) THEN "none" ELSE "mixed"
  <2>1. ranking' \in Rankings[r0.query] /\ ranking' \in [Memes -> Nat]
    BY <1>1, <1>5, WebAssumption DEF Settled
  <2>2. StaysRanked(r0.kind)
    <3>1. drift' \in Drift
      BY <1>5 DEF Drift
    <3>2. ASSUME ~conflict PROVE Weaker(page, ranking, drift, ranking', drift')
      <4>1. /\ r0.after = NoPage => page.memes = NothingShown /\ page.next = NoPage /\ page.more = TRUE
        BY <1>1, <3>2 DEF RequestOK, LoadOK, MoreOK, Search
      <4>2. CASE r0.after = NoPage
        BY <4>1, <4>2 DEF Weaker
      <4>3. CASE r0.after # NoPage /\ Settled(r0)
        BY <1>5, <4>3 DEF Weaker, Settled
      <4>4. CASE r0.after # NoPage /\ ~Settled(r0)
        BY <1>5, <4>4 DEF Weaker
      <4> QED BY <4>2, <4>3, <4>4
    <3> QED BY <1>1, <2>1, <3>1, <3>2 DEF StaysRanked
  <2>3. ~conflict /\ r0.kind = "load" => drift' = "none"
    BY <1>1, <1>5 DEF RequestOK, LoadOK
  <2>4. drift' # "reordered"
    BY <1>5
  <2>5. PICK k \in [Memes -> Nat] :
          ranking' = k /\ Respond(s, "ok", Dtos(SearchMeme(k, r0.after)), NextPage(k, SearchMeme(k, r0.after)))
    BY <1>5, <2>1
  <2>6. SearchMeme(k, r0.after) = Hits(k) /\ Dtos(Hits(k)) = CopiesOf(version, Hits(k))
    <3>1. Dtos(Hits(k)) = CopiesOf(version', Hits(k)) /\ version' = version
      BY <1>2, DtosAreCopies
    <3> QED BY <3>1, SearchIsNewest
  <2>7. /\ CopiesOf(version, Hits(k)) \in Grid /\ NextPage(k, Hits(k)) \in Nat
    <3>1. Hits(k) \subseteq Found(version, k, r0.after) /\ Hits(k) \subseteq Memes
      BY FoundIsFinite
    <3>2. \A m \in Hits(k) : k[m] > 0
      BY <3>1 DEF Found
    <3> HIDE DEF Hits
    <3> QED BY <1>1, <3>1, <3>2, CopiesInGrid, NextIsLast
  <2> HIDE DEF r0, Hits
  <2>8. Respond(s, "ok", CopiesOf(version, Hits(k)), NextPage(k, Hits(k)))
    BY <2>5, <2>6
  <2> QED BY <1>3, <2>1, <2>2, <2>3, <2>4, <2>5, <2>7, <2>8
<1> QED BY <1>4, <1>5 DEF SearchMemes

\* The first two requests of an upload change nothing.
LEMMA NextStageKeeps ==
  ASSUME WebInv, NEW s \in Slots, Awaits(s, "upload"), requests[s].stage \in 1 .. 2, NextStage(s)
  PROVE  WebInv'
<1> DEFINE r0 == requests[s]
<1>1. /\ r0 \in WebRequest /\ RequestTyped(r0) /\ r0.kind = "upload"
      /\ r0.state = "sent" /\ r0.meme \in Memes
      /\ version \in [Memes -> Int] /\ webJobs \in [Memes -> JobState]
      /\ ~conflict => RequestOK(r0, version, page, webJobs, ranking, drift)
      /\ mishaps \in Nat /\ conflict \in BOOLEAN
  BY RequestFacts DEF Awaits, Changing
<1>2. /\ UNCHANGED <<page, clicks, version, webJobs, ranking, drift>>
      /\ \E how \in Outcomes \ {"lost"} :
           IF how = "ok" THEN /\ requests' = [requests EXCEPT ![s].stage = @ + 1]
                              /\ UNCHANGED <<mishaps, conflict>>
           ELSE Respond(s, how, NothingShown, NoPage)
  BY DEF NextStage
<1>3. PICK r \in WebRequest :
           /\ requests' = [requests EXCEPT ![s] = r] /\ SameRequest(r, requests[s])
           /\ r.state # "ok" /\ mishaps' \in Nat /\ conflict' \in BOOLEAN
           /\ ~conflict' => ~conflict
  <2>1. PICK how \in Outcomes \ {"lost"} :
           IF how = "ok" THEN /\ requests' = [requests EXCEPT ![s].stage = @ + 1]
                              /\ UNCHANGED <<mishaps, conflict>>
           ELSE Respond(s, how, NothingShown, NoPage)
    BY <1>2
  <2>2. CASE how = "ok"
    <3> DEFINE r == [requests[s] EXCEPT !.stage = @ + 1]
    <3>1. requests' = [requests EXCEPT ![s] = r] /\ UNCHANGED <<mishaps, conflict>>
      BY <2>1, <2>2
    <3>2. r \in WebRequest /\ SameRequest(r, requests[s]) /\ r.state # "ok"
      BY <1>1 DEF WebRequest, SameRequest
    <3> HIDE DEF r
    <3> QED BY <1>1, <3>1, <3>2
  <2>3. CASE how # "ok"
    <3>1. Respond(s, how, NothingShown, NoPage) /\ NoPage \in Nat
      BY <2>1, <2>3 DEF NoPage
    <3>2. \E r \in WebRequest :
             /\ requests' = [requests EXCEPT ![s] = r] /\ SameRequest(r, requests[s])
             /\ r.stage = requests[s].stage /\ r.polls = requests[s].polls
             /\ r.state = IF how = "ok" THEN "ok" ELSE "failed"
             /\ r.data = NothingShown /\ r.next = NoPage
             /\ mishaps' \in Nat /\ conflict' \in BOOLEAN
             /\ ~conflict' => ~conflict /\ how # "lost"
      BY <3>1, NothingInGrid, Responded
    <3> HIDE DEF r0
    <3> QED BY <2>3, <3>2
  <2> QED BY <2>2, <2>3
<1>4. RequestTyped(r) /\ r.kind # "none"
  BY <1>1, <1>3 DEF RequestTyped, SameRequest, Search, Changing
<1>5. ~conflict => RequestOK(r, version, page, webJobs, ranking, drift)
  BY <1>1, <1>3 DEF RequestOK, SameRequest, UploadOK
<1>7. StaysRanked(r.kind)
  BY <1>2, NotSearched
<1>6. ~conflict => webJobs[r.meme] # "running"
  BY <1>1, <1>3, RunningIsPolled DEF SameRequest, Polls
<1> QED
  <2> HIDE DEF r0
  <2> QED BY <1>1, <1>2, <1>3, <1>4, <1>5, <1>6, <1>7, ServedInv

\* The last one creates the meme.
LEMMA ParseByTokenKeeps ==
  ASSUME WebInv, NEW s \in Slots, ParseByToken(s)
  PROVE  WebInv'
<1> DEFINE r0 == requests[s]
           m == r0.meme
<1>1. /\ r0 \in WebRequest /\ RequestTyped(r0) /\ r0.kind = "upload"
      /\ r0.state = "sent" /\ m \in Memes
      /\ version \in [Memes -> Int] /\ webJobs \in [Memes -> JobState]
      /\ ~conflict => RequestOK(r0, version, page, webJobs, ranking, drift)
  BY RequestFacts DEF ParseByToken, Awaits, Changing
<1>2. PICK how \in Outcomes, new \in BOOLEAN :
        /\ how = "refused" => ~new
        /\ Create(m, new)
        /\ Respond(s, how, IF new THEN Dtos({m}) ELSE NothingShown, NoPage)
  BY DEF ParseByToken
<1>3. UNCHANGED <<page, clicks, webJobs>>
  BY DEF ParseByToken
<1>4. /\ version' \in [Memes -> Int] /\ \A k \in Memes : k # m => version'[k] = version[k]
      /\ \A k \in Memes : version[k] # 0 => version'[k] # 0
      /\ IF new THEN version'[m] = 1 ELSE version'[m] = version[m]
  BY <1>1, <1>2 DEF Create
<1> DEFINE data == IF new THEN CopyOf(m, version'[m]) ELSE NothingShown
<1>5. data \in Grid /\ Respond(s, how, data, NoPage)
  <2>1. Dtos({m}) = CopyOf(m, version'[m])
    BY <1>1, DtoIsCopy
  <2> QED BY <1>1, <1>2, <1>4, <2>1, CopyInGrid, NothingInGrid
<1>6. PICK r \in WebRequest :
           /\ requests' = [requests EXCEPT ![s] = r] /\ SameRequest(r, requests[s])
           /\ r.state = IF how = "ok" THEN "ok" ELSE "failed"
           /\ r.data = data
           /\ mishaps' \in Nat /\ conflict' \in BOOLEAN
           /\ ~conflict' => ~conflict /\ how # "lost"
  <2> HIDE DEF data
  <2>1. NoPage \in Nat
    BY DEF NoPage
  <2>2. \E r \in WebRequest :
           /\ requests' = [requests EXCEPT ![s] = r] /\ SameRequest(r, requests[s])
           /\ r.stage = requests[s].stage /\ r.polls = requests[s].polls
           /\ r.state = IF how = "ok" THEN "ok" ELSE "failed"
           /\ r.data = data /\ r.next = NoPage
           /\ mishaps' \in Nat /\ conflict' \in BOOLEAN
           /\ ~conflict' => ~conflict /\ how # "lost"
    BY <1>5, <2>1, Responded
  <2> QED BY <2>2, Zenon
<1>7. RequestTyped(r) /\ r.kind # "none"
  BY <1>1, <1>6 DEF RequestTyped, SameRequest, Search, Changing
<1>8. ~conflict' => RequestOK(r, version', page, webJobs, ranking', drift')
  <2> SUFFICES ASSUME ~conflict' PROVE UploadOK(r, version', page, drift')
    BY <1>1, <1>6 DEF RequestOK, SameRequest
  <2>1. UploadOK(r0, version, page, drift) /\ r.meme = m /\ version[m] = 0 /\ page.memes[m] = <<>>
        /\ (page.query \in ByCreation => page.next < m) /\ m \notin Old
    BY <1>1, <1>6 DEF RequestOK, UploadOK, SameRequest
  <2>2. CopyOf(m, version'[m])[m] # <<>> /\ NothingShown[m] = <<>>
    <3>1. CopyOf(m, version'[m])[m] = <<version'[m]>> /\ NothingShown[m] = <<>>
      BY <1>1 DEF CopyOf, NothingShown
    <3> QED BY <3>1
  <2>3. how \in {"ok", "refused"}
    BY <1>6 DEF Outcomes
  <2>4. CASE new
    <3>1. /\ version'[m] = 1 /\ how = "ok" /\ r.state = "ok"
          /\ r.data = CopyOf(m, version'[m]) /\ r.data[m] # <<>>
      BY <1>2, <1>4, <1>6, <2>2, <2>3, <2>4
    <3>2. page.query \in ByCreation \/ drift' # "none"
      <4>1. version' # version
        BY <2>1, <3>1
      <4>2. drift' = IF version' # version /\ drift = "none" /\ page.query \notin ByCreation
                     THEN "reordered" ELSE drift
        BY DEF ParseByToken, Reindexed
      <4> QED BY <4>1, <4>2
    <3> QED BY <2>1, <3>1, <3>2 DEF UploadOK
  <2>5. CASE ~new
    <3>1. version'[m] = 0 /\ r.data = NothingShown /\ r.data[m] = <<>>
      BY <1>4, <1>6, <2>1, <2>2, <2>5
    <3> QED BY <2>1, <3>1 DEF UploadOK
  <2> QED BY <2>4, <2>5
<1>9. ~conflict => webJobs[r.meme] # "running"
  BY <1>1, <1>6, RunningIsPolled DEF SameRequest, Polls
<1>11. StaysRanked(r.kind)
  BY NotSearched DEF ParseByToken
<1>10. r.meme = m
  BY <1>6 DEF SameRequest
<1> QED
  <2> HIDE DEF r0, m, data
  <2> QED BY <1>1, <1>3, <1>4, <1>6, <1>7, <1>8, <1>9, <1>10, <1>11, ServedInv

\* An update or deletion that is served.
LEMMA Changed ==
  ASSUME WebInv, NEW s \in Slots, requests[s].meme \in Memes, NEW changed \in Int, changed # 0,
         Change(s, changed)
  PROVE  \E how \in {"ok", "refused", "lost"}, r \in WebRequest :
           /\ requests' = [requests EXCEPT ![s] = r] /\ SameRequest(r, requests[s])
           /\ r.state = IF how = "ok" THEN "ok" ELSE "failed"
           /\ r.data = CopyOf(requests[s].meme, version'[requests[s].meme])
           /\ mishaps' \in Nat /\ conflict' \in BOOLEAN
           /\ ~conflict' => ~conflict /\ how # "lost"
           /\ UNCHANGED <<webJobs, page, clicks>> /\ \A kind : StaysRanked(kind)
           /\ version' \in [Memes -> Int]
           /\ \A k \in Memes : k # requests[s].meme => version'[k] = version[k]
           /\ \A k \in Memes : version[k] # 0 => version'[k] # 0
           /\ version'[requests[s].meme] = IF how = "refused" THEN version[requests[s].meme] ELSE changed
<1> DEFINE m == requests[s].meme
<1>1. version \in [Memes -> Int] /\ UNCHANGED <<webJobs, page, clicks>>
  BY RequestFacts DEF Change
<1>7. \A kind : StaysRanked(kind)
  BY NotSearched DEF Change
<1>2. PICK how \in {"ok", "refused", "lost"} :
        /\ version' = IF how = "refused" THEN version ELSE [version EXCEPT ![m] = changed]
        /\ Respond(s, how, Dtos({m}), NoPage)
  BY DEF Change, Outcomes
<1>3. /\ version' \in [Memes -> Int]
      /\ \A k \in Memes : k # m => version'[k] = version[k]
      /\ \A k \in Memes : version[k] # 0 => version'[k] # 0
      /\ version'[m] = IF how = "refused" THEN version[m] ELSE changed
  BY <1>1, <1>2
<1> DEFINE data == CopyOf(m, version'[m])
<1>4. data \in Grid /\ Respond(s, how, data, NoPage)
  <2>1. Dtos({m}) = data
    BY DtoIsCopy
  <2> QED BY <1>2, <1>3, <2>1, CopyInGrid
<1>5. PICK r \in WebRequest :
           /\ requests' = [requests EXCEPT ![s] = r] /\ SameRequest(r, requests[s])
           /\ r.state = IF how = "ok" THEN "ok" ELSE "failed"
           /\ r.data = data
           /\ mishaps' \in Nat /\ conflict' \in BOOLEAN
           /\ ~conflict' => ~conflict /\ how # "lost"
  <2> HIDE DEF data
  <2>1. NoPage \in Nat
    BY DEF NoPage
  <2>2. \E r \in WebRequest :
           /\ requests' = [requests EXCEPT ![s] = r] /\ SameRequest(r, requests[s])
           /\ r.stage = requests[s].stage /\ r.polls = requests[s].polls
           /\ r.state = IF how = "ok" THEN "ok" ELSE "failed"
           /\ r.data = data /\ r.next = NoPage
           /\ mishaps' \in Nat /\ conflict' \in BOOLEAN
           /\ ~conflict' => ~conflict /\ how # "lost"
    BY <1>4, <2>1, Responded
  <2> QED BY <2>2, Zenon
<1> WITNESS how \in {"ok", "refused", "lost"}, r \in WebRequest
<1>6. /\ requests' = [requests EXCEPT ![s] = r] /\ SameRequest(r, requests[s])
      /\ r.state = IF how = "ok" THEN "ok" ELSE "failed"
      /\ r.data = CopyOf(requests[s].meme, version'[requests[s].meme])
      /\ mishaps' \in Nat /\ conflict' \in BOOLEAN
      /\ ~conflict' => ~conflict /\ how # "lost"
  BY <1>5, Zenon
<1> QED BY <1>1, <1>3, <1>6, <1>7, Zenon

\* A copy shows its meme.
LEMMA CopyShows ==
  ASSUME NEW m \in Memes, NEW x
  PROVE  CopyOf(m, x)[m] = <<x>> /\ CopyOf(m, x)[m] # <<>> /\ CopyOf(m, x)[m][1] = x
<1>1. CopyOf(m, x)[m] = <<x>>
  BY DEF CopyOf
<1> QED BY <1>1

\* An edit that is answered is stored as the answer says.
LEMMA ServeUpdateKeeps ==
  ASSUME WebInv, NEW s \in Slots, ServeUpdate(s)
  PROVE  WebInv'
<1> DEFINE r0 == requests[s]
           m == r0.meme
<1>1. /\ r0 \in WebRequest /\ RequestTyped(r0) /\ r0.kind = "update"
      /\ r0.state = "sent" /\ m \in Memes
      /\ version \in [Memes -> Int] /\ webJobs \in [Memes -> JobState]
      /\ ~conflict => RequestOK(r0, version, page, webJobs, ranking, drift)
  BY RequestFacts DEF ServeUpdate, Awaits, Changing
<1>2. version[m] + 1 # 0 \/ ~Stored(m)
  BY <1>1 DEF Stored
<1>3. PICK how \in {"ok", "refused", "lost"}, r \in WebRequest :
           /\ requests' = [requests EXCEPT ![s] = r] /\ SameRequest(r, requests[s])
           /\ r.state = IF how = "ok" THEN "ok" ELSE "failed"
           /\ r.data = CopyOf(m, version'[m])
           /\ mishaps' \in Nat /\ conflict' \in BOOLEAN
           /\ ~conflict' => ~conflict /\ how # "lost"
           /\ UNCHANGED <<webJobs, page, clicks>> /\ \A kind : StaysRanked(kind)
           /\ version' \in [Memes -> Int]
           /\ \A k \in Memes : k # m => version'[k] = version[k]
           /\ \A k \in Memes : version[k] # 0 => version'[k] # 0
           /\ version'[m] = version[m] \/ version'[m] = version[m] + 1
           /\ how = "refused" => version'[m] = version[m]
  <2>1. CASE Stored(m)
    <3> DEFINE changed == version[m] + 1
    <3>1. changed \in Int /\ changed # 0 /\ Change(s, changed)
      BY <1>1, <1>2, <2>1 DEF ServeUpdate
    <3> HIDE DEF changed
    <3>2. PICK how \in {"ok", "refused", "lost"}, r \in WebRequest :
           /\ requests' = [requests EXCEPT ![s] = r] /\ SameRequest(r, requests[s])
           /\ r.state = IF how = "ok" THEN "ok" ELSE "failed"
           /\ r.data = CopyOf(m, version'[m])
           /\ mishaps' \in Nat /\ conflict' \in BOOLEAN
           /\ ~conflict' => ~conflict /\ how # "lost"
           /\ UNCHANGED <<webJobs, page, clicks>> /\ \A kind : StaysRanked(kind)
           /\ version' \in [Memes -> Int]
           /\ \A k \in Memes : k # m => version'[k] = version[k]
           /\ \A k \in Memes : version[k] # 0 => version'[k] # 0
           /\ version'[m] = IF how = "refused" THEN version[m] ELSE changed
      BY <1>1, <3>1, Changed
    <3>3. version'[m] = version[m] \/ version'[m] = version[m] + 1
      BY <3>2 DEF changed
    <3>4. how = "refused" => version'[m] = version[m]
      BY <3>2
    <3> QED BY <3>2, <3>3, <3>4
  <2>2. CASE ~Stored(m)
    <3>1. Change(s, version[m] + 1)
      BY DEF ServeUpdate
    <3>2. version' = version /\ Change(s, 1)
      BY <2>2, <3>1 DEF Change
    <3>3. PICK how \in {"ok", "refused", "lost"}, r \in WebRequest :
           /\ requests' = [requests EXCEPT ![s] = r] /\ SameRequest(r, requests[s])
           /\ r.state = IF how = "ok" THEN "ok" ELSE "failed"
           /\ r.data = CopyOf(m, version'[m])
           /\ mishaps' \in Nat /\ conflict' \in BOOLEAN
           /\ ~conflict' => ~conflict /\ how # "lost"
           /\ UNCHANGED <<webJobs, page, clicks>> /\ \A kind : StaysRanked(kind)
      BY <1>1, <3>2, Changed
    <3> QED BY <1>1, <3>2, <3>3
  <2> QED BY <2>1, <2>2
<1>4. r.kind = "update" /\ r.meme = m /\ RequestTyped(r) /\ r.kind # "none"
  BY <1>1, <1>3, CopyShows DEF RequestTyped, SameRequest, Search, Changing
<1>5. ~conflict' => RequestOK(r, version', page, webJobs, ranking', drift')
  <2> SUFFICES ASSUME ~conflict' PROVE UpdateOK(r, version', page)
    BY <1>4 DEF RequestOK
  <2>1. UpdateOK(r0, version, page) /\ Fresh(m, version, page) /\ version[m] > 0
    BY <1>1, <1>3 DEF RequestOK, UpdateOK
  <2>2. version'[m] > 0
    BY <1>1, <1>3, <2>1
  <2>3. CASE how = "ok"
    BY <1>3, <1>4, <2>1, <2>2, <2>3 DEF UpdateOK
  <2>4. CASE how = "refused"
    <3>1. version'[m] = version[m] /\ r.state = "failed"
      BY <1>3, <2>4
    <3> QED BY <1>4, <2>1, <3>1 DEF UpdateOK, Fresh
  <2> QED BY <1>3, <2>3, <2>4
<1>6. ~conflict => webJobs[r.meme] # "running"
  BY <1>1, <1>4, RunningIsPolled DEF Polls
<1> QED
  <2> HIDE DEF r0, m
  <2> QED BY <1>1, <1>3, <1>4, <1>5, <1>6, ServedInv

\* A deletion that is answered has removed the meme.
LEMMA ServeDeleteKeeps ==
  ASSUME WebInv, NEW s \in Slots, ServeDelete(s)
  PROVE  WebInv'
<1> DEFINE r0 == requests[s]
           m == r0.meme
<1>1. /\ r0 \in WebRequest /\ RequestTyped(r0) /\ r0.kind = "delete"
      /\ r0.state = "sent" /\ m \in Memes
      /\ version \in [Memes -> Int] /\ webJobs \in [Memes -> JobState]
      /\ ~conflict => RequestOK(r0, version, page, webJobs, ranking, drift)
      /\ Change(s, -1)
  BY RequestFacts DEF ServeDelete, Awaits, Changing
<1>2. PICK how \in {"ok", "refused", "lost"}, r \in WebRequest :
           /\ requests' = [requests EXCEPT ![s] = r] /\ SameRequest(r, requests[s])
           /\ r.state = IF how = "ok" THEN "ok" ELSE "failed"
           /\ mishaps' \in Nat /\ conflict' \in BOOLEAN
           /\ ~conflict' => ~conflict /\ how # "lost"
           /\ UNCHANGED <<webJobs, page, clicks>> /\ \A kind : StaysRanked(kind)
           /\ version' \in [Memes -> Int]
           /\ \A k \in Memes : k # m => version'[k] = version[k]
           /\ \A k \in Memes : version[k] # 0 => version'[k] # 0
           /\ version'[m] = IF how = "refused" THEN version[m] ELSE -1
  <2>1. -1 \in Int /\ -1 # 0
    OBVIOUS
  <2> QED BY <1>1, <2>1, Changed
<1>3. r.kind = "delete" /\ r.meme = m /\ RequestTyped(r) /\ r.kind # "none"
  BY <1>1, <1>2 DEF RequestTyped, SameRequest, Search, Changing
<1>4. ~conflict' => RequestOK(r, version', page, webJobs, ranking', drift')
  <2> SUFFICES ASSUME ~conflict' PROVE DeleteOK(r, version', page)
    BY <1>3 DEF RequestOK
  <2>1. Fresh(m, version, page)
    BY <1>1, <1>2 DEF RequestOK, DeleteOK
  <2>2. how = "ok" \/ how = "refused"
    BY <1>2
  <2> QED BY <1>1, <1>2, <1>3, <2>1, <2>2 DEF DeleteOK, Fresh, RequestOK
<1>5. ~conflict => webJobs[r.meme] # "running"
  BY <1>1, <1>3, RunningIsPolled DEF Polls
<1> QED
  <2> HIDE DEF r0, m
  <2> QED BY <1>1, <1>2, <1>3, <1>4, <1>5, ServedInv

\* A recompute starts its job.
LEMMA StartRecomputeKeeps ==
  ASSUME WebInv, NEW s \in Slots, StartRecomputeJobById(s)
  PROVE  WebInv'
<1> DEFINE r0 == requests[s]
           m == r0.meme
<1>1. /\ r0 \in WebRequest /\ RequestTyped(r0) /\ r0.kind = "recompute"
      /\ r0.state = "sent" /\ m \in Memes
      /\ r0.stage = 1
      /\ version \in [Memes -> Int] /\ webJobs \in [Memes -> JobState]
      /\ ~conflict => RequestOK(r0, version, page, webJobs, ranking, drift)
      /\ mishaps \in Nat /\ conflict \in BOOLEAN
  BY RequestFacts DEF StartRecomputeJobById, Awaits, Changing
<1>2. UNCHANGED <<version, page, clicks, ranking, drift>> /\ \A kind : StaysRanked(kind)
  BY NotSearched DEF StartRecomputeJobById
<1>3. PICK how \in {"ok", "refused", "lost"} :
        /\ webJobs' = IF how = "refused" THEN webJobs ELSE [webJobs EXCEPT ![m] = "running"]
        /\ IF how = "ok" THEN /\ requests' = [requests EXCEPT ![s].stage = 2]
                              /\ UNCHANGED <<mishaps, conflict>>
           ELSE Respond(s, how, NothingShown, NoPage)
  BY DEF StartRecomputeJobById, Outcomes
<1>4. /\ webJobs' \in [Memes -> JobState]
      /\ \A k \in Memes : k # m => webJobs'[k] = webJobs[k]
      /\ how # "refused" => webJobs'[m] = "running"
  BY <1>1, <1>3 DEF JobState
<1>5. CASE how = "ok"
  <2> DEFINE r == [requests[s] EXCEPT !.stage = 2]
  <2>1. requests' = [requests EXCEPT ![s] = r] /\ UNCHANGED <<mishaps, conflict>>
    BY <1>3, <1>5
  <2>2. /\ r \in WebRequest /\ SameRequest(r, requests[s]) /\ r.stage = 2 /\ r.state = "sent"
        /\ r.kind = "recompute" /\ r.meme = m
    BY <1>1 DEF WebRequest, SameRequest
  <2> HIDE DEF r
  <2>3. RequestTyped(r) /\ Polls(r, r.meme)
    BY <1>1, <2>2 DEF RequestTyped, Changing, Search, Polls
  <2>4. ~conflict => RequestOK(r, version, page, webJobs', ranking, drift)
    BY <1>1, <2>2 DEF RequestOK, RecomputeOK
  <2> HIDE DEF r0, m
  <2> QED BY <1>1, <1>2, <1>4, <2>1, <2>2, <2>3, <2>4, ServedInv
<1>6. CASE how # "ok"
  <2>1. PICK r \in WebRequest :
           /\ requests' = [requests EXCEPT ![s] = r] /\ SameRequest(r, requests[s])
           /\ r.stage = requests[s].stage
           /\ r.state = "failed"
           /\ mishaps' \in Nat /\ conflict' \in BOOLEAN
           /\ ~conflict' => ~conflict /\ how # "lost"
    <3>1. Respond(s, how, NothingShown, NoPage) /\ NoPage \in Nat
      BY <1>3, <1>6 DEF NoPage
    <3> HIDE DEF r0, m
    <3>2. \E r \in WebRequest :
             /\ requests' = [requests EXCEPT ![s] = r] /\ SameRequest(r, requests[s])
             /\ r.stage = requests[s].stage /\ r.polls = requests[s].polls
             /\ r.state = IF how = "ok" THEN "ok" ELSE "failed"
             /\ r.data = NothingShown /\ r.next = NoPage
             /\ mishaps' \in Nat /\ conflict' \in BOOLEAN
             /\ ~conflict' => ~conflict /\ how # "lost"
      BY <3>1, NothingInGrid, Responded, SMTT(60)
    <3> QED BY <1>6, <3>2
  <2>2. r.kind = "recompute" /\ r.meme = m /\ RequestTyped(r)
    BY <1>1, <2>1 DEF RequestTyped, SameRequest, Search, Changing
  <2>3. ~conflict' => webJobs' = webJobs
    BY <1>3, <1>6, <2>1
  <2>4. ~conflict' => RequestOK(r, version, page, webJobs, ranking, drift)
    BY <1>1, <2>1, <2>2 DEF RequestOK, RecomputeOK
  <2>5. ~conflict => webJobs[r.meme] # "running"
    BY <1>1, <2>2, RunningIsPolled DEF Polls
  <2> HIDE DEF r0, m
  <2> QED BY <1>1, <1>2, <1>4, <2>1, <2>2, <2>3, <2>4, <2>5, ServedInv
<1> QED BY <1>5, <1>6

\* A poll that goes on loses nothing, and one that gives up a running job is in conflict.
LEMMA PollRecomputeKeeps ==
  ASSUME WebInv, NEW s \in Slots, PollRecompute(s)
  PROVE  WebInv'
<1> DEFINE r0 == requests[s]
           m == r0.meme
<1>1. /\ r0 \in WebRequest /\ RequestTyped(r0) /\ r0.kind = "recompute"
      /\ r0.state = "sent" /\ m \in Memes
      /\ r0.stage = 2
      /\ version \in [Memes -> Int] /\ webJobs \in [Memes -> JobState]
      /\ ~conflict => RequestOK(r0, version, page, webJobs, ranking, drift)
      /\ mishaps \in Nat /\ conflict \in BOOLEAN /\ MaxPolls \in Nat
  BY RequestFacts, WebAssumption DEF PollRecompute, Awaits, Changing
<1>2. UNCHANGED <<version, page, clicks, webJobs, ranking, drift>> /\ \A kind : StaysRanked(kind)
  BY NotSearched DEF PollRecompute
<1>3. PICK r \in WebRequest :
           /\ requests' = [requests EXCEPT ![s] = r] /\ SameRequest(r, requests[s])
           /\ mishaps' \in Nat /\ conflict' \in BOOLEAN /\ r.state # "ok"
           /\ ~conflict' => /\ ~conflict
                            /\ \/ r.stage = 3 /\ r.state = "sent" /\ webJobs[m] = "done"
                               \/ r.stage = 2 /\ r.state = "sent"
                               \/ r.stage = 2 /\ r.state = "failed" /\ webJobs[m] = "failed"
  <2>1. ASSUME NEW r \in WebRequest, requests' = [requests EXCEPT ![s] = r], SameRequest(r, requests[s]),
               UNCHANGED mishaps, r.state # "ok",
               \/ r.stage = 3 /\ r.state = "sent" /\ webJobs[m] = "done" /\ UNCHANGED conflict
               \/ r.stage = 2 /\ r.state = "sent" /\ UNCHANGED conflict
               \/ r.stage = 2 /\ r.state = "failed" /\ webJobs[m] = "failed" /\ UNCHANGED conflict
               \/ conflict' = TRUE
        PROVE  \E x \in WebRequest :
                 /\ requests' = [requests EXCEPT ![s] = x] /\ SameRequest(x, requests[s])
                 /\ mishaps' \in Nat /\ conflict' \in BOOLEAN /\ x.state # "ok"
                 /\ ~conflict' => /\ ~conflict
                                  /\ \/ x.stage = 3 /\ x.state = "sent" /\ webJobs[m] = "done"
                                     \/ x.stage = 2 /\ x.state = "sent"
                                     \/ x.stage = 2 /\ x.state = "failed" /\ webJobs[m] = "failed"
    <3>1. conflict' \in BOOLEAN
      BY <1>1, <2>1, Zenon
    <3>2. ~conflict' => /\ ~conflict
                        /\ \/ r.stage = 3 /\ r.state = "sent" /\ webJobs[m] = "done"
                           \/ r.stage = 2 /\ r.state = "sent"
                           \/ r.stage = 2 /\ r.state = "failed" /\ webJobs[m] = "failed"
      BY <2>1, Zenon
    <3>3. mishaps' \in Nat
      BY <1>1, <2>1
    <3> HIDE DEF r0, m
    <3> QED BY <2>1, <3>1, <3>2, <3>3, Zenon
  <2>2. CASE /\ webJobs[m] = "done" /\ requests' = [requests EXCEPT ![s].stage = 3]
             /\ UNCHANGED <<mishaps, conflict>>
    <3> DEFINE r == [requests[s] EXCEPT !.stage = 3]
    <3>1. r \in WebRequest /\ SameRequest(r, requests[s]) /\ r.stage = 3 /\ r.state = "sent"
      BY <1>1 DEF WebRequest, SameRequest
    <3>2. requests' = [requests EXCEPT ![s] = r]
      BY <2>2
    <3> HIDE DEF r
    <3> QED BY <2>1, <2>2, <3>1, <3>2
  <2>3. CASE /\ requests' = [requests EXCEPT ![s].polls = IF @ < MaxPolls THEN @ + 1 ELSE @]
             /\ UNCHANGED <<mishaps, conflict>>
    <3> DEFINE r == [requests[s] EXCEPT !.polls = IF @ < MaxPolls THEN @ + 1 ELSE @]
    <3>1. r \in WebRequest /\ SameRequest(r, requests[s]) /\ r.stage = 2 /\ r.state = "sent"
      BY <1>1 DEF WebRequest, SameRequest
    <3>2. requests' = [requests EXCEPT ![s] = r]
      BY <2>3
    <3> HIDE DEF r
    <3> QED BY <2>1, <2>3, <3>1, <3>2
  <2>4. CASE /\ requests' = [requests EXCEPT ![s].state = "failed"] /\ UNCHANGED mishaps
             /\ (webJobs[m] = "failed" /\ UNCHANGED conflict) \/ conflict' = TRUE
    <3> DEFINE r == [requests[s] EXCEPT !.state = "failed"]
    <3>1. r \in WebRequest /\ SameRequest(r, requests[s]) /\ r.stage = 2 /\ r.state = "failed"
      BY <1>1 DEF WebRequest, SameRequest
    <3>2. requests' = [requests EXCEPT ![s] = r]
      BY <2>4
    <3> HIDE DEF r
    <3> QED BY <2>1, <2>4, <3>1, <3>2
  <2>5. CASE Respond(s, "lost", NothingShown, NoPage)
    <3>1. \E r \in WebRequest :
             /\ requests' = [requests EXCEPT ![s] = r] /\ SameRequest(r, requests[s])
             /\ r.stage = requests[s].stage /\ r.polls = requests[s].polls
             /\ r.state = IF "lost" = "ok" THEN "ok" ELSE "failed"
             /\ r.data = NothingShown /\ r.next = NoPage
             /\ mishaps' \in Nat /\ conflict' \in BOOLEAN
             /\ ~conflict' => ~conflict /\ "lost" # "lost"
      <4>1. NoPage \in Nat
        BY DEF NoPage
      <4> QED BY <2>5, <4>1, NothingInGrid, Responded
    <3> HIDE DEF r0, m
    <3> QED BY <3>1
  <2> QED BY <2>2, <2>3, <2>4, <2>5 DEF PollRecompute
<1>4. r.kind = "recompute" /\ r.meme = m /\ RequestTyped(r)
  BY <1>1, <1>3 DEF RequestTyped, SameRequest, Search, Changing
<1>5. ~conflict' => RequestOK(r, version, page, webJobs, ranking, drift)
  <2> SUFFICES ASSUME ~conflict' PROVE RecomputeOK(r, version, page, webJobs)
    BY <1>4 DEF RequestOK
  <2>1. RecomputeOK(r0, version, page, webJobs)
    BY <1>1, <1>3 DEF RequestOK
  <2> QED BY <1>1, <1>3, <1>4, <2>1 DEF RecomputeOK
<1>6. ~conflict' => ~conflict /\ (webJobs[m] = "running" => Polls(r, m))
  BY <1>3, <1>4 DEF Polls
<1> QED
  <2> HIDE DEF r0, m
  <2> QED BY <1>1, <1>2, <1>3, <1>4, <1>5, <1>6, ServedInv

\* The recomputed meme is answered as it is stored.
LEMMA GetRecomputedKeeps ==
  ASSUME WebInv, NEW s \in Slots, GetRecomputed(s)
  PROVE  WebInv'
<1> DEFINE r0 == requests[s]
           m == r0.meme
<1>1. /\ r0 \in WebRequest /\ RequestTyped(r0) /\ r0.kind = "recompute"
      /\ r0.state = "sent" /\ m \in Memes
      /\ r0.stage = 3
      /\ version \in [Memes -> Int] /\ webJobs \in [Memes -> JobState]
      /\ ~conflict => RequestOK(r0, version, page, webJobs, ranking, drift)
      /\ mishaps \in Nat /\ conflict \in BOOLEAN
  BY RequestFacts DEF GetRecomputed, Awaits, Changing
<1>2. UNCHANGED <<version, page, clicks, webJobs, ranking, drift>> /\ \A kind : StaysRanked(kind)
  BY NotSearched DEF GetRecomputed
<1>3. PICK read \in BOOLEAN :
        /\ requests' = [requests EXCEPT ![s].state = IF read THEN "ok" ELSE "failed",
                                        ![s].data = Dtos({m})]
        /\ mishaps' = mishaps \/ mishaps' = mishaps + 1
        /\ conflict' = (conflict \/ ~read)
  <2>1. PICK how \in Outcomes :
          LET read == how = "ok" /\ Stored(m) /\ InTime(r0.polls) IN
            /\ requests' = [requests EXCEPT ![s].state = IF read THEN "ok" ELSE "failed",
                                            ![s].data = Dtos({m})]
            /\ mishaps' = IF how = "ok" THEN mishaps ELSE mishaps + 1
            /\ conflict' = (conflict \/ ~read)
    BY DEF GetRecomputed
  <2> DEFINE read == how = "ok" /\ Stored(m) /\ InTime(r0.polls)
  <2>2. /\ requests' = [requests EXCEPT ![s].state = IF read THEN "ok" ELSE "failed",
                                        ![s].data = Dtos({m})]
        /\ mishaps' = mishaps \/ mishaps' = mishaps + 1
        /\ conflict' = (conflict \/ ~read)
    BY <2>1
  <2>3. read \in BOOLEAN
    OBVIOUS
  <2> HIDE DEF read
  <2> QED BY <2>2, <2>3
<1> DEFINE data == CopyOf(m, version[m])
           r == [requests[s] EXCEPT !.state = IF read THEN "ok" ELSE "failed", !.data = data]
<1>4. Dtos({m}) = data /\ data \in Grid
  BY <1>1, <1>2, DtoIsCopy, CopyInGrid
<1>5. requests' = [requests EXCEPT ![s] = r]
  BY <1>3, <1>4
<1>6. /\ r \in WebRequest /\ SameRequest(r, requests[s]) /\ r.stage = 3
      /\ r.state = (IF read THEN "ok" ELSE "failed") /\ r.data = data
      /\ r.kind = "recompute" /\ r.meme = m
  <2> HIDE DEF data
  <2> QED BY <1>1, <1>4 DEF WebRequest, SameRequest
<1>7. conflict' \in BOOLEAN /\ (~conflict' => ~conflict /\ read)
  BY <1>1, <1>3, Zenon
<1>8. mishaps' \in Nat
  BY <1>1, <1>3
<1> HIDE DEF r
<1>9. RequestTyped(r)
  BY <1>1, <1>6, CopyShows DEF RequestTyped, Search, Changing
<1>10. ~conflict' => RequestOK(r, version, page, webJobs, ranking, drift)
  <2> SUFFICES ASSUME ~conflict' PROVE RecomputeOK(r, version, page, webJobs)
    BY <1>6 DEF RequestOK
  <2>1. RecomputeOK(r0, version, page, webJobs)
    BY <1>1, <1>7 DEF RequestOK
  <2> QED BY <1>1, <1>6, <1>7, <2>1 DEF RecomputeOK
<1>11. ~conflict => webJobs[m] # "running"
  BY <1>1, RunningIsPolled DEF Polls
<1> QED
  <2> HIDE DEF r0, m, data
  <2> QED BY <1>1, <1>2, <1>5, <1>6, <1>7, <1>8, <1>9, <1>10, <1>11, ServedInv

\* A job that ends is polled by its request, unless there was a conflict.
LEMMA RecomputeEndsKeeps ==
  ASSUME WebInv, NEW m \in Memes, RecomputeEnds(m)
  PROVE  WebInv'
<1>1. /\ version \in [Memes -> Int] /\ webJobs \in [Memes -> JobState]
      /\ mishaps \in Nat /\ conflict \in BOOLEAN
      /\ WebTypeOK /\ TypedInv(version, page, requests)
      /\ webJobs[m] = "running" /\ (\A kind : StaysRanked(kind)) /\ UNCHANGED <<page, requests, clicks, mishaps, conflict>>
  BY NotSearched DEF WebInv, WebTypeOK, JobState, RecomputeEnds
<1>2. PICK state \in {"done", "failed"}, saved \in BOOLEAN :
       /\ saved => state = "done"
       /\ webJobs' = [webJobs EXCEPT ![m] = state]
       /\ version' = IF saved THEN [version EXCEPT ![m] = IF @ > 0 THEN @ + 1 ELSE 1] ELSE version
  BY DEF RecomputeEnds
<1>3. /\ version' \in [Memes -> Int] /\ webJobs' \in [Memes -> JobState]
      /\ \A k \in Memes : k # m => version'[k] = version[k] /\ webJobs'[k] = webJobs[k]
      /\ \A k \in Memes : version[k] # 0 => version'[k] # 0
      /\ webJobs'[m] = state /\ (state # "done" => version'[m] = version[m])
      /\ version[m] > 0 => version'[m] > 0
  BY <1>1, <1>2 DEF JobState
<1>4. CASE conflict
  <2>1. WebTypeOK'
    BY <1>1, <1>3 DEF WebTypeOK, JobState, StaysRanked, Drift
  <2>2. TypedInv(version', page', requests')
    BY <1>1, <1>3, WebAssumption DEF TypedInv
  <2> QED BY <1>1, <1>4, <2>1, <2>2 DEF WebInv
<1>5. CASE ~conflict
  <2>1. PICK s \in Slots : Polls(requests[s], m)
    BY <1>1, <1>5 DEF WebInv, GridInv, Apart
  <2> DEFINE r == requests[s]
  <2>2. /\ r \in WebRequest /\ RequestTyped(r) /\ RequestOK(r, version, page, webJobs, ranking, drift)
        /\ requests' = [requests EXCEPT ![s] = r] /\ SameRequest(r, requests[s])
    BY <1>1, <1>5, RequestFacts DEF SameRequest, WebTypeOK
  <2>3. r.kind = "recompute" /\ r.meme = m /\ r.stage = 2 /\ r.state = "sent"
    BY <2>1 DEF Polls
  <2>4. RequestOK(r, version', page, webJobs', ranking', drift')
    <3>1. RecomputeOK(r, version, page, webJobs)
      BY <2>2, <2>3 DEF RequestOK
    <3>2. RecomputeOK(r, version', page, webJobs')
      BY <1>1, <1>3, <2>3, <3>1 DEF RecomputeOK, Fresh
    <3> QED BY <2>3, <3>2 DEF RequestOK
  <2>5. webJobs'[m] # "running"
    BY <1>2, <1>3
  <2> HIDE DEF r
  <2> QED BY <1>1, <1>3, <1>5, <2>2, <2>3, <2>4, <2>5, ServedInv
<1> QED BY <1>4, <1>5

-----------------------------------------------------------------------------
(* Requests are sent *)

LEMMA FreeFacts ==
  /\ Free \in WebRequest /\ Free.kind = "none" /\ Free.meme \notin Memes
  /\ Free.state = "sent" /\ Free.after = NoPage /\ RequestTyped(Free)
<1>1. /\ Free.kind = "none" /\ Free.meme = 0 /\ 0 \notin Memes
      /\ Free.state = "sent" /\ Free.after = NoPage
  BY WebAssumption DEF Free
<1>2. RequestTyped(Free)
  BY <1>1 DEF RequestTyped, Changing, Search
<1>3. Free \in WebRequest
  BY WebAssumption, NothingInGrid DEF Free, WebRequest, NoPage
<1> QED BY <1>1, <1>2, <1>3

\* A request about a meme that is not in conflict is the only one about it.
LEMMA SentFacts ==
  ASSUME WebInv, NEW s \in Slots, NEW r, SendRequest(s, r, {}), r.kind \in Changing, r.meme \in Memes
  PROVE  /\ requests' = [requests EXCEPT ![s] = r] /\ requests[s].kind = "none"
         /\ UNCHANGED <<version, webJobs, ranking, mishaps>> /\ clicks' = clicks + 1 /\ conflict' \in BOOLEAN
         /\ ~conflict' => /\ ~conflict /\ webJobs[r.meme] # "running"
                          /\ \A t \in Slots : ~Conflicts(r, requests[t])
                          /\ ~AboutIn(r.meme, requests, webJobs)
<1>1. r.kind # "load" /\ r.kind # "more" /\ r.kind \notin Search
  BY DEF Changing, Search
<1>2. requests \in [Slots -> WebRequest] /\ conflict \in BOOLEAN
  BY DEF WebInv, WebTypeOK
<1>3. /\ requests[s].kind = "none" /\ clicks' = clicks + 1
      /\ UNCHANGED <<version, webJobs, ranking, mishaps>>
      /\ requests' = [t \in Slots |-> IF t = s THEN r ELSE requests[t]]
      /\ conflict' = (conflict \/ (\E o \in {requests[t] : t \in Slots} : Conflicts(r, o))
                        \/ webJobs[r.meme] = "running")
  <2>1. Slots \ {} = Slots /\ \A t \in Slots : t \notin {}
    OBVIOUS
  <2>2. /\ requests[s].kind = "none" /\ clicks' = clicks + 1
        /\ UNCHANGED <<version, webJobs, ranking, mishaps>>
        /\ requests' = [t \in Slots |-> IF t = s THEN r ELSE IF t \in {} THEN Free ELSE requests[t]]
    BY Zenon DEF SendRequest
  <2>3. conflict' = IF r.kind = "load"
                    THEN \/ \/ \E o \in {requests[t] : t \in Slots \ {}} : Conflicts(r, o)
                            \/ r.kind = "more" /\ r.after = NoPage /\ r.base # NothingShown
                         \/ \E m \in Memes : webJobs[m] = "running"
                    ELSE \/ conflict
                         \/ \/ \E o \in {requests[t] : t \in Slots \ {}} : Conflicts(r, o)
                            \/ r.kind = "more" /\ r.after = NoPage /\ r.base # NothingShown
                         \/ r.meme \in Memes /\ webJobs[r.meme] = "running"
    BY Zenon DEF SendRequest
  <2>4. conflict' = (conflict \/ (\E o \in {requests[t] : t \in Slots} : Conflicts(r, o))
                        \/ webJobs[r.meme] = "running")
    BY <1>1, <2>1, <2>3, Zenon
  <2> QED BY <2>2, <2>4
<1>4. requests' = [requests EXCEPT ![s] = r]
  BY <1>2, <1>3
<1>5. conflict' \in BOOLEAN
  BY <1>2, <1>3, Zenon
<1>6. ASSUME ~conflict'
      PROVE  /\ ~conflict /\ webJobs[r.meme] # "running"
             /\ \A t \in Slots : ~Conflicts(r, requests[t])
    BY <1>3, <1>6, Zenon
<1>7. ASSUME ~conflict' PROVE ~AboutIn(r.meme, requests, webJobs)
  <2>1. ASSUME NEW t \in Slots, requests[t].meme = r.meme PROVE FALSE
    <3>1. requests[t].kind \in Changing
      BY <2>1, RequestFacts
    <3> QED BY <1>6, <1>7, <2>1, <3>1 DEF Conflicts, Changing
  <2> QED BY <1>6, <1>7, <2>1 DEF AboutIn
<1> QED BY <1>3, <1>4, <1>5, <1>6, <1>7

\* What each request about a meme has to show.
LEMMA SentInv ==
  ASSUME WebInv, NEW s \in Slots, NEW r \in WebRequest, SendRequest(s, r, {}),
         r.kind \in Changing, r.meme \in Memes, RequestTyped(r), page' = page, drift' = drift,
         ~conflict' => RequestOK(r, version, page, webJobs, ranking, drift)
  PROVE  WebInv'
<1>1. /\ WebTypeOK /\ TypedInv(version, page, requests)
      /\ ~conflict => GridInv(version, page, requests, webJobs, ranking, drift)
  BY DEF WebInv
<1>2. /\ requests' = [requests EXCEPT ![s] = r] /\ requests[s].kind = "none"
      /\ UNCHANGED <<version, webJobs, ranking, mishaps>> /\ clicks' = clicks + 1 /\ conflict' \in BOOLEAN
      /\ ~conflict' => /\ ~conflict /\ webJobs[r.meme] # "running"
                       /\ \A t \in Slots : ~Conflicts(r, requests[t])
  BY SentFacts
<1>3. /\ requests \in [Slots -> WebRequest] /\ requests' \in [Slots -> WebRequest]
      /\ requests'[s] = r /\ \A t \in Slots \ {s} : requests'[t] = requests[t]
      /\ page \in WebPage
  BY <1>1, <1>2 DEF WebTypeOK
<1>4. WebTypeOK'
  BY <1>1, <1>2, <1>3 DEF WebTypeOK
<1>5. TypedInv(version', page', requests')
  <2>1. \A t \in Slots : RequestTyped(requests'[t])
    BY <1>1, <1>3 DEF TypedInv
  <2>2. r.kind # "load"
    BY DEF Changing
  <2>3. ControllerInv(page', requests')
    BY <1>1, <1>2, <1>3, <2>2 DEF TypedInv, ControllerInv, WebPage
  <2> QED BY <1>1, <1>2, <2>1, <2>3 DEF TypedInv
<1>6. ASSUME ~conflict' PROVE GridInv(version', page', requests', webJobs', ranking', drift')
  <2>1. GridInv(version, page, requests', webJobs, ranking, drift)
    BY <1>1, <1>2, <1>3, <1>6, SentKeeps
  <2> QED BY <1>2, <2>1
<1> QED BY <1>4, <1>5, <1>6 DEF WebInv

\* A request about a meme, as it is sent.
LEMMA RequestAboutFacts ==
  ASSUME NEW m \in Memes, NEW kind \in Changing, NEW r, r = RequestAbout(kind, m)
  PROVE  r \in WebRequest /\ r.kind = kind /\ r.meme = m /\ r.state = "sent" /\ r.stage = 1
<1> DEFINE x == [Free EXCEPT !.kind = kind, !.meme = m]
<1>1. kind \in {"none", "load", "more", "upload", "update", "delete", "recompute"}
  BY DEF Changing
<1>2. x \in WebRequest /\ x.kind = kind /\ x.meme = m /\ x.state = "sent"
  BY <1>1, FreeFacts DEF WebRequest
<1>3. r = [x EXCEPT !.stage = 1]
  BY FreeFacts DEF WebRequest, RequestAbout
<1> HIDE DEF x
<1>4. r \in WebRequest
  BY <1>2, <1>3 DEF WebRequest
<1>5. r.kind = kind
  BY <1>2, <1>3 DEF WebRequest
<1>6. r.meme = m /\ r.state = "sent"
  BY <1>2, <1>3 DEF WebRequest
<1>7. r.stage = 1
  BY <1>2, <1>3 DEF WebRequest
<1> QED BY <1>4, <1>5, <1>6, <1>7

LEMMA StartUploadKeeps ==
  ASSUME WebInv, NEW s \in Slots, StartUpload(s)
  PROVE  WebInv'
<1>1. PICK m \in Memes : /\ \A k \in Memes : version[k] # 0 => k < m
                         /\ SendRequest(s, RequestAbout("upload", m), {})
  BY Zenon DEF StartUpload
<1> DEFINE r == RequestAbout("upload", m)
<1>2. /\ r \in WebRequest /\ r.kind = "upload" /\ r.meme = m /\ r.state = "sent"
  <2>1. "upload" \in Changing
    BY DEF Changing
  <2> QED BY <2>1, RequestAboutFacts
<1>3. SendRequest(s, r, {}) /\ page' = page /\ drift' = drift
  BY <1>1 DEF StartUpload
<1> HIDE DEF r
<1>4. RequestTyped(r) /\ r.kind \in Changing /\ r.meme \in Memes
  BY <1>2 DEF RequestTyped, Search, Changing
<1>5. ASSUME ~conflict' PROVE RequestOK(r, version, page, webJobs, ranking, drift)
  <2>1. ~conflict /\ ~AboutIn(m, requests, webJobs)
    BY <1>2, <1>3, <1>4, <1>5, SentFacts
  <2>2. /\ ShownRight(m, version, page, requests, webJobs, ranking, drift)
        /\ CursorRight(version, page, ranking, drift)
        /\ page \in WebPage /\ \A k \in Old : version[k] # 0
    BY <2>1 DEF WebInv, GridInv, TypedInv, WebTypeOK
  <2>3. version[m] = 0
    <3>1. ~(m < m)
      BY WebAssumption
    <3> QED BY <1>1, <3>1
  <2>4. page.memes[m] = <<>>
    BY <2>1, <2>2, <2>3 DEF ShownRight, Fresh
  <2>5. page.query \in ByCreation => page.next < m
    <3>1. CASE page.next = NoPage
      BY <3>1, WebAssumption DEF NoPage
    <3>2. CASE page.next # NoPage
      BY <1>1, <2>2, <3>2 DEF CursorRight
    <3> QED BY <3>1, <3>2
  <2> QED BY <1>2, <2>2, <2>3, <2>4, <2>5 DEF RequestOK, UploadOK
<1> QED BY <1>2, <1>3, <1>4, <1>5, SentInv

\* The other requests about a meme begin with one that is shown as it is.
LEMMA SentAboutShown ==
  ASSUME WebInv, NEW s \in Slots, NEW m \in Shown, NEW kind \in {"update", "delete", "recompute"},
         SendRequest(s, RequestAbout(kind, m), {}), page' = page, drift' = drift
  PROVE  WebInv'
<1> DEFINE r == RequestAbout(kind, m)
<1>1. /\ r \in WebRequest /\ r.kind = kind /\ r.meme = m /\ r.state = "sent" /\ r.stage = 1
      /\ m \in Memes /\ page.memes[m] # <<>>
  <2>1. m \in Memes /\ page.memes[m] # <<>> /\ kind \in Changing
    BY DEF Shown, Changing
  <2> QED BY <2>1, RequestAboutFacts
<1>2. SendRequest(s, r, {})
  OBVIOUS
<1> HIDE DEF r
<1>3. RequestTyped(r) /\ r.kind \in Changing /\ r.meme \in Memes
  BY <1>1 DEF RequestTyped, Search, Changing
<1>4. ASSUME ~conflict' PROVE RequestOK(r, version, page, webJobs, ranking, drift)
  <2>1. ~conflict /\ ~AboutIn(m, requests, webJobs)
    BY <1>1, <1>2, <1>3, <1>4, SentFacts
  <2>2. Fresh(m, version, page)
    BY <1>1, <2>1 DEF WebInv, GridInv, ShownRight
  <2> QED BY <1>1, <2>2 DEF RequestOK, UpdateOK, DeleteOK, RecomputeOK, Fresh
<1> QED BY <1>1, <1>2, <1>3, <1>4, SentInv

\* A page that is asked for is alone, unless there is a conflict.
LEMMA LoadMoreKeeps ==
  ASSUME WebInv, NEW s \in Slots, LoadMore(s)
  PROVE  WebInv'
<1> DEFINE r == [Free EXCEPT !.kind = "more", !.query = page.query, !.after = page.next,
                             !.base = page.memes]
<1>1. /\ WebTypeOK /\ TypedInv(version, page, requests)
      /\ ~conflict => GridInv(version, page, requests, webJobs, ranking, drift)
      /\ requests \in [Slots -> WebRequest] /\ conflict \in BOOLEAN /\ page \in WebPage
      /\ page.query \in Queries /\ page.more = TRUE /\ drift' = drift
  BY DEF WebInv, WebTypeOK, LoadMore, WebPage
<1>2. /\ r \in WebRequest /\ r.kind = "more" /\ r.meme \notin Memes
      /\ r.state = "sent" /\ r.query = page.query
      /\ r.after = page.next /\ r.base = page.memes
  BY <1>1, FreeFacts DEF WebRequest, WebPage
<1>3. SendRequest(s, r, {}) /\ page' = [page EXCEPT !.loading = TRUE]
  BY DEF LoadMore
<1> HIDE DEF r
<1>4. /\ requests[s].kind = "none" /\ clicks' = clicks + 1
      /\ UNCHANGED <<version, webJobs, ranking, mishaps>>
      /\ requests' = [requests EXCEPT ![s] = r]
      /\ conflict' \in BOOLEAN
      /\ ~conflict' => /\ ~conflict /\ \A t \in Slots : ~Conflicts(r, requests[t])
                       /\ page.next = NoPage => page.memes = NothingShown
  <2>1. Slots \ {} = Slots /\ \A t \in Slots : t \notin {}
    OBVIOUS
  <2>2. /\ requests[s].kind = "none" /\ clicks' = clicks + 1
        /\ UNCHANGED <<version, webJobs, ranking, mishaps>>
        /\ requests' = [t \in Slots |-> IF t = s THEN r ELSE IF t \in {} THEN Free ELSE requests[t]]
    BY <1>3, Zenon DEF SendRequest
  <2>3. conflict' = IF r.kind = "load"
                    THEN \/ \/ \E o \in {requests[t] : t \in Slots \ {}} : Conflicts(r, o)
                            \/ r.kind = "more" /\ r.after = NoPage /\ r.base # NothingShown
                         \/ \E m \in Memes : webJobs[m] = "running"
                    ELSE \/ conflict
                         \/ \/ \E o \in {requests[t] : t \in Slots \ {}} : Conflicts(r, o)
                            \/ r.kind = "more" /\ r.after = NoPage /\ r.base # NothingShown
                         \/ r.meme \in Memes /\ webJobs[r.meme] = "running"
    BY <1>3, Zenon DEF SendRequest
  <2>4. r.kind # "load"
    BY <1>2
  <2>5. conflict' \in BOOLEAN
    BY <1>1, <2>3, Zenon
  <2>6. ~conflict' => /\ ~conflict /\ \A t \in Slots : ~Conflicts(r, requests[t])
                      /\ page.next = NoPage => page.memes = NothingShown
    BY <1>2, <2>1, <2>3, <2>4, Zenon
  <2>7. requests' = [requests EXCEPT ![s] = r]
    BY <1>1, <2>2
  <2> QED BY <2>2, <2>5, <2>6, <2>7
<1>5. /\ page' \in WebPage /\ page'.memes = page.memes
      /\ page'.next = page.next /\ page'.more = page.more
      /\ page'.query = page.query /\ page'.controller = page.controller
  BY <1>1, <1>3 DEF WebPage
<1>6. /\ requests' \in [Slots -> WebRequest]
      /\ requests'[s] = r /\ \A t \in Slots \ {s} : requests'[t] = requests[t]
  BY <1>1, <1>2, <1>4
<1>7. WebTypeOK'
  BY <1>1, <1>4, <1>5, <1>6 DEF WebTypeOK
<1>8. TypedInv(version', page', requests')
  <2>1. RequestTyped(r)
    BY <1>1, <1>2 DEF RequestTyped, Changing, Search
  <2>2. \A t \in Slots : RequestTyped(requests'[t])
    BY <1>1, <1>6, <2>1 DEF TypedInv
  <2>3. ControllerInv(page', requests')
    BY <1>1, <1>2, <1>4, <1>5, <1>6 DEF TypedInv, ControllerInv, WebPage
  <2> QED BY <1>1, <1>4, <2>2, <2>3 DEF TypedInv
<1>9. ASSUME ~conflict' PROVE GridInv(version', page', requests', webJobs', ranking', drift')
  <2>1. /\ Apart(requests, webJobs)
        /\ \A m \in Memes : ShownRight(m, version, page, requests, webJobs, ranking, drift)
        /\ CursorRight(version, page, ranking, drift)
    BY <1>1, <1>4, <1>9 DEF GridInv
  <2>2. \A t \in Slots : requests[t].kind = "none" /\ requests[t].meme \notin Memes
    <3>1. ASSUME NEW t \in Slots PROVE requests[t].kind = "none"
      BY <1>2, <1>4, <1>9 DEF Conflicts, Search
    <3>2. ASSUME NEW t \in Slots PROVE requests[t].meme \notin Memes
      BY <3>1, RequestFacts DEF Changing
    <3> QED BY <3>1, <3>2
  <2>3. \A m \in Memes : webJobs[m] # "running"
    BY <2>1, <2>2 DEF Apart, Polls
  <2>4. \A m \in Memes : ~AboutIn(m, requests, webJobs)
    BY <2>2, <2>3 DEF AboutIn
  <2>5. Apart(requests', webJobs)
    BY <1>2, <1>6, <2>2, <2>3 DEF Apart, Alone, Search
  <2>6. ASSUME NEW m \in Memes PROVE ShownRight(m, version, page', requests', webJobs, ranking, drift)
    <3>1. ShownRight(m, version, page, requests, webJobs, ranking, drift) /\ ~AboutIn(m, requests, webJobs)
      BY <2>1, <2>4
    <3> QED BY <1>5, <3>1, ShownKept DEF Weaker
  <2>7. ASSUME NEW t \in Slots PROVE RequestOK(requests'[t], version, page', webJobs, ranking, drift)
    <3>1. CASE t = s
      BY <1>1, <1>2, <1>4, <1>5, <1>6, <1>9, <3>1 DEF RequestOK, MoreOK
    <3>2. CASE t # s
      BY <1>6, <2>2, <3>2 DEF RequestOK
    <3> QED BY <3>1, <3>2
  <2>8. CursorRight(version, page', ranking, drift)
    BY <1>5, <2>1 DEF CursorRight
  <2> QED BY <1>1, <1>4, <2>5, <2>6, <2>7, <2>8 DEF GridInv
<1> QED BY <1>7, <1>8, <1>9 DEF WebInv

\* A new query clears the grid and gives up the load before it.
LEMMA LoadKeeps ==
  ASSUME WebInv, NEW s \in Slots, NEW q \in Queries, Load(s, q)
  PROVE  WebInv'
<1> DEFINE r == [Free EXCEPT !.kind = "load", !.query = q]
           aborted == {page.controller}
<1>1. /\ WebTypeOK /\ TypedInv(version, page, requests)
      /\ requests \in [Slots -> WebRequest] /\ conflict \in BOOLEAN /\ page \in WebPage
      /\ version \in [Memes -> Int]
  BY DEF WebInv, WebTypeOK
<1>2. /\ r \in WebRequest /\ r.kind = "load" /\ r.meme \notin Memes
      /\ r.state = "sent" /\ r.query = q
      /\ r.after = NoPage
  BY FreeFacts DEF WebRequest
<1>3. SendRequest(s, r, aborted) /\ page' = Loading(q, s) /\ drift' = "none"
  BY DEF Load
<1> HIDE DEF r, aborted
<1>4. /\ requests[s].kind = "none" /\ clicks' = clicks + 1
      /\ UNCHANGED <<version, webJobs, ranking, mishaps>>
      /\ requests' = [t \in Slots |-> IF t = s THEN r ELSE IF t \in aborted THEN Free ELSE requests[t]]
      /\ conflict' \in BOOLEAN
      /\ ~conflict' => /\ \A t \in Slots \ aborted : ~Conflicts(r, requests[t])
                       /\ \A m \in Memes : webJobs[m] # "running"
  <2>1. /\ requests[s].kind = "none" /\ clicks' = clicks + 1
        /\ UNCHANGED <<version, webJobs, ranking, mishaps>>
        /\ requests' = [t \in Slots |-> IF t = s THEN r ELSE IF t \in aborted THEN Free ELSE requests[t]]
    BY <1>3, Zenon DEF SendRequest
  <2>2. conflict' = IF r.kind = "load"
                    THEN \/ \/ \E o \in {requests[t] : t \in Slots \ aborted} : Conflicts(r, o)
                            \/ r.kind = "more" /\ r.after = NoPage /\ r.base # NothingShown
                         \/ \E m \in Memes : webJobs[m] = "running"
                    ELSE \/ conflict
                         \/ \/ \E o \in {requests[t] : t \in Slots \ aborted} : Conflicts(r, o)
                            \/ r.kind = "more" /\ r.after = NoPage /\ r.base # NothingShown
                         \/ r.meme \in Memes /\ webJobs[r.meme] = "running"
    BY <1>3, Zenon DEF SendRequest
  <2>3. conflict' = \/ \/ \E o \in {requests[t] : t \in Slots \ aborted} : Conflicts(r, o)
                       \/ r.kind = "more" /\ r.after = NoPage /\ r.base # NothingShown
                    \/ \E m \in Memes : webJobs[m] = "running"
    BY <1>2, <2>2, Zenon
  <2>4. conflict' \in BOOLEAN
    BY <2>3, Zenon
  <2>5. ~conflict' => /\ \A t \in Slots \ aborted : ~Conflicts(r, requests[t])
                      /\ \A m \in Memes : webJobs[m] # "running"
    BY <2>3, Zenon
  <2> QED BY <2>1, <2>4, <2>5
<1>5. /\ page' \in WebPage /\ page'.memes = NothingShown /\ page'.next = NoPage /\ page'.more = TRUE
      /\ page'.query = q /\ page'.controller = s
  BY <1>3, NothingInGrid DEF WebPage, Loading, NoPage
<1>6. /\ requests' \in [Slots -> WebRequest]
      /\ requests'[s] = r
      /\ \A t \in Slots \ {s} : requests'[t] = IF t \in aborted THEN Free ELSE requests[t]
  BY <1>1, <1>2, <1>4, FreeFacts
<1>7. WebTypeOK'
  BY <1>1, <1>3, <1>4, <1>5, <1>6 DEF WebTypeOK
<1>8. \A t \in Slots : requests[t].kind = "load" => t \in aborted
  BY <1>1 DEF TypedInv, ControllerInv, aborted
<1>9. \A t \in Slots : RequestTyped(requests'[t])
  <2>1. RequestTyped(r)
    BY <1>2 DEF RequestTyped, Changing, Search
  <2>2. ASSUME NEW t \in Slots \ {s} PROVE RequestTyped(requests'[t])
    BY <1>1, <1>6, FreeFacts DEF TypedInv
  <2> QED BY <1>6, <2>1, <2>2
<1>10. TypedInv(version', page', requests')
  <2>1. ASSUME NEW t \in Slots \ {s} PROVE requests'[t].kind # "load"
    BY <1>6, <1>8, FreeFacts
  <2>2. ControllerInv(page', requests')
    BY <1>2, <1>5, <1>6, <2>1 DEF ControllerInv
  <2> QED BY <1>1, <1>4, <1>9, <2>2 DEF TypedInv
<1>11. ASSUME ~conflict' PROVE GridInv(version', page', requests', webJobs', ranking', drift')
  <2>1. \A t \in Slots \ {s} : requests'[t].kind = "none"
    <3>1. ASSUME NEW t \in Slots \ {s} PROVE requests'[t].kind = "none"
      <4>1. CASE t \in aborted
        BY <1>6, <4>1, FreeFacts
      <4>2. CASE t \notin aborted
        BY <1>2, <1>4, <1>6, <1>8, <1>11, <4>2 DEF Conflicts, Search
      <4> QED BY <4>1, <4>2
    <3> QED BY <3>1
  <2>2. \A t \in Slots : requests'[t].meme \notin Memes
    BY <1>2, <1>6, <1>9, <2>1 DEF RequestTyped, Changing
  <2>3. \A m \in Memes : webJobs[m] # "running" /\ NothingShown[m] = <<>>
    BY <1>4, <1>11 DEF NothingShown
  <2>4. Apart(requests', webJobs)
    BY <1>2, <1>6, <2>1, <2>2, <2>3 DEF Apart, Alone, Search
  <2>5. ASSUME NEW m \in Memes PROVE ShownRight(m, version, page', requests', webJobs, ranking, "none")
    <3>1. page'.memes[m] = <<>> /\ Len(<<>>) = 0
      BY <1>5, <2>3
    <3> QED BY <1>5, <3>1 DEF ShownRight, CompleteIn
  <2>6. ASSUME NEW t \in Slots PROVE RequestOK(requests'[t], version, page', webJobs, ranking, "none")
    <3>1. CASE t = s
      BY <1>2, <1>5, <1>6, <3>1 DEF RequestOK, LoadOK
    <3>2. CASE t # s
      BY <2>1, <3>2 DEF RequestOK
    <3> QED BY <3>1, <3>2
  <2>7. CursorRight(version, page', ranking, "none")
    BY <1>5 DEF CursorRight
  <2> QED BY <1>3, <1>4, <2>4, <2>5, <2>6, <2>7 DEF GridInv
<1> QED BY <1>7, <1>10, <1>11 DEF WebInv

-----------------------------------------------------------------------------
(* Answers arrive *)

LEMMA JoinedInGrid ==
  ASSUME NEW a \in Grid, NEW b \in Grid
  PROVE  Joined(a, b) \in Grid
<1>1. ASSUME NEW m \in Memes PROVE a[m] \o b[m] \in Seq(Int)
  <2>1. a[m] \in Seq(Int) /\ b[m] \in Seq(Int)
    BY DEF Grid
  <2> QED BY <2>1
<1> QED BY <1>1 DEF Joined, Grid

LEMMA ReplacedInGrid ==
  ASSUME NEW a \in Grid, NEW m \in Memes, NEW x \in Int
  PROVE  Replaced(a, m, x) \in Grid
<1>1. a[m] \in Seq(Int) /\ DOMAIN a = Memes
  BY DEF Grid
<1>2. [i \in DOMAIN a[m] |-> x] \in Seq(Int)
  <2>1. DOMAIN a[m] = 1 .. Len(a[m]) /\ Len(a[m]) \in Nat
    BY <1>1
  <2>2. [i \in 1 .. Len(a[m]) |-> x] \in Seq(Int)
    BY <2>1
  <2> QED BY <2>1, <2>2
<1> QED BY <1>1, <1>2 DEF Replaced, Grid

\* A copy more of the same version.
LEMMA OneMore ==
  ASSUME NEW a \in Seq(Int), NEW x \in Int, \A i \in DOMAIN a : a[i] = x
  PROVE  \A i \in DOMAIN (a \o <<x>>) : (a \o <<x>>)[i] = x
<1>1. <<x>> \in Seq(Int) /\ Len(<<x>>) = 1 /\ <<x>>[1] = x
  OBVIOUS
<1> DEFINE b == <<x>>
<1> HIDE DEF b
<1>2. Len(a \o b) = Len(a) + Len(b) /\ a \o b \in Seq(Int)
  BY <1>1 DEF b
<1>3. ASSUME NEW i \in 1 .. Len(a) + Len(b) PROVE (a \o b)[i] = IF i <= Len(a) THEN a[i] ELSE b[i - Len(a)]
  BY <1>1 DEF b
<1>4. Len(a) \in Nat /\ DOMAIN a = 1 .. Len(a) /\ DOMAIN (a \o b) = 1 .. Len(a) + 1
  BY <1>1, <1>2 DEF b
<1>5. ASSUME NEW i \in DOMAIN (a \o b) PROVE (a \o b)[i] = x
  <2>1. CASE i <= Len(a)
    BY <1>1, <1>3, <1>4, <2>1 DEF b
  <2>2. CASE i = Len(a) + 1
    <3>1. i - Len(a) = 1 /\ ~(i <= Len(a))
      BY <1>4, <2>2
    <3> QED BY <1>1, <1>3, <1>4, <3>1 DEF b
  <2> QED BY <1>4, <2>1, <2>2
<1> QED BY <1>5 DEF b

\* A page is added to what is shown, and the grid is what the query finds down to the last
\* meme of the page.
LEMMA AnswerShows ==
  ASSUME NEW v \in [Memes -> Int], NEW p \in WebPage, NEW q, NEW j, NEW k, NEW d, NEW o, NEW r,
         p.query \in Queries, r.query = p.query, r.after = p.next, SearchAnswered(r, v, k),
         d \in Drift, d # "reordered",
         p.next = NoPage => p.memes = NothingShown,
         \A m \in Memes : ~AboutIn(m, q, j) /\ ShownRight(m, v, p, q, j, k, d),
         o.query = p.query, o.next = r.next,
         LET hits == Newest(k, Found(v, k, r.after))
         IN \A m \in Memes : IF d = "mixed"
              THEN \/ o.memes[m] = p.memes[m] /\ m \notin hits
                   \/ o.memes[m] = p.memes[m] \o <<v[m]>> /\ m \in hits
              ELSE o.memes[m] = IF m \in hits THEN <<v[m]>> ELSE p.memes[m]
  PROVE  (\A m \in Memes : ShownRight(m, v, o, q, j, k, d)) /\ CursorRight(v, o, k, d)
<1> DEFINE found == Found(v, k, r.after)
           hits == Newest(k, found)
<1>0. k \in Rankings[p.query] /\ k \in [Memes -> Nat]
  BY WebAssumption DEF SearchAnswered
<1>1. /\ found \subseteq Memes /\ hits \subseteq found /\ IsFiniteSet(found) /\ hits \subseteq Memes
  BY FoundIsFinite
<1>2. \A m \in Memes : m \in found <=> k[m] > 0 /\ v[m] > 0 /\ (p.next = NoPage \/ k[m] < p.next)
  BY DEF Found
<1>3. /\ o.next = NextPage(k, hits) /\ NextPage(k, hits) \in Nat
      /\ NextPage(k, hits) = NoPage <=> hits = {}
      /\ hits # {} => /\ \E m \in hits : NextPage(k, hits) = k[m]
                      /\ \A m \in hits : k[m] >= NextPage(k, hits)
  <2>1. o.next = NextPage(k, hits)
    BY DEF SearchAnswered
  <2>2. \A m \in hits : k[m] > 0
    BY <1>1, <1>2
  <2> HIDE DEF hits
  <2> QED BY <1>0, <1>1, <2>1, <2>2, NextIsLast
<1>4. hits = {} => found = {}
  <2> HIDE DEF found
  <2> QED BY <1>0, <1>1, EmptyPage
<1>5. \A n \in hits, m \in found : k[m] >= k[n] => m \in hits
  <2> HIDE DEF found
  <2> QED BY <1>0, <1>1, PageIsFull
<1>6. \A m \in Memes : IF d = "mixed"
              THEN \/ o.memes[m] = p.memes[m] /\ m \notin hits
                   \/ o.memes[m] = p.memes[m] \o <<v[m]>> /\ m \in hits
              ELSE o.memes[m] = IF m \in hits THEN <<v[m]>> ELSE p.memes[m]
  OBVIOUS
<1> HIDE DEF found, hits
<1>7. /\ p.next \in Nat /\ p.memes \in Grid /\ NoPage = 0
      /\ \A m \in Memes : k[m] \in Nat /\ v[m] \in Int
  BY <1>0 DEF WebPage, NoPage
<1>8. \A m \in hits : m \in Matching(o.query) /\ v[m] > 0
  BY <1>0, <1>1, <1>2 DEF Matching
<1>9. ASSUME NEW m \in Memes, d = "mixed" PROVE ShownRight(m, v, o, q, j, k, d)
  <2>1. ~AboutIn(m, q, j) /\ ShownRight(m, v, p, q, j, k, d)
    OBVIOUS
  <2>2. CASE o.memes[m] = p.memes[m] /\ m \notin hits
    BY <1>9, <2>1, <2>2 DEF ShownRight, Fresh
  <2>3. CASE o.memes[m] = p.memes[m] \o <<v[m]>> /\ m \in hits
    <3>1. p.memes[m] \in Seq(Int)
      BY <1>7 DEF Grid
    <3>2. \A i \in DOMAIN p.memes[m] : p.memes[m][i] = v[m]
      <4>1. p.memes[m] = <<>> => DOMAIN p.memes[m] = {}
        OBVIOUS
      <4> QED BY <2>1, <4>1 DEF ShownRight, Fresh
    <3>3. \A i \in DOMAIN o.memes[m] : o.memes[m][i] = v[m]
      <4> DEFINE a == p.memes[m]
                 x == v[m]
      <4>1. a \in Seq(Int) /\ x \in Int /\ o.memes[m] = a \o <<x>> /\ \A i \in DOMAIN a : a[i] = x
        BY <1>7, <2>3, <3>1, <3>2
      <4> HIDE DEF a, x
      <4>2. \A i \in DOMAIN (a \o <<x>>) : (a \o <<x>>)[i] = x
        BY <4>1, OneMore
      <4> QED BY <4>1, <4>2 DEF x
    <3> QED BY <1>8, <1>9, <2>3, <3>3 DEF ShownRight, Fresh
  <2> QED BY <1>6, <1>9, <2>2, <2>3
<1>10. ASSUME NEW m \in Memes, d # "mixed" PROVE ShownRight(m, v, o, q, j, k, d)
  <2>1. /\ ~AboutIn(m, q, j) /\ ShownRight(m, v, p, q, j, k, d) /\ d = "none"
        /\ o.memes[m] = IF m \in hits THEN <<v[m]>> ELSE p.memes[m]
    BY <1>6, <1>10 DEF Drift
  <2>2. CASE m \in hits
    <3>1. o.memes[m] = <<v[m]>> /\ Len(<<v[m]>>) = 1 /\ <<v[m]>> # <<>>
      BY <2>1, <2>2
    <3>2. m \in Matching(o.query) /\ v[m] > 0 /\ k[m] >= o.next
      BY <1>3, <1>8, <2>2
    <3> QED BY <3>1, <3>2 DEF ShownRight, Fresh
  <2>3. CASE m \notin hits
    <3>1. o.memes[m] = p.memes[m]
      BY <2>1, <2>3
    <3>2. p.memes[m] # <<>> => k[m] >= p.next /\ p.next # NoPage
      BY <2>1 DEF ShownRight, NothingShown
    <3>3. p.memes[m] # <<>> => k[m] >= o.next
      <4>1. CASE hits = {}
        BY <1>3, <1>7, <4>1
      <4>2. CASE hits # {}
        <5>1. PICK n \in hits : o.next = k[n]
          BY <1>3, <4>2
        <5>2. p.next = NoPage \/ o.next < p.next
          BY <1>1, <1>2, <5>1
        <5> QED BY <1>3, <1>7, <3>2, <5>2
      <4> QED BY <4>1, <4>2
    <3>4. ASSUME k[m] > 0, v[m] > 0, CompleteIn(m, o, k) PROVE p.memes[m] # <<>>
      <4>1. m \notin found
        <5>1. CASE hits = {}
          BY <1>4, <5>1
        <5>2. CASE hits # {}
          BY <1>3, <1>5, <2>3, <3>4, <5>2 DEF CompleteIn
        <5> QED BY <5>1, <5>2
      <4>2. p.next # NoPage /\ k[m] >= p.next
        BY <1>2, <1>7, <3>4, <4>1
      <4> QED BY <2>1, <3>4, <4>2 DEF ShownRight, CompleteIn
    <3> QED BY <2>1, <3>1, <3>3, <3>4 DEF ShownRight, Fresh
  <2> QED BY <2>2, <2>3
<1>11. CursorRight(v, o, k, d)
  <2>1. ASSUME o.next # NoPage, o.query \in ByCreation PROVE o.next \in Memes /\ v[o.next] # 0
    <3>1. PICK m \in hits : o.next = k[m]
      BY <1>3, <2>1
    <3>2. k[m] = m
      BY <1>0, <1>1, <2>1, <3>1, WebAssumption
    <3> QED BY <1>1, <1>8, <3>1, <3>2, <1>7
  <2> QED BY <1>0, <2>1 DEF CursorRight
<1> QED BY <1>9, <1>10, <1>11

\* The answer of a search arrives; there was nothing beside it.
LEMMA SearchedKeeps ==
  ASSUME NEW s \in Slots,
         requests \in [Slots -> WebRequest], TypedInv(version, page, requests),
         GridInv(version, page, requests, webJobs, ranking, drift),
         requests' = [requests EXCEPT ![s] = Free], requests[s].kind \in Search,
         (\A m \in Memes : ~AboutIn(m, requests, webJobs)) =>
           /\ \A m \in Memes : ShownRight(m, version, page', requests, webJobs, ranking, drift)
           /\ CursorRight(version, page', ranking, drift)
  PROVE  GridInv(version, page', requests', webJobs, ranking, drift)
<1>1. /\ requests'[s] = Free
      /\ \A t \in Slots \ {s} : requests'[t] = requests[t]
      /\ \A t \in Slots : RequestTyped(requests[t]) /\ requests[t] \in WebRequest
  BY DEF TypedInv
<1>2. Alone(s, requests, webJobs)
  BY DEF GridInv, Apart
<1>3. \A t \in Slots : requests'[t].kind = "none" /\ requests'[t].meme \notin Memes
  <2>1. ASSUME NEW t \in Slots \ {s} PROVE requests[t].kind = "none" /\ requests[t].meme \notin Memes
    BY <1>1, <1>2, <2>1, Kinds DEF Alone, Changing
  <2> QED BY <1>1, <2>1, FreeFacts
<1>4. \A t \in Slots : requests[t].meme \notin Memes
  <2>1. requests[s].meme \notin Memes
    BY <1>1, Kinds
  <2>2. ASSUME NEW t \in Slots \ {s} PROVE requests[t].meme \notin Memes
    BY <1>1, <1>2, <2>2, Kinds DEF Alone, Changing
  <2> QED BY <2>1, <2>2
<1>5. \A m \in Memes : webJobs[m] # "running"
  BY <1>2 DEF Alone
<1>6. \A m \in Memes : ~AboutIn(m, requests, webJobs) /\ ~AboutIn(m, requests', webJobs)
  BY <1>3, <1>4, <1>5 DEF AboutIn
<1>7. Apart(requests', webJobs)
  BY <1>3, <1>5 DEF Apart, Search
<1>8. ASSUME NEW m \in Memes PROVE ShownRight(m, version, page', requests', webJobs, ranking, drift)
  <2>1. ShownRight(m, version, page', requests, webJobs, ranking, drift)
    BY <1>6
  <2> QED BY <1>6, <2>1, ShownKept DEF Weaker
<1>9. \A t \in Slots : RequestOK(requests'[t], version, page', webJobs, ranking, drift)
  BY <1>3 DEF RequestOK
<1> QED BY <1>6, <1>7, <1>8, <1>9 DEF GridInv

\* What is known when an answer arrives.
Arrives(s) ==
  /\ WebTypeOK /\ TypedInv(version, page, requests)
  /\ ~conflict => GridInv(version, page, requests, webJobs, ranking, drift)
  /\ requests[s] \in WebRequest /\ RequestTyped(requests[s])
  /\ requests[s].state \in {"ok", "failed"}
  /\ page' = IF requests[s].state = "ok" THEN Applied(requests[s]) ELSE Erred(requests[s])
  /\ requests' = [requests EXCEPT ![s] = Free]

LEMMA LoadArrives ==
  ASSUME NEW s \in Slots, Arrives(s), requests[s].kind = "load"
  PROVE  /\ page' \in WebPage /\ page'.controller = NoSlot
         /\ ~conflict => GridInv(version, page', requests', webJobs, ranking, drift)
<1> DEFINE r == requests[s]
<1>1. /\ r \in WebRequest /\ RequestTyped(r) /\ r.state \in {"ok", "failed"} /\ r.kind = "load"
      /\ r.kind \in Search /\ r.query \in Queries
      /\ version \in [Memes -> Int] /\ page \in WebPage /\ requests \in [Slots -> WebRequest]
      /\ TypedInv(version, page, requests) /\ requests' = [requests EXCEPT ![s] = Free]
  BY DEF Arrives, WebTypeOK, Search, RequestTyped
<1>2. page' = IF r.state = "ok" THEN Loaded(r) ELSE [page EXCEPT !.loading = FALSE, !.controller = NoSlot]
  BY DEF Arrives, Applied, Erred
<1>3. page' \in WebPage /\ page'.controller = NoSlot /\ page'.query = page.query
  BY <1>1, <1>2 DEF WebPage, WebRequest, Loaded
<1>4. r.state = "ok" => page'.memes = r.data /\ page'.next = r.next
  BY <1>1, <1>2 DEF WebPage, Loaded
<1>5. r.state # "ok" => /\ page'.memes = page.memes /\ page'.next = page.next /\ page'.more = page.more
  BY <1>1, <1>2 DEF WebPage
<1>6. ASSUME ~conflict PROVE GridInv(version, page', requests', webJobs, ranking, drift)
  <2>1. GridInv(version, page, requests, webJobs, ranking, drift)
    BY <1>6 DEF Arrives
  <2>2. LoadOK(r, version, page, ranking, drift)
    BY <1>1, <2>1 DEF GridInv, RequestOK
  <2>3. ASSUME \A m \in Memes : ~AboutIn(m, requests, webJobs)
        PROVE  /\ \A m \in Memes : ShownRight(m, version, page', requests, webJobs, ranking, drift)
               /\ CursorRight(version, page', ranking, drift)
    <3>1. CASE r.state = "ok"
      <4>1. ASSUME NEW m \in Memes
            PROVE page'.memes[m] = IF m \in Newest(ranking, Found(version, ranking, r.after))
                                   THEN <<version[m]>> ELSE page.memes[m]
        BY <1>4, <2>2, <3>1 DEF LoadOK, SearchAnswered, CopiesOf, NothingShown
      <4>2. /\ SearchAnswered(r, version, ranking) /\ r.query = page.query
            /\ r.after = page.next /\ page.memes = NothingShown /\ drift = "none" /\ drift \in Drift
        BY <2>2, <3>1 DEF LoadOK, Drift
      <4>3. \A m \in Memes : ~AboutIn(m, requests, webJobs) /\ ShownRight(m, version, page, requests, webJobs, ranking, drift)
        BY <2>1, <2>3 DEF GridInv
      <4>4. page'.next = r.next /\ page'.query = page.query /\ page.query \in Queries
        BY <1>1, <1>3, <1>4, <3>1, <4>2
      <4>5. LET hits == Newest(ranking, Found(version, ranking, r.after))
            IN \A m \in Memes : IF drift = "mixed"
                 THEN \/ page'.memes[m] = page.memes[m] /\ m \notin hits
                      \/ page'.memes[m] = page.memes[m] \o <<version[m]>> /\ m \in hits
                 ELSE page'.memes[m] = IF m \in hits THEN <<version[m]>> ELSE page.memes[m]
        BY <4>1, <4>2
      <4>6. /\ version \in [Memes -> Int] /\ page \in WebPage
            /\ drift \in Drift /\ drift # "reordered" /\ page.memes = NothingShown
        BY <1>1, <4>2
      <4> HIDE DEF r
      <4> QED BY <4>2, <4>3, <4>4, <4>5, <4>6, AnswerShows, SMTT(60)
    <3>2. CASE r.state # "ok"
      <4>1. ASSUME NEW m \in Memes PROVE ShownRight(m, version, page', requests, webJobs, ranking, drift)
        <5>1. ShownRight(m, version, page, requests, webJobs, ranking, drift) /\ ~AboutIn(m, requests, webJobs)
          BY <2>1, <2>3 DEF GridInv
        <5> QED BY <1>3, <1>5, <3>2, <5>1, ShownKept DEF Weaker
      <4>2. CursorRight(version, page', ranking, drift)
        BY <1>3, <1>5, <2>1, <3>2 DEF GridInv, CursorRight
      <4> QED BY <4>1, <4>2
    <3> QED BY <3>1, <3>2
  <2> QED BY <1>1, <2>1, <2>3, SearchedKeeps
<1> QED BY <1>3, <1>6

LEMMA MoreArrives ==
  ASSUME NEW s \in Slots, Arrives(s), requests[s].kind = "more"
  PROVE  /\ page' \in WebPage /\ page'.controller = page.controller
         /\ ~conflict => GridInv(version, page', requests', webJobs, ranking, drift)
<1> DEFINE r == requests[s]
<1>1. /\ r \in WebRequest /\ RequestTyped(r) /\ r.state \in {"ok", "failed"} /\ r.kind = "more"
      /\ r.kind \in Search /\ r.query \in Queries
      /\ version \in [Memes -> Int] /\ page \in WebPage /\ requests \in [Slots -> WebRequest]
      /\ TypedInv(version, page, requests) /\ requests' = [requests EXCEPT ![s] = Free]
  BY DEF Arrives, WebTypeOK, Search, RequestTyped
<1>2. page' = IF r.state = "ok" THEN LoadedMore(r) ELSE [page EXCEPT !.loading = FALSE]
  BY DEF Arrives, Applied, Erred
<1>3. Joined(r.base, r.data) \in Grid
  BY <1>1, JoinedInGrid DEF WebRequest
<1>4. page' \in WebPage /\ page'.controller = page.controller /\ page'.query = page.query
  BY <1>1, <1>2, <1>3 DEF WebPage, WebRequest, LoadedMore
<1>5. r.state = "ok" => page'.memes = Joined(r.base, r.data) /\ page'.next = r.next
  BY <1>1, <1>2 DEF WebPage, LoadedMore
<1>6. r.state # "ok" => /\ page'.memes = page.memes /\ page'.next = page.next /\ page'.more = page.more
  BY <1>1, <1>2 DEF WebPage
<1>7. ASSUME ~conflict PROVE GridInv(version, page', requests', webJobs, ranking, drift)
  <2>1. GridInv(version, page, requests, webJobs, ranking, drift)
    BY <1>7 DEF Arrives
  <2>2. MoreOK(r, version, page, ranking, drift)
    BY <1>1, <2>1 DEF GridInv, RequestOK
  <2>3. ASSUME \A m \in Memes : ~AboutIn(m, requests, webJobs)
        PROVE  /\ \A m \in Memes : ShownRight(m, version, page', requests, webJobs, ranking, drift)
               /\ CursorRight(version, page', ranking, drift)
    <3>0. \A m \in Memes : ~AboutIn(m, requests, webJobs) /\ ShownRight(m, version, page, requests, webJobs, ranking, drift)
      BY <2>1, <2>3 DEF GridInv
    <3>1. CASE r.state = "ok"
      <4> DEFINE hits == Newest(ranking, Found(version, ranking, r.after))
      <4>1. /\ SearchAnswered(r, version, ranking) /\ r.query = page.query
            /\ r.after = page.next /\ r.base = page.memes /\ drift \in Drift /\ drift # "reordered"
            /\ page.next = NoPage => page.memes = NothingShown
        BY <2>2, <3>1 DEF MoreOK, Arrives, WebTypeOK, Drift
      <4>2. ASSUME NEW m \in Memes
            PROVE  /\ m \in hits => page'.memes[m] = page.memes[m] \o <<version[m]>>
                   /\ m \notin hits => page'.memes[m] = page.memes[m]
        <5>1. page.memes[m] \in Seq(Int) /\ page.memes[m] \o <<>> = page.memes[m]
          BY <1>1 DEF WebPage, Grid
        <5>2. page'.memes[m] = page.memes[m] \o r.data[m]
          BY <1>5, <3>1, <4>1 DEF Joined
        <5>3. r.data[m] = IF m \in hits THEN <<version[m]>> ELSE <<>>
          BY <4>1 DEF SearchAnswered, CopiesOf
        <5> QED BY <5>1, <5>2, <5>3
      <4>3. ASSUME NEW m \in hits, drift # "mixed" PROVE page.memes[m] \o <<version[m]>> = <<version[m]>>
        <5>1. /\ m \in Memes /\ ranking[m] \in Nat /\ page.next \in Nat /\ drift = "none"
              /\ r.after = NoPage \/ ranking[m] < r.after
          BY <4>1, <4>3 DEF Newest, Found, Arrives, WebTypeOK, WebPage, Drift
        <5>2. page.memes[m] = <<>>
          <6>1. CASE page.next = NoPage
            BY <4>1, <5>1, <6>1 DEF NothingShown
          <6>2. CASE page.next # NoPage
            <7>1. ~(ranking[m] >= page.next)
              BY <4>1, <5>1, <6>2
            <7> QED BY <3>0, <5>1, <7>1 DEF ShownRight
          <6> QED BY <6>1, <6>2
        <5>3. <<version[m]>> \in Seq(Int)
          BY <1>1, <5>1
        <5> QED BY <5>2, <5>3
      <4>4. \A m \in Memes : IF drift = "mixed"
              THEN \/ page'.memes[m] = page.memes[m] /\ m \notin hits
                   \/ page'.memes[m] = page.memes[m] \o <<version[m]>> /\ m \in hits
              ELSE page'.memes[m] = IF m \in hits THEN <<version[m]>> ELSE page.memes[m]
        <5> HIDE DEF hits
        <5> QED BY <4>2, <4>3
      <4>5. page'.next = r.next /\ page'.query = page.query /\ page.query \in Queries
        BY <1>1, <1>4, <1>5, <3>1, <4>1
      <4> HIDE DEF r
      <4> QED BY <1>1, <3>0, <4>1, <4>4, <4>5, AnswerShows
    <3>2. CASE r.state # "ok"
      <4>1. ASSUME NEW m \in Memes PROVE ShownRight(m, version, page', requests, webJobs, ranking, drift)
        <5>1. ShownRight(m, version, page, requests, webJobs, ranking, drift) /\ ~AboutIn(m, requests, webJobs)
          BY <3>0
        <5> QED BY <1>4, <1>6, <3>2, <5>1, ShownKept DEF Weaker
      <4>2. CursorRight(version, page', ranking, drift)
        BY <1>4, <1>6, <2>1, <3>2 DEF GridInv, CursorRight
      <4> QED BY <4>1, <4>2
    <3> QED BY <3>1, <3>2
  <2> QED BY <1>1, <2>1, <2>3, SearchedKeeps
<1> QED BY <1>4, <1>7

\* What the page has to show of a meme after an answer about it.
ShownAfter(m) ==
  \/ page'.memes[m] = <<>> /\ version[m] <= 0
  \/ /\ Fresh(m, version, page') /\ page'.memes[m] # <<>>
     /\ \/ page.memes[m] # <<>> /\ Len(page'.memes[m]) = Len(page.memes[m])
        \/ /\ Len(page'.memes[m]) <= 1 /\ m \notin Old
           /\ drift = "none" => ranking[m] >= page.next

LEMMA ChangeArrives ==
  ASSUME NEW s \in Slots, Arrives(s), requests[s].kind \in Changing,
         page' \in WebPage, page'.next = page.next, page'.more = page.more,
         page'.query = page.query,
         page'.controller = page.controller,
         \A m \in Memes : m # requests[s].meme => page'.memes[m] = page.memes[m],
         ~conflict => ShownAfter(requests[s].meme)
  PROVE  /\ page' \in WebPage /\ page'.controller = page.controller
         /\ ~conflict => GridInv(version, page', requests', webJobs, ranking, drift)
<1> DEFINE m == requests[s].meme
<1>1. /\ requests \in [Slots -> WebRequest] /\ TypedInv(version, page, requests)
      /\ requests' = [requests EXCEPT ![s] = Free] /\ requests[s].state # "sent"
      /\ version \in [Memes -> Int] /\ m \in Memes
  BY DEF Arrives, WebTypeOK, RequestTyped
<1>2. version[m] \in Int
  BY <1>1
<1>3. ASSUME ~conflict PROVE GridInv(version, page', requests', webJobs, ranking, drift)
  <2>1. GridInv(version, page, requests, webJobs, ranking, drift)
    BY <1>3 DEF Arrives
  <2>2. ShownRight(m, version, page, requests, webJobs, ranking, drift)
    BY <1>1, <2>1 DEF GridInv
  <2>3. ShownAfter(m)
    BY <1>3
  <2> HIDE DEF m
  <2>4. ShownRight(m, version, page', requests', webJobs, ranking, drift)
    <3>1. CASE page'.memes[m] = <<>> /\ version[m] <= 0
      <4>1. Len(<<>>) = 0 /\ ~(version[m] > 0)
        BY <1>2, <3>1
      <4> QED BY <3>1, <4>1 DEF ShownRight
    <3>2. CASE /\ Fresh(m, version, page') /\ page'.memes[m] # <<>>
               /\ page.memes[m] # <<>> /\ Len(page'.memes[m]) = Len(page.memes[m])
      BY <2>2, <3>2 DEF ShownRight, Fresh
    <3>3. CASE /\ Fresh(m, version, page') /\ page'.memes[m] # <<>>
               /\ Len(page'.memes[m]) <= 1 /\ m \notin Old
               /\ drift = "none" => ranking[m] >= page.next
      BY <1>1, <3>3 DEF ShownRight, Fresh
    <3> QED BY <2>3, <3>1, <3>2, <3>3 DEF ShownAfter
  <2> QED BY <1>1, <2>1, <2>4, DeliveredKeeps DEF m
<1> QED BY <1>3

LEMMA UploadArrives ==
  ASSUME NEW s \in Slots, Arrives(s), requests[s].kind = "upload"
  PROVE  /\ page' \in WebPage /\ page'.controller = page.controller
         /\ ~conflict => GridInv(version, page', requests', webJobs, ranking, drift)
<1> DEFINE r == requests[s]
           m == r.meme
<1>1. /\ r \in WebRequest /\ RequestTyped(r) /\ r.kind = "upload"
      /\ r.kind \in Changing /\ m \in Memes /\ r.state \in {"ok", "failed"}
      /\ version \in [Memes -> Int] /\ page \in WebPage /\ ranking \in [Memes -> Nat]
  BY DEF Arrives, WebTypeOK, Changing, RequestTyped
<1>2. page' = IF r.state = "ok" THEN [page EXCEPT !.memes = Joined(r.data, page.memes)] ELSE page
  BY <1>1 DEF Arrives, Applied, Erred
<1>3. page.memes \in Grid /\ r.data \in Grid /\ Joined(r.data, page.memes) \in Grid
  BY <1>1, JoinedInGrid DEF WebPage, WebRequest
<1>4. /\ page' \in WebPage /\ page'.next = page.next /\ page'.more = page.more
      /\ page'.query = page.query /\ page'.controller = page.controller
  BY <1>1, <1>2, <1>3 DEF WebPage
<1>5. page'.memes = IF r.state = "ok" THEN Joined(r.data, page.memes) ELSE page.memes
  BY <1>1, <1>2 DEF WebPage
<1>6. \A k \in Memes : page.memes[k] \in Seq(Int) /\ version[k] \in Int
  BY <1>1, <1>3 DEF Grid
<1> DEFINE created == r.state = "ok" /\ r.data[m] # <<>>
\* Without an answer that says more, all of the others is shown as before.
<1>7. ASSUME NEW k \in Memes, created => r.data[k] = <<>>, r.state = "ok" /\ ~created => r.data = NothingShown
      PROVE  page'.memes[k] = page.memes[k]
  <2>1. <<>> \o page.memes[k] = page.memes[k]
    BY <1>6
  <2>2. r.state = "ok" => r.data[k] = <<>>
    BY <1>7 DEF NothingShown
  <2> QED BY <1>5, <2>1, <2>2 DEF Joined
<1>8. ASSUME UploadOK(r, version, page, drift), CursorRight(version, page, ranking, drift)
      PROVE  /\ \A k \in Memes : k # m => page'.memes[k] = page.memes[k]
             /\ ShownAfter(m)
  <2>1. page.memes[m] = <<>> /\ m \notin Old /\ (page.query \in ByCreation => page.next < m)
    BY <1>8 DEF UploadOK
  <2>2. CASE created
    <3>1. /\ version[m] > 0 /\ r.data = CopyOf(m, version[m])
          /\ page.query \in ByCreation \/ drift # "none"
      BY <1>8, <2>2 DEF UploadOK
    <3>2. ASSUME NEW k \in Memes, k # m PROVE page'.memes[k] = page.memes[k]
      <4>1. r.data[k] = <<>>
        BY <3>1, <3>2 DEF CopyOf
      <4> QED BY <1>7, <2>2, <4>1
    <3>3. page'.memes[m] = <<version[m]>>
      <4>1. r.data[m] = <<version[m]>> /\ <<version[m]>> \o <<>> = <<version[m]>>
        BY <1>1, <1>6, <3>1 DEF CopyOf
      <4>2. page'.memes = [k \in Memes |-> r.data[k] \o page.memes[k]]
        BY <1>5, <2>2 DEF Joined
      <4> QED BY <1>1, <2>1, <4>1, <4>2
    <3>4. ASSUME drift = "none" PROVE ranking[m] >= page.next
      <4>1. page.query \in ByCreation /\ page.next < m
        BY <2>1, <3>1, <3>4
      <4>2. CASE page.next = NoPage
        <5>1. ranking[m] \in Nat
          BY <1>1
        <5> QED BY <4>2, <5>1 DEF NoPage
      <4>3. CASE page.next # NoPage
        <5>1. ranking \in Rankings[page.query]
          BY <1>8, <3>4, <4>3 DEF CursorRight
        <5>2. ranking = [k \in Memes |-> k]
          BY <4>1, <5>1, WebAssumption
        <5>3. ranking[m] = m /\ m \in Nat /\ page.next \in Nat
          BY <1>1, <5>2, WebAssumption DEF WebPage
        <5> QED BY <4>1, <5>3
      <4> QED BY <4>2, <4>3
    <3>5. /\ page'.memes[m] # <<>> /\ Len(page'.memes[m]) <= 1
          /\ \A i \in DOMAIN page'.memes[m] : page'.memes[m][i] = version[m]
      BY <3>3
    <3> QED BY <2>1, <3>1, <3>2, <3>4, <3>5 DEF ShownAfter, Fresh
  <2>3. CASE ~created
    <3>1. version[m] = 0 /\ (r.state = "ok" => r.data = NothingShown)
      BY <1>8, <2>3 DEF UploadOK
    <3>2. \A k \in Memes : page'.memes[k] = page.memes[k]
      BY <1>7, <2>3, <3>1
    <3> QED BY <1>1, <2>1, <3>1, <3>2 DEF ShownAfter
  <2> QED BY <2>2, <2>3
<1> HIDE DEF created
<1>9. CASE conflict
  BY <1>4, <1>9
<1>10. CASE ~conflict
  <2>1. GridInv(version, page, requests, webJobs, ranking, drift)
    BY <1>10 DEF Arrives
  <2>2. UploadOK(r, version, page, drift) /\ CursorRight(version, page, ranking, drift)
    BY <1>1, <2>1 DEF GridInv, RequestOK
  <2>3. /\ \A k \in Memes : k # m => page'.memes[k] = page.memes[k]
        /\ ShownAfter(m)
    BY <1>8, <2>2
  <2> QED BY <1>1, <1>4, <2>3, ChangeArrives, Zenon
<1> QED BY <1>9, <1>10

\* The meme an answer brings takes the place of the one shown.
LEMMA CopyReplaces ==
  ASSUME NEW memes \in Grid, NEW m \in Memes, NEW x \in Int, memes[m] # <<>>
  PROVE  /\ Replaced(memes, m, x)[m] # <<>> /\ Len(Replaced(memes, m, x)[m]) = Len(memes[m])
         /\ \A i \in DOMAIN Replaced(memes, m, x)[m] : Replaced(memes, m, x)[m][i] = x
<1>1. memes[m] \in Seq(Int) /\ DOMAIN memes = Memes
  BY DEF Grid
<1> DEFINE n == Len(memes[m])
           c == [i \in 1 .. n |-> x]
<1>2. n \in Nat /\ n # 0 /\ DOMAIN memes[m] = 1 .. n
  BY <1>1
<1>3. Replaced(memes, m, x)[m] = c
  BY <1>1, <1>2 DEF Replaced
<1> HIDE DEF n
<1>4. Len(c) = n /\ c # <<>> /\ \A i \in DOMAIN c : c[i] = x
  BY <1>2
<1> QED BY <1>3, <1>4 DEF n

LEMMA UpdateArrives ==
  ASSUME NEW s \in Slots, Arrives(s), requests[s].kind \in {"update", "recompute"}
  PROVE  /\ page' \in WebPage /\ page'.controller = page.controller
         /\ ~conflict => GridInv(version, page', requests', webJobs, ranking, drift)
<1> DEFINE r == requests[s]
           m == r.meme
           x == r.data[m][1]
<1>1. /\ r \in WebRequest /\ RequestTyped(r)
      /\ r.kind \in {"update", "recompute"} /\ r.kind \in Changing
      /\ m \in Memes /\ r.state \in {"ok", "failed"}
      /\ version \in [Memes -> Int] /\ page \in WebPage /\ page.memes \in Grid
  BY DEF Arrives, WebTypeOK, Changing, RequestTyped, WebPage
<1>2. page' = IF r.state = "ok" THEN [page EXCEPT !.memes = Replaced(page.memes, m, x)] ELSE page
  BY <1>1 DEF Arrives, Applied, Erred
<1>3. r.state = "ok" => x \in Int
  <2>1. r.data[m] \in Seq(Int)
    BY <1>1 DEF WebRequest, Grid
  <2>2. r.state = "ok" => r.data[m] # <<>>
    BY <1>1 DEF RequestTyped
  <2> QED BY <2>1, <2>2
<1>4. r.state = "ok" => Replaced(page.memes, m, x) \in Grid
  <2> HIDE DEF x
  <2> QED BY <1>1, <1>3, ReplacedInGrid
<1>5. /\ page' \in WebPage /\ page'.next = page.next /\ page'.more = page.more
      /\ page'.query = page.query /\ page'.controller = page.controller
  <2> HIDE DEF x, m, r
  <2> QED BY <1>1, <1>2, <1>4 DEF WebPage
<1>6. page'.memes = IF r.state = "ok" THEN Replaced(page.memes, m, x) ELSE page.memes
  <2> HIDE DEF x, m, r
  <2> QED BY <1>1, <1>2 DEF WebPage
<1>7. \A k \in Memes : k # m => page'.memes[k] = page.memes[k]
  BY <1>1, <1>6 DEF Replaced, Grid
<1>8. ASSUME ~conflict PROVE ShownAfter(m)
  <2>1. GridInv(version, page, requests, webJobs, ranking, drift)
    BY <1>8 DEF Arrives
  <2>2. RequestOK(r, version, page, webJobs, ranking, drift) /\ ShownRight(m, version, page, requests, webJobs, ranking, drift)
    BY <1>1, <2>1 DEF GridInv
  <2>3. /\ version[m] > 0 /\ page.memes[m] # <<>>
        /\ IF r.state = "ok" THEN r.data = CopyOf(m, version[m]) ELSE Fresh(m, version, page)
    BY <1>1, <2>2 DEF RequestOK, UpdateOK, RecomputeOK
  <2>4. Fresh(m, version, page') /\ page'.memes[m] # <<>> /\ Len(page'.memes[m]) = Len(page.memes[m])
    <3>1. CASE r.state = "ok"
      <4>1. x = version[m]
        <5>1. r.data[m] = <<version[m]>>
          BY <1>1, <2>3, <3>1 DEF CopyOf
        <5> QED BY <5>1
      <4> HIDE DEF x
      <4>2. /\ page'.memes[m] # <<>> /\ Len(page'.memes[m]) = Len(page.memes[m])
            /\ \A i \in DOMAIN page'.memes[m] : page'.memes[m][i] = x
        <5>1. page'.memes = Replaced(page.memes, m, x) /\ x \in Int
          BY <1>3, <1>6, <3>1
        <5> QED BY <1>1, <2>3, <5>1, CopyReplaces
      <4> QED BY <2>3, <4>1, <4>2 DEF Fresh
    <3>2. CASE r.state # "ok"
      BY <1>6, <2>3, <3>2 DEF Fresh
    <3> QED BY <3>1, <3>2
  <2> QED BY <2>3, <2>4 DEF ShownAfter
<1> QED BY <1>1, <1>5, <1>7, <1>8, ChangeArrives, Zenon

LEMMA DeleteArrives ==
  ASSUME NEW s \in Slots, Arrives(s), requests[s].kind = "delete"
  PROVE  /\ page' \in WebPage /\ page'.controller = page.controller
         /\ ~conflict => GridInv(version, page', requests', webJobs, ranking, drift)
<1> DEFINE r == requests[s]
           m == r.meme
<1>1. /\ r \in WebRequest /\ RequestTyped(r) /\ r.kind = "delete" /\ r.kind \in Changing
      /\ m \in Memes /\ r.state \in {"ok", "failed"}
      /\ version \in [Memes -> Int] /\ page \in WebPage /\ page.memes \in Grid
  BY DEF Arrives, WebTypeOK, Changing, RequestTyped, WebPage
<1>2. page' = IF r.state = "ok" THEN [page EXCEPT !.memes[m] = <<>>] ELSE page
  BY <1>1 DEF Arrives, Applied, Erred
<1>3. [page.memes EXCEPT ![m] = <<>>] \in Grid
  <2>1. <<>> \in Seq(Int)
    OBVIOUS
  <2> QED BY <1>1, <2>1 DEF Grid
<1>4. /\ page' \in WebPage /\ page'.next = page.next /\ page'.more = page.more
      /\ page'.query = page.query /\ page'.controller = page.controller
      /\ page'.memes = IF r.state = "ok" THEN [page.memes EXCEPT ![m] = <<>>] ELSE page.memes
  <2> HIDE DEF m, r
  <2> QED BY <1>1, <1>2, <1>3 DEF WebPage
<1>5. /\ \A k \in Memes : k # m => page'.memes[k] = page.memes[k]
      /\ r.state = "ok" => page'.memes[m] = <<>>
  BY <1>1, <1>4 DEF Grid
<1>6. ASSUME ~conflict PROVE ShownAfter(m)
  <2>1. GridInv(version, page, requests, webJobs, ranking, drift)
    BY <1>6 DEF Arrives
  <2>2. RequestOK(r, version, page, webJobs, ranking, drift) /\ ShownRight(m, version, page, requests, webJobs, ranking, drift)
    BY <1>1, <2>1 DEF GridInv
  <2>3. IF r.state = "ok" THEN version[m] <= 0
        ELSE Fresh(m, version, page) /\ page.memes[m] # <<>> /\ page'.memes = page.memes
    BY <1>1, <1>4, <2>2 DEF RequestOK, DeleteOK
  <2> QED BY <1>5, <2>3 DEF ShownAfter, Fresh
<1> QED BY <1>1, <1>4, <1>5, <1>6, ChangeArrives, Zenon

LEMMA DeliverKeeps ==
  ASSUME WebInv, NEW s \in Slots, Deliver(s)
  PROVE  WebInv'
<1>1. /\ WebTypeOK /\ TypedInv(version, page, requests)
      /\ ~conflict => GridInv(version, page, requests, webJobs, ranking, drift)
      /\ requests \in [Slots -> WebRequest] /\ requests[s] \in WebRequest
      /\ RequestTyped(requests[s])
  BY DEF WebInv, WebTypeOK, TypedInv
<1>2. /\ requests[s].kind # "none" /\ requests[s].state # "sent"
      /\ page' = IF requests[s].state = "ok" THEN Applied(requests[s]) ELSE Erred(requests[s])
      /\ requests' = [requests EXCEPT ![s] = Free]
      /\ UNCHANGED <<version, webJobs, ranking, clicks, mishaps, drift, conflict>>
  BY DEF Deliver
<1>3. Arrives(s)
  <2>1. requests[s].state \in {"ok", "failed"}
    BY <1>1, <1>2 DEF WebRequest
  <2> QED BY <1>1, <1>2, <2>1 DEF Arrives
<1>4. /\ page' \in WebPage
      /\ page'.controller = IF requests[s].kind = "load" THEN NoSlot ELSE page.controller
      /\ ~conflict => GridInv(version, page', requests', webJobs, ranking, drift)
  <2>1. requests[s].kind \in {"load", "more", "upload", "update", "delete", "recompute"}
    BY <1>1, <1>2 DEF WebRequest
  <2>2. CASE requests[s].kind = "load"
    BY <1>3, <2>2, LoadArrives
  <2>3. CASE requests[s].kind = "more"
    BY <1>3, <2>3, MoreArrives
  <2>4. CASE requests[s].kind = "upload"
    BY <1>3, <2>4, UploadArrives
  <2>5. CASE requests[s].kind \in {"update", "recompute"}
    BY <1>3, <2>5, UpdateArrives
  <2>6. CASE requests[s].kind = "delete"
    BY <1>3, <2>6, DeleteArrives
  <2> QED BY <2>1, <2>2, <2>3, <2>4, <2>5, <2>6
<1>5. /\ requests' \in [Slots -> WebRequest] /\ requests'[s] = Free
      /\ \A t \in Slots \ {s} : requests'[t] = requests[t]
  BY <1>1, <1>2, FreeFacts
<1>6. WebTypeOK'
  BY <1>1, <1>2, <1>4, <1>5 DEF WebTypeOK
<1>7. TypedInv(version', page', requests')
  <2>1. \A t \in Slots : RequestTyped(requests'[t])
    BY <1>1, <1>5, FreeFacts DEF TypedInv
  <2>2. Free.kind = "none" /\ NoSlot \notin Slots /\ page.controller \in Slots \cup {NoSlot}
    BY <1>1, FreeFacts, WebAssumption DEF WebTypeOK, WebPage
  <2>3. ControllerInv(page', requests')
    <3>1. ControllerInv(page, requests)
      BY <1>1 DEF TypedInv
    <3>2. CASE requests[s].kind = "load"
      BY <1>4, <1>5, <2>2, <3>1, <3>2 DEF ControllerInv
    <3>3. CASE requests[s].kind # "load"
      BY <1>4, <1>5, <2>2, <3>1, <3>3 DEF ControllerInv
    <3> QED BY <3>2, <3>3
  <2> QED BY <1>1, <1>2, <2>1, <2>3 DEF TypedInv
<1>8. ~conflict' => GridInv(version', page', requests', webJobs', ranking', drift')
  BY <1>2, <1>4
<1> QED BY <1>6, <1>7, <1>8 DEF WebInv

-----------------------------------------------------------------------------
(* The theorems *)

LEMMA InitWeb == WebInit => WebInv
<1> SUFFICES ASSUME WebInit PROVE WebInv
  OBVIOUS
<1>1. /\ version = [m \in Memes |-> IF m \in Old THEN 1 ELSE 0]
      /\ webJobs = [m \in Memes |-> "none"]
      /\ page = [query |-> "none", memes |-> NothingShown, next |-> NoPage, more |-> TRUE,
                 loading |-> FALSE, controller |-> NoSlot]
      /\ requests = [s \in Slots |-> Free]
      /\ clicks = 0 /\ mishaps = 0 /\ conflict = FALSE
      /\ ranking = [m \in Memes |-> 0] /\ drift = "none"
  BY DEF WebInit
<1>2. WebTypeOK
  <2>1. version \in [Memes -> Int] /\ webJobs \in [Memes -> {"none", "running", "done", "failed"}]
    BY <1>1
  <2>2. page \in WebPage
    BY <1>1, NothingInGrid DEF WebPage, NoPage
  <2>3. /\ requests \in [Slots -> WebRequest] /\ clicks \in Nat
        /\ mishaps \in Nat /\ conflict \in BOOLEAN
        /\ ranking \in [Memes -> Nat] /\ drift \in {"none", "reordered", "mixed"}
    BY <1>1, FreeFacts
  <2> QED BY <2>1, <2>2, <2>3 DEF WebTypeOK
<1>3. \A s \in Slots : requests[s] = Free
  BY <1>1
<1>4. TypedInv(version, page, requests)
  BY <1>1, <1>3, FreeFacts, WebAssumption DEF TypedInv, ControllerInv
<1>5. Apart(requests, webJobs)
  BY <1>1, <1>3, FreeFacts DEF Apart, Search
<1>6. \A m \in Memes : ShownRight(m, version, page, requests, webJobs, ranking, drift)
  <2>1. page.query \notin Queries /\ Len(<<>>) = 0 /\ \A m \in Memes : page.memes[m] = <<>>
    BY <1>1, WebAssumption DEF NothingShown
  <2> QED BY <2>1 DEF ShownRight
<1>7. \A s \in Slots : RequestOK(requests[s], version, page, webJobs, ranking, drift)
  BY <1>3, FreeFacts DEF RequestOK
<1>8. CursorRight(version, page, ranking, drift)
  BY <1>1 DEF CursorRight
<1> QED BY <1>2, <1>4, <1>5, <1>6, <1>7, <1>8 DEF WebInv, GridInv

LEMMA ClickKeeps ==
  ASSUME WebInv, Click
  PROVE  WebInv'
<1>1. PICK s \in Slots : \/ \E q \in Queries : Load(s, q)
                         \/ LoadMore(s) \/ StartUpload(s) \/ HandleRecompute(s)
                         \/ HandleConfirmDelete(s) \/ HandleFieldSave(s)
  BY DEF Click
<1>2. CASE \E q \in Queries : Load(s, q)
  BY <1>2, LoadKeeps
<1>3. CASE LoadMore(s)
  BY <1>3, LoadMoreKeeps
<1>4. CASE StartUpload(s)
  BY <1>4, StartUploadKeeps
<1>5. ASSUME NEW m \in Shown, NEW kind \in {"update", "delete", "recompute"},
             SendRequest(s, RequestAbout(kind, m), {}), page' = page, drift' = drift
      PROVE  WebInv'
  BY <1>5, SentAboutShown
<1>6. CASE HandleRecompute(s)
  <2>1. page' = page /\ drift' = drift /\ \E m \in Shown : SendRequest(s, RequestAbout("recompute", m), {})
    BY <1>6, Zenon DEF HandleRecompute
  <2> QED BY <1>5, <2>1
<1>7. CASE HandleConfirmDelete(s)
  <2>1. page' = page /\ drift' = drift /\ \E m \in Shown : SendRequest(s, RequestAbout("delete", m), {})
    BY <1>7, Zenon DEF HandleConfirmDelete
  <2> QED BY <1>5, <2>1
<1>8. CASE HandleFieldSave(s)
  <2>1. page' = page /\ drift' = drift /\ \E m \in Shown : SendRequest(s, RequestAbout("update", m), {})
    BY <1>8, Zenon DEF HandleFieldSave
  <2> QED BY <1>5, <2>1
<1> QED BY <1>1, <1>2, <1>3, <1>4, <1>6, <1>7, <1>8

LEMMA WebNextKeeps == WebInv /\ [WebNext]_webVars => WebInv'
<1> SUFFICES ASSUME WebInv, [WebNext]_webVars PROVE WebInv'
  OBVIOUS
<1>1. CASE Click
  BY <1>1, ClickKeeps
<1>2. CASE WebStep
  <2>1. PICK s \in Slots : \/ SearchMemes(s) \/ GetUploadUrl(s) \/ UploadToS3Post(s)
                           \/ ParseByToken(s)
                           \/ ServeUpdate(s) \/ ServeDelete(s)
                           \/ StartRecomputeJobById(s) \/ PollRecompute(s) \/ GetRecomputed(s)
                           \/ Deliver(s)
    BY <1>2 DEF WebStep
  <2>2. CASE SearchMemes(s)
    BY <2>2, SearchMemesKeeps
  <2>3. CASE GetUploadUrl(s) \/ UploadToS3Post(s)
    <3>1. Awaits(s, "upload") /\ requests[s].stage \in 1 .. 2 /\ NextStage(s)
      BY <2>3 DEF GetUploadUrl, UploadToS3Post
    <3> QED BY <3>1, NextStageKeeps
  <2>4. CASE ParseByToken(s)
    BY <2>4, ParseByTokenKeeps
  <2>5. CASE ServeUpdate(s)
    BY <2>5, ServeUpdateKeeps
  <2>6. CASE ServeDelete(s)
    BY <2>6, ServeDeleteKeeps
  <2>7. CASE StartRecomputeJobById(s)
    BY <2>7, StartRecomputeKeeps
  <2>8. CASE PollRecompute(s)
    BY <2>8, PollRecomputeKeeps
  <2>9. CASE GetRecomputed(s)
    BY <2>9, GetRecomputedKeeps
  <2>10. CASE Deliver(s)
    BY <2>10, DeliverKeeps
  <2> QED BY <2>1, <2>2, <2>3, <2>4, <2>5, <2>6, <2>7, <2>8, <2>9, <2>10
<1>3. CASE \E m \in Memes : RecomputeEnds(m)
  BY <1>3, RecomputeEndsKeeps
<1>4. CASE UNCHANGED webVars
  <2>1. /\ version' = version /\ webJobs' = webJobs /\ page' = page /\ requests' = requests
        /\ clicks' = clicks /\ mishaps' = mishaps /\ conflict' = conflict
        /\ ranking' = ranking /\ drift' = drift
    BY <1>4 DEF webVars
  <2>2. WebTypeOK' /\ TypedInv(version', page', requests')
    BY <2>1 DEF WebInv, WebTypeOK
  <2>3. ~conflict' => GridInv(version', page', requests', webJobs', ranking', drift')
    BY <2>1 DEF WebInv
  <2> QED BY <2>2, <2>3 DEF WebInv
<1> QED BY <1>1, <1>2, <1>3, <1>4 DEF WebNext

\* The invariant of the page: what each request under way may rely on, and what the grid
\* shows meanwhile.
THEOREM WebInvariant == WebSpec => []WebInv
<1>1. WebInv /\ [WebNext]_webVars => WebInv'
  BY WebNextKeeps
<1> QED BY <1>1, InitWeb, PTL DEF WebSpec

\* The store of the page, the requests and their answers stay in their types.
THEOREM WebTypes == WebSpec => []WebTypeOK
<1>1. WebInv => WebTypeOK
  BY DEF WebInv
<1> QED BY <1>1, WebInvariant, PTL

\* However searches, uploads, edits, deletions and recomputes are answered, the grid is
\* what the current query finds, unless requests were in conflict.
THEOREM GridShowsQuery == WebSpec => []ShowsCurrentQuery
<1>1. WebInv => ShowsCurrentQuery
  <2> SUFFICES ASSUME WebInv, ~conflict PROVE ShowsCurrentQuery
    BY DEF ShowsCurrentQuery
  <2>1. ASSUME NEW m \in Memes
        PROVE  /\ ShownRight(m, version, page, requests, webJobs, ranking, drift)
               /\ AboutIn(m, requests, webJobs) <=> About(m)
               /\ CompleteIn(m, page, ranking) <=> Complete(m)
    BY DEF WebInv, GridInv, About, AboutIn, CompleteIn, Complete
  <2>2. page \in WebPage
    BY DEF WebInv, WebTypeOK
  <2>3. ASSUME NEW m \in Shown
        PROVE  /\ m \in (Memes \ Old) \/ m \in Matching(page.query)
               /\ About(m) \/ \A i \in DOMAIN page.memes[m] : page.memes[m][i] = version[m]
               /\ Len(page.memes[m]) = 1 \/ drift = "mixed"
    <3>1. m \in Memes /\ page.memes[m] # <<>>
      BY DEF Shown
    <3>2. page.memes[m] \in Seq(Int)
      BY <2>2, <3>1 DEF WebPage, Grid
    <3>3. Len(page.memes[m]) = 1 \/ drift = "mixed"
      <4> DEFINE n == Len(page.memes[m])
      <4>1. drift # "mixed" => n <= 1
        BY <2>1, <3>1 DEF ShownRight
      <4>2. n \in Nat /\ n # 0
        BY <3>1, <3>2
      <4> HIDE DEF n
      <4>3. drift # "mixed" => n = 1
        BY <4>1, <4>2
      <4> QED BY <4>3 DEF n
    <3> QED BY <2>1, <3>1, <3>3 DEF ShownRight, Fresh
  <2>4. ASSUME page.query \in Queries, drift # "mixed",
               NEW m \in Memes, Stored(m), ranking[m] > 0, Complete(m)
        PROVE  m \in Shown \/ About(m)
    BY <2>1, <2>4 DEF ShownRight, Stored, Shown
  <2> QED BY <2>3, <2>4 DEF ShowsCurrentQuery
<1> QED BY <1>1, WebInvariant, PTL

-----------------------------------------------------------------------------
(* The machines together *)

\* Whichever machine runs, each of the four behaves as it is specified: the one that runs
\* takes its own steps and the others stutter.
THEOREM MachinesAreTheirSpecs ==
  Services => MigratorSpec /\ ExtractSpec /\ BotSpec /\ WebSpec
<1>1. ServicesInit => MigratorInit /\ ExtractInit /\ BotInit /\ WebInit
  BY DEF ServicesInit, MachineInit
<1>2. [ServicesNext]_Vars => /\ [MigratorNext]_migratorVars /\ [ExtractNext]_extractVars
                             /\ [BotNext]_botVars /\ [WebNext]_webVars
  <2>1. ASSUME UNCHANGED Vars
        PROVE  UNCHANGED migratorVars /\ UNCHANGED extractVars /\ UNCHANGED botVars /\ UNCHANGED webVars
    BY <2>1 DEF Vars
  <2>2. ASSUME ServicesNext
        PROVE  \/ ExtractNext /\ UNCHANGED migratorVars /\ UNCHANGED botVars /\ UNCHANGED webVars
               \/ BotNext /\ UNCHANGED migratorVars /\ UNCHANGED extractVars /\ UNCHANGED webVars
               \/ MigratorNext /\ UNCHANGED extractVars /\ UNCHANGED botVars /\ UNCHANGED webVars
               \/ WebNext /\ UNCHANGED migratorVars /\ UNCHANGED extractVars /\ UNCHANGED botVars
    BY <2>2 DEF ServicesNext
  <2> QED BY <2>1, <2>2
<1> QED BY <1>1, <1>2, PTL DEF Services, MigratorSpec, ExtractSpec, BotSpec, WebSpec

\* Every variable of every machine keeps its type.
THEOREM AllTypesHold ==
  ASSUME RowsAreOrdered, BoundsAreNaturals
  PROVE  Services => []TypesOK
<1>1. MigratorInv => MigratorTypeOK
  BY DEF MigratorInv
<1>2. MigratorTypeOK /\ ExtractTypeOK /\ BotTypeOK /\ WebTypeOK => TypesOK
  BY DEF TypesOK
<1>3. BotSpec => []BotTypeOK
  BY TypesHold
<1> QED BY <1>1, <1>2, <1>3, MachinesAreTheirSpecs, MigratorInvariant, ExtractTypes, WebTypes, PTL

\* What is proved of each machine holds of the four together: no migration loses an
\* embedding, videos are covered and saved complete and given up only for what is not
\* retried, the bot does only what its user may and says what is so, and the page shows
\* what its query finds.
THEOREM PromisesAreKept ==
  ASSUME RowsAreOrdered, AccountsLinkedOnce, BoundsAreNaturals
  PROVE  Services => [](/\ SlicesCoverVideo /\ ResultsMatchSlices /\ SurvivesTransientFailures
                        /\ OnlyPermitted /\ RepliesTellTruth
                        /\ NoEmbeddingLost /\ ShowsCurrentQuery)
<1>1. BotSpec => []OnlyPermitted
  BY BotDoesOnlyPermitted
<1>2. BotSpec => []RepliesTellTruth
  BY BotTellsTruth
<1> QED BY <1>1, <1>2, MachinesAreTheirSpecs, NoLoss, VideosAreCovered, ResultsAreComplete,
           TransientFailuresAreSurvived, GridShowsQuery, PTL

=============================================================================
