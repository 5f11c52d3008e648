----------------------------- MODULE IndexMigrator -----------------------------
(****************************************************************************)
(* The migrations of the metadata index.  Every replica of storage-service  *)
(* brings the index up to date before it serves, several may do so at once, *)
(* and each may stop between any two calls: the last migration is recorded  *)
(* only after its request has ended, and the request itself goes on in      *)
(* Elasticsearch, document by document, whatever becomes of who sent it.    *)
(****************************************************************************)
EXTENDS Naturals, FiniteSets

CONSTANTS
  Docs,        \* documents in the index
  OldDocs,     \* contents they may have before the migrations
  Replicas,    \* of storage-service
  MaxCrashes   \* bound: replicas that stop

\* What the migrations tell apart in a document: the embedding of the first version, the
\* number of "image" embeddings in EmbeddingList, and whether it has a Type.
Doc == [v1 : BOOLEAN, images : Nat, typed : BOOLEAN]

\* A meme has an embedding, and not two of the same kind.
Lossless(doc) == doc.images <= 1 /\ (doc.v1 \/ doc.images = 1)

ASSUME MigratorAssumption ==
  /\ OldDocs \subseteq {doc \in Doc : Lossless(doc)}
  /\ MaxCrashes \in Nat

VARIABLES
  content,       \* the documents
  historyIndex,  \* it exists
  history,       \* number of the last migration recorded, 0 for none
  replica,       \* step of each replica and the number of its next migration
  task,          \* the last request each sent: its migration, the documents still to be
                 \* visited, those not written since it was sent, and how it ended
  crashes        \* history: how many replicas stopped

migratorVars == <<content, historyIndex, history, replica, task, crashes>>

Last == 5

TaskState == {"none", "running", "ok", "failed"}
MigratorSteps == {"down", "ensure", "create", "read", "request", "wait", "save", "serving"}

MigratorInit ==
  /\ content \in [Docs -> OldDocs] /\ historyIndex \in BOOLEAN /\ history = 0
  /\ replica = [r \in Replicas |-> [step |-> "down", next |-> 0]]
  /\ task = [r \in Replicas |-> [m |-> 0, todo |-> {}, fresh |-> {}, state |-> "none"]]
  /\ crashes = 0

-----------------------------------------------------------------------------
(* The migrations *)

\* The queries: 0002 and 0004 take the documents with EmbeddingV1, 0005 those without Type;
\* 0001 and 0003 change the mapping only.
Matches(m, doc) == CASE m \in {2, 4} -> doc.v1
                     [] m = 5 -> ~doc.typed
                     [] OTHER -> FALSE

\* The scripts: 0002 copies EmbeddingV1 unless there is an "image" already.
Script(m, doc) == CASE m = 2 -> [doc EXCEPT !.images = IF @ = 0 THEN 1 ELSE @]
                    [] m = 4 -> [doc EXCEPT !.v1 = FALSE]
                    [] m = 5 -> [doc EXCEPT !.typed = TRUE]
                    [] OTHER -> doc

-----------------------------------------------------------------------------
(* Migrate *)

At(r, step) == replica[r].step = step
Go(r, step) == replica' = [replica EXCEPT ![r].step = step]

Start(r) ==
  /\ At(r, "down")
  /\ Go(r, "ensure")
  /\ UNCHANGED <<content, historyIndex, history, task, crashes>>

\* ensureHistoryIndex asks first and creates then; that another has done so meanwhile is an error.
EnsureHistoryIndex(r) ==
  /\ At(r, "ensure")
  /\ Go(r, IF historyIndex THEN "read" ELSE "create")
  /\ UNCHANGED <<content, historyIndex, history, task, crashes>>

CreateHistoryIndex(r) ==
  /\ At(r, "create")
  /\ Go(r, IF historyIndex THEN "down" ELSE "read")
  /\ historyIndex' = TRUE
  /\ UNCHANGED <<content, history, task, crashes>>

After(last) == IF last = Last THEN "serving" ELSE "request"

GetLastMigration(r) ==
  /\ At(r, "read")
  /\ replica' = [replica EXCEPT ![r] = [step |-> After(history), next |-> history + 1]]
  /\ UNCHANGED <<content, historyIndex, history, task, crashes>>

\* Bound: an earlier request of the same replica has ended.
Request(r) ==
  LET m == replica[r].next
      todo == {d \in Docs : Matches(m, content[d])}
  IN /\ At(r, "request") /\ task[r].state # "running"
     /\ task' = [task EXCEPT ![r] = [m |-> m, todo |-> todo, fresh |-> Docs, state |-> "running"]]
     /\ Go(r, "wait")
     /\ UNCHANGED <<content, historyIndex, history, crashes>>

\* The requests that run see a document written by another as a version conflict.
Written(tasks, r, d) ==
  [s \in Replicas |-> IF s = r THEN tasks[s] ELSE [tasks[s] EXCEPT !.fresh = @ \ {d}]]

\* A version conflict ends _update_by_query with an error.
UpdateByQuery(r, d) ==
  /\ task[r].state = "running" /\ d \in task[r].todo
  /\ IF d \in task[r].fresh
       THEN /\ content' = [content EXCEPT ![d] = Script(task[r].m, @)]
            /\ task' = Written([task EXCEPT ![r].todo = @ \ {d}], r, d)
       ELSE /\ task' = [task EXCEPT ![r].state = "failed"]
            /\ UNCHANGED content
  /\ UNCHANGED <<historyIndex, history, replica, crashes>>

EndRequest(r) ==
  /\ task[r].state = "running" /\ task[r].todo = {}
  /\ task' = [task EXCEPT ![r].state = "ok"]
  /\ UNCHANGED <<content, historyIndex, history, replica, crashes>>

\* Mutant of Answer: the status of the response is not looked at.
AnswerUnchecked(r) ==
  /\ At(r, "wait") /\ task[r].state \in {"ok", "failed"}
  /\ Go(r, "save")
  /\ UNCHANGED <<content, historyIndex, history, task, crashes>>

\* A failed migration is not recorded: the process exits, and begins anew.
Answer(r) ==
  /\ At(r, "wait") /\ task[r].state \in {"ok", "failed"}
  /\ Go(r, IF task[r].state = "ok" THEN "save" ELSE "down")
  /\ UNCHANGED <<content, historyIndex, history, task, crashes>>

\* (it overwrites what another replica recorded, which may be a later one)
SaveLastMigration(r) ==
  /\ At(r, "save")
  /\ history' = replica[r].next
  /\ replica' = [replica EXCEPT ![r] = [step |-> After(@.next), next |-> @.next + 1]]
  /\ UNCHANGED <<content, historyIndex, task, crashes>>

\* The process stops, or a call of it fails.
Crash(r) ==
  /\ ~At(r, "down") /\ crashes < MaxCrashes
  /\ crashes' = crashes + 1
  /\ Go(r, "down")
  /\ UNCHANGED <<content, historyIndex, history, task>>

\* A serving replica saves documents with an embedding of their own and a type.
Saved == [v1 |-> FALSE, images |-> 1, typed |-> TRUE]

Save(r, d) ==
  /\ At(r, "serving")
  /\ content' = [content EXCEPT ![d] = Saved]
  /\ task' = [s \in Replicas |-> [task[s] EXCEPT !.fresh = @ \ {d}]]
  /\ UNCHANGED <<historyIndex, history, replica, crashes>>

Migrate(r) == \/ Start(r) \/ EnsureHistoryIndex(r) \/ CreateHistoryIndex(r) \/ GetLastMigration(r)
              \/ Request(r) \/ EndRequest(r) \/ Answer(r) \/ SaveLastMigration(r) \/ Crash(r)

MigratorNext == \E r \in Replicas : Migrate(r) \/ \E d \in Docs : UpdateByQuery(r, d) \/ Save(r, d)

MigratorSpec == MigratorInit /\ [][MigratorNext]_migratorVars

-----------------------------------------------------------------------------
(* Properties *)

MigratorTypeOK ==
  /\ content \in [Docs -> Doc] /\ historyIndex \in BOOLEAN /\ history \in 0 .. Last
  /\ replica \in [Replicas -> [step : MigratorSteps, next : 0 .. Last + 1]]
  /\ task \in [Replicas -> [m : 0 .. Last, todo : SUBSET Docs, fresh : SUBSET Docs,
                            state : TaskState]]
  /\ crashes \in 0 .. MaxCrashes

\* What a document is like after the first n migrations.
Reached(n, doc) == /\ n >= 2 => doc.images = 1
                   /\ n >= 4 => ~doc.v1
                   /\ n >= 5 => doc.typed

AllReached(n) == \A d \in Docs : Reached(n, content[d])

\* No document loses its embedding or gets it twice, however replicas and their requests
\* overlap, conflict and stop; and a replica serves only documents that are migrated.
NoEmbeddingLost ==
  /\ \A d \in Docs : Lossless(content[d])
  /\ \A r \in Replicas : At(r, "serving") => AllReached(Last)

\* The inductive invariant: what is recorded, and what a replica or its request has behind
\* it, is true of every document.
ReplicaInv(r) ==
  /\ replica[r].next > 0 => AllReached(replica[r].next - 1)
  /\ At(r, "serving") => replica[r].next = Last + 1
  /\ replica[r].step \in {"request", "wait", "save"} => replica[r].next \in 1 .. Last
  /\ At(r, "wait") => task[r].m = replica[r].next /\ task[r].state # "none"
  /\ At(r, "save") => AllReached(replica[r].next)

TaskInv(r) ==
  /\ task[r].state # "none" => task[r].m \in 1 .. Last
  /\ task[r].state = "running" =>
       /\ AllReached(task[r].m - 1)
       /\ \A d \in Docs \ task[r].todo : Reached(task[r].m, content[d])
  /\ task[r].state = "ok" => AllReached(task[r].m)

MigratorInv ==
  /\ MigratorTypeOK
  /\ \A d \in Docs : Lossless(content[d])
  /\ AllReached(history)
  /\ \A r \in Replicas : ReplicaInv(r) /\ TaskInv(r)

=============================================================================
