------------------------------ MODULE MemeStore ------------------------------
(****************************************************************************)
(* The storage service's meme store: metadata documents in Elasticsearch    *)
(* and, under the meme's S3 id, an original and a thumbnail blob.  No       *)
(* transaction spans the two stores and no lock serialises the requests:    *)
(* each RPC handler and each recompute worker is a process that performs    *)
(* one remote call per step, so every step is an action here.               *)
(*                                                                          *)
(* One account is modelled (every query is filtered by account).  A member  *)
(* of Memes stands for the pair (ImageId, S3Id), which is created together  *)
(* and never changed.  Embeddings, sizes and captions are left out: the     *)
(* embedding search and the LLM that confirms its answer may accept any     *)
(* live document as the duplicate.                                          *)
(****************************************************************************)
EXTENDS Naturals, FiniteSets

CONSTANTS
  Memes,          \* ids the service can hand out
  Files,          \* distinct uploads, byte for byte
  Procs,          \* concurrent RPC handlers and recompute workers
  Options,        \* RecomputeOptions in use
  Updates,        \* UpdateMemeInput values in use
  Ops,            \* operations in use
  MaxEncodings,   \* bound: re-encodings of one file told apart
  Faults,         \* may a step fail, or the process handling it stop?
  None

Content == [file : Files, encodings : 0 .. MaxEncodings]
RecomputeOption == [extract : BOOLEAN, storage : BOOLEAN,
                    dedupe : BOOLEAN, manual : BOOLEAN]
UpdateInput == [text : BOOLEAN, orig : Files \cup {None}, thumb : BOOLEAN]
Operation == {"create", "update", "recompute", "delete", "wipe"}

ASSUME ConstantsAssumption ==
  /\ Options \subseteq RecomputeOption
  /\ Updates \subseteq UpdateInput
  /\ Ops \subseteq Operation
  /\ MaxEncodings \in Nat
  /\ Faults \in BOOLEAN
  /\ None \notin Operation /\ None \notin Content
  /\ None \notin Memes \cup Files \cup Options

\* A metadata document: the hash of the bytes it was made from (MD5 is taken
\* to be injective, so the hash is the content), whether its text is the one a
\* user typed in, and the Edited flag.
Doc == [hash : Content, manual : BOOLEAN, edited : BOOLEAN]

Artifact == {"orig", "thumb"}
Label == {"idle", "hash", "extract", "read", "drop", "purgeOrig", "purgeThumb",
          "remove", "putOrig", "putThumb", "save"}

ASSUME NoneIsNoDoc == None \notin Doc

VARIABLES
  docs,    \* the metadata index
  orig,    \* the originals in the media bucket
  thumbs,  \* the memes whose thumbnail is in the media bucket
  pc,      \* the next call of each process
  req,     \* the locals of each process
  doomed   \* history: ids whose deletion was requested or decided

vars == <<docs, orig, thumbs, pc, req, doomed>>

Request == [op     : Operation \cup {None},
            id     : Memes \cup {None},      \* the meme worked on
            data   : Content \cup {None},    \* the bytes at hand
            doc    : Doc \cup {None},        \* the caller's copy of the document
            dup    : Memes \cup {None},      \* pipelineResult.Duplicate
            opt    : Options \cup {None},
            todo   : SUBSET Artifact,        \* artifacts still to be stored
            failed : BOOLEAN]                \* an earlier deletion failed

NoRequest == [op |-> None, id |-> None, data |-> None, doc |-> None,
              dup |-> None, opt |-> None, todo |-> {}, failed |-> FALSE]

Live == {m \in Memes : docs[m] # None}
HasBlobs(m) == orig[m] # None /\ m \in thumbs

\* uuid.New: an id that no store, request or deletion has ever seen.
Fresh(m) == /\ docs[m] = None /\ orig[m] = None
            /\ m \notin thumbs \cup doomed
            /\ \A p \in Procs : req[p].id # m /\ req[p].dup # m

\* Conversion to JPEG or MP4 never reproduces the bytes it was given.
Encode(c) == [c EXCEPT !.encodings = IF @ < MaxEncodings THEN @ + 1 ELSE @]

Goto(p, label, r) == /\ pc' = [pc EXCEPT ![p] = label]
                     /\ req' = [req EXCEPT ![p] = r]
Finish(p) == Goto(p, "idle", NoRequest)

\* Mutant of NextUpload: the document is indexed before its blobs are stored.
NextUploadDocumentFirst(todo) == "save"

\* PipelineSave and UpdateMeme store the original, then the thumbnail, then
\* the document.
NextUpload(todo) == IF "orig" \in todo THEN "putOrig"
                    ELSE IF "thumb" \in todo THEN "putThumb" ELSE "save"

Init == /\ docs = [m \in Memes |-> None]
        /\ orig = [m \in Memes |-> None]
        /\ thumbs = {}
        /\ pc = [p \in Procs |-> "idle"]
        /\ req = [p \in Procs |-> NoRequest]
        /\ doomed = {}

-----------------------------------------------------------------------------
(* Requests *)

\* CreateMeme: the upload enters the extract pipeline.  The id is drawn here
\* although the code draws it after the pipeline: nobody sees it in between.
CreateMeme(p, f) ==
  /\ pc[p] = "idle" /\ "create" \in Ops
  /\ \E m \in Memes :
       /\ Fresh(m)
       /\ Goto(p, "hash", [NoRequest EXCEPT
            !.op = "create", !.id = m, !.todo = Artifact,
            !.data = [file |-> f, encodings |-> 0]])
  /\ UNCHANGED <<docs, orig, thumbs, doomed>>

\* UpdateMeme and DeleteMeme: GetById finds nothing and the request fails.
MemeNotFound(p, m) ==
  /\ pc[p] = "idle" /\ Ops \cap {"update", "delete"} # {}
  /\ m \notin Live
  /\ UNCHANGED vars

\* Mutant of UpdateMeme: the Edited flag is not set.
UpdateMemeUnmarked(p, m, u) ==
  /\ pc[p] = "idle" /\ "update" \in Ops
  /\ m \in Live
  /\ Goto(p, "save", [NoRequest EXCEPT
       !.op = "update", !.id = m, !.doc = [docs[m] EXCEPT !.manual = @ \/ u.text]])
  /\ UNCHANGED <<docs, orig, thumbs, doomed>>

\* UpdateMeme: GetById returns a copy; the new text goes into the copy, new
\* files are stored before it is saved.
UpdateMeme(p, m, u) ==
  /\ pc[p] = "idle" /\ "update" \in Ops
  /\ m \in Live
  /\ LET todo == {a \in Artifact : \/ a = "orig" /\ u.orig # None
                                   \/ a = "thumb" /\ u.thumb}
     IN  Goto(p, NextUpload(todo), [NoRequest EXCEPT
           !.op = "update", !.id = m, !.todo = todo,
           !.data = IF u.orig = None THEN None
                    ELSE [file |-> u.orig, encodings |-> 0],
           !.doc = [docs[m] EXCEPT !.edited = TRUE, !.manual = @ \/ u.text]])
  /\ UNCHANGED <<docs, orig, thumbs, doomed>>

\* Mutant of RecomputeMeme: edited documents are not skipped.
RecomputeMemeEdited(p, m, o) ==
  /\ pc[p] = "idle" /\ "recompute" \in Ops
  /\ m \in Live
  /\ Goto(p, "read", [NoRequest EXCEPT
       !.op = "recompute", !.id = m, !.doc = docs[m], !.opt = o])
  /\ UNCHANGED <<docs, orig, thumbs, doomed>>

\* recomputeOne: a worker receives the copy its job's page query returned and
\* skips manually edited documents unless told otherwise.
RecomputeMeme(p, m, o) ==
  /\ pc[p] = "idle" /\ "recompute" \in Ops
  /\ m \in Live
  /\ docs[m].edited => o.manual
  /\ Goto(p, "read", [NoRequest EXCEPT
       !.op = "recompute", !.id = m, !.doc = docs[m], !.opt = o,
       !.todo = IF o.storage THEN Artifact ELSE {}])
  /\ UNCHANGED <<docs, orig, thumbs, doomed>>

\* DeleteMeme, and the treatment DeleteAll gives each document of a page.
DeleteMeme(p, m, op) ==
  /\ pc[p] = "idle" /\ op \in Ops \cap {"delete", "wipe"}
  /\ m \in Live
  /\ Goto(p, "purgeOrig", [NoRequest EXCEPT !.op = op, !.id = m])
  /\ doomed' = doomed \cup {m}
  /\ UNCHANGED <<docs, orig, thumbs>>

-----------------------------------------------------------------------------
(* The extract pipeline *)

\* Mutant of ReadOriginal: the error of a missing original is ignored.
ReadOriginalUnchecked(p) ==
  /\ pc[p] = "read"
  /\ Goto(p, IF req[p].opt.dedupe THEN "hash" ELSE "extract",
          [req[p] EXCEPT !.data = orig[req[p].id]])
  /\ UNCHANGED <<docs, orig, thumbs, doomed>>

\* recomputeOne downloads the original; a missing one is an error.
ReadOriginal(p) ==
  /\ pc[p] = "read"
  /\ LET r == req[p] IN
       IF orig[r.id] = None THEN Finish(p)
       ELSE Goto(p, IF r.opt.dedupe THEN "hash" ELSE "extract",
                 [r EXCEPT !.data = orig[r.id]])
  /\ UNCHANGED <<docs, orig, thumbs, doomed>>

\* A duplicate ends a create (STATUS_DUPLICATE); a recompute remembers it and
\* goes on with the pipeline.
FoundDuplicate(p, d) ==
  IF req[p].op = "create" THEN Finish(p)
  ELSE Goto(p, "extract", [req[p] EXCEPT !.dup = d])

GetDuplicatesByHash(hash, excluded) == {d \in Live \ {excluded} : docs[d].hash = hash}

\* Mutant of CheckDuplicateByHash: the hash of the converted bytes is looked up.
CheckDuplicateByHashLate(p) ==
  /\ pc[p] = "hash"
  /\ LET same == GetDuplicatesByHash(Encode(req[p].data), req[p].id) IN
       \/ \E d \in same : FoundDuplicate(p, d)
       \/ same = {} /\ Goto(p, "extract", req[p])
  /\ UNCHANGED <<docs, orig, thumbs, doomed>>

\* EP10: another document with the hash of the bytes at hand.
CheckDuplicateByHash(p) ==
  /\ pc[p] = "hash"
  /\ LET same == GetDuplicatesByHash(req[p].data, req[p].id) IN
       \/ \E d \in same : FoundDuplicate(p, d)
       \/ same = {} /\ Goto(p, "extract", req[p])
  /\ UNCHANGED <<docs, orig, thumbs, doomed>>

\* What the pipeline and PipelineSave make of the document.
Extracted(r) ==
  [hash |-> r.data, edited |-> FALSE,
   manual |-> r.op = "recompute" /\ r.doc.manual /\ ~r.opt.extract]

ChecksEmbedding(r) == r.opt # None => r.opt.dedupe

\* EP40, EP52, EP60: the nearest document by embedding, if any is near enough,
\* is a duplicate when the LLM, which needs its original, says so.
ExtractMedia(p) ==
  /\ pc[p] = "extract"
  /\ LET r == req[p]
         Done(dup) == Goto(p, IF dup = None THEN NextUpload(r.todo) ELSE "drop",
                           [r EXCEPT !.dup = dup, !.doc = Extracted(r)])
     IN \/ Done(r.dup)
        \/ \E d \in Live \ {r.id} :
             /\ ChecksEmbedding(r)
             /\ IF orig[d] = None \/ r.op = "create" THEN Finish(p) ELSE Done(d)
  /\ UNCHANGED <<docs, orig, thumbs, doomed>>

-----------------------------------------------------------------------------
(* Deletions *)

\* recomputeOne deletes the duplicate's document and then, whether or not that
\* worked, the blobs under data.S3Id: those of the meme being recomputed.
DropDuplicate(p) ==
  /\ pc[p] = "drop"
  /\ LET r == req[p] IN
       /\ doomed' = doomed \cup {r.dup}
       /\ \/ /\ docs' = [docs EXCEPT ![r.dup] = None]
             /\ Goto(p, "purgeOrig", r)
          \/ /\ Faults
             /\ docs' \in {docs, [docs EXCEPT ![r.dup] = None]}
             /\ Goto(p, "purgeOrig", [r EXCEPT !.failed = TRUE])
  /\ UNCHANGED <<orig, thumbs>>

\* Mutant of PurgeOriginal: the thumbnail is forgotten.
PurgeOriginalOnly(p) ==
  /\ pc[p] = "purgeOrig"
  /\ orig' = [orig EXCEPT ![req[p].id] = None]
  /\ Goto(p, "remove", req[p])
  /\ UNCHANGED <<docs, thumbs, doomed>>

\* A bucket deletion is recorded as failed when it reports an error, which it
\* may do after the object is gone; the other deletion follows in any case.
PurgeOriginal(p) ==
  /\ pc[p] = "purgeOrig"
  /\ LET r == req[p]
         gone == [orig EXCEPT ![r.id] = None]
     IN \/ orig' = gone /\ Goto(p, "purgeThumb", r)
        \/ /\ Faults /\ orig' \in {orig, gone}
           /\ Goto(p, "purgeThumb", [r EXCEPT !.failed = TRUE])
  /\ UNCHANGED <<docs, thumbs, doomed>>

\* Only DeleteAll carries on after a failed deletion.
AfterPurge(p, r) ==
  IF r.failed /\ r.op # "wipe" THEN Finish(p)
  ELSE Goto(p, IF r.op = "recompute" THEN NextUpload(r.todo) ELSE "remove", r)

PurgeThumbnail(p) ==
  /\ pc[p] = "purgeThumb"
  /\ LET r == req[p]
         gone == thumbs \ {r.id}
     IN \/ thumbs' = gone /\ AfterPurge(p, r)
        \/ /\ Faults /\ thumbs' \in {thumbs, gone}
           /\ AfterPurge(p, [r EXCEPT !.failed = TRUE])
  /\ UNCHANGED <<docs, orig, doomed>>

RemoveMetadata(p) ==
  /\ pc[p] = "remove"
  /\ docs' = [docs EXCEPT ![req[p].id] = None]
  /\ Finish(p)
  /\ UNCHANGED <<orig, thumbs, doomed>>

-----------------------------------------------------------------------------
(* PipelineSave.Save and the end of UpdateMeme *)

Stored(p, a) == LET todo == req[p].todo \ {a} IN
                  Goto(p, NextUpload(todo), [req[p] EXCEPT !.todo = todo])

PutOriginal(p) ==
  /\ pc[p] = "putOrig"
  /\ orig' = [orig EXCEPT ![req[p].id] = Encode(req[p].data)]
  /\ Stored(p, "orig")
  /\ UNCHANGED <<docs, thumbs, doomed>>

PutThumbnail(p) ==
  /\ pc[p] = "putThumb"
  /\ thumbs' = thumbs \cup {req[p].id}
  /\ Stored(p, "thumb")
  /\ UNCHANGED <<docs, orig, doomed>>

\* The whole document is indexed: a copy read earlier replaces whatever is
\* there, and a document deleted meanwhile is back.
SaveMetadata(p) ==
  /\ pc[p] = "save"
  /\ docs' = [docs EXCEPT ![req[p].id] = req[p].doc]
  /\ Finish(p)
  /\ UNCHANGED <<orig, thumbs, doomed>>

\* A step returns an error, or the service stops: nothing is rolled back.
Abort(p) ==
  /\ Faults /\ pc[p] # "idle"
  /\ Finish(p)
  /\ UNCHANGED <<docs, orig, thumbs, doomed>>

-----------------------------------------------------------------------------
Step(p) == \/ \E f \in Files : CreateMeme(p, f)
           \/ \E m \in Memes : MemeNotFound(p, m)
           \/ \E m \in Memes, u \in Updates : UpdateMeme(p, m, u)
           \/ \E m \in Memes, o \in Options : RecomputeMeme(p, m, o)
           \/ \E m \in Memes, op \in Operation : DeleteMeme(p, m, op)
           \/ ReadOriginal(p)
           \/ CheckDuplicateByHash(p)
           \/ ExtractMedia(p)
           \/ DropDuplicate(p)
           \/ PurgeOriginal(p)
           \/ PurgeThumbnail(p)
           \/ RemoveMetadata(p)
           \/ PutOriginal(p)
           \/ PutThumbnail(p)
           \/ SaveMetadata(p)
           \/ Abort(p)

Next == \E p \in Procs : Step(p)

Spec == Init /\ [][Next]_vars

-----------------------------------------------------------------------------
(* Properties *)

\* Every variable has its type.
TypeOK ==
  /\ docs \in [Memes -> Doc \cup {None}]
  /\ orig \in [Memes -> Content \cup {None}]
  /\ thumbs \subseteq Memes
  /\ pc \in [Procs -> Label]
  /\ req \in [Procs -> Request]
  /\ doomed \subseteq Memes

\* A meme that can be found and that nobody decided to delete has both blobs:
\* the document is indexed last, and no request touches another's blobs.
BlobsBehindDocuments ==
  \A m \in Live : m \notin doomed => HasBlobs(m)

\* Text a user typed is never stored without the Edited flag that protects it
\* from the next recompute (RecomputeService.go:194).
ManualTextIsMarkedEdited ==
  \A m \in Live : docs[m].manual => docs[m].edited

\* What a user edited keeps the Edited flag and the text that was typed in until a recompute
\* told to include edited memes handles it: the skip at RecomputeService.go:194 protects what
\* is in the index, not only what was there when the job fetched its page.  (A recompute
\* that includes edited memes clears the flag, and need not extract: the text it leaves is
\* then as open to the next recompute as any.)
ManualTextSurvives ==
  [][\A m \in Live :
       docs[m].edited /\ docs'[m] # None
         => \/ docs'[m].edited /\ (docs[m].manual => docs'[m].manual)
            \/ \E p \in Procs : /\ req[p].op = "recompute" /\ req[p].id = m
                                /\ req[p].opt.manual]_vars

\* Uploading bytes that are already stored answers STATUS_DUPLICATE: no two
\* documents carry the hash of the same upload (one that was recomputed carries
\* the hash of its stored conversion).
StoredOnce ==
  \A m, n \in Live :
    docs[m].hash = docs[n].hash /\ docs[m].hash.encodings = 0 => m = n

\* When no request is in progress the two stores agree: no document without
\* its blobs, and no blob that no document leads to.
StoresAgreeWhenIdle ==
  (\A p \in Procs : pc[p] = "idle") =>
     \A m \in Memes : /\ m \in Live <=> orig[m] # None
                      /\ m \in Live <=> m \in thumbs

=============================================================================
