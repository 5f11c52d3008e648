--------------------------- MODULE MemeStoreProofs ---------------------------
(* Theorems about MemeStore, for every number of memes, files and processes. *)
EXTENDS MemeStore, TLAPS

(***************************************************************************)
(* Type correctness.  TypeOK is not inductive: what a step stores comes    *)
(* from the request's locals, so LocalOK says which locals are set at      *)
(* which label.                                                            *)
(***************************************************************************)
LocalOK(l, r) ==
  /\ l = "idle" => r = NoRequest
  /\ l # "idle" => r.op # None /\ r.id \in Memes
  /\ l = "read" => r.op = "recompute"
  /\ l \in {"hash", "extract"} =>
       r.op \in {"create", "recompute"} /\ r.data \in Content
  /\ l = "drop" => r.op = "recompute" /\ r.dup \in Memes
  /\ l \in {"purgeOrig", "purgeThumb"} => r.op \in {"recompute", "delete", "wipe"}
  /\ l = "remove" => r.op \in {"delete", "wipe"}
  /\ l \in {"putOrig", "putThumb", "save"} => r.op \in {"create", "update", "recompute"}
  /\ l = "putOrig" => "orig" \in r.todo
  /\ r.op = "recompute" => r.doc \in Doc /\ r.opt \in Options
  /\ r.dup # None => r.op = "recompute"
  /\ "orig" \in r.todo /\ l # "read" => r.data \in Content

TypeInv == /\ TypeOK
           /\ \A p \in Procs : LocalOK(pc[p], req[p])

\* A process that moves to a label with locals fit for it keeps the part of
\* TypeInv that is about processes.
LEMMA GotoKeepsLocals ==
  ASSUME TypeInv, NEW p \in Procs, NEW l \in Label, NEW r \in Request,
         LocalOK(l, r), Goto(p, l, r)
  PROVE  /\ pc' \in [Procs -> Label]
         /\ req' \in [Procs -> Request]
         /\ \A q \in Procs : LocalOK(pc'[q], req'[q])
<1>1. pc' \in [Procs -> Label] /\ req' \in [Procs -> Request]
  BY DEF TypeInv, TypeOK, Goto
<1>2. ASSUME NEW q \in Procs PROVE LocalOK(pc'[q], req'[q])
  <2>1. CASE q = p
    <3>1. pc'[q] = l /\ req'[q] = r
      BY <2>1 DEF TypeInv, TypeOK, Goto
    <3> QED BY <3>1
  <2>2. CASE q # p
    <3>1. pc'[q] = pc[q] /\ req'[q] = req[q]
      BY <2>2 DEF TypeInv, TypeOK, Goto
    <3> QED BY <3>1 DEF TypeInv
  <2> QED BY <2>1, <2>2
<1> QED BY <1>1, <1>2

LEMMA NoRequestType == NoRequest \in Request /\ LocalOK("idle", NoRequest)
BY ConstantsAssumption DEF NoRequest, Request, LocalOK, Operation

\* Ending a request is such a move.
LEMMA FinishKeepsLocals ==
  ASSUME TypeInv, NEW p \in Procs, Finish(p)
  PROVE  /\ pc' \in [Procs -> Label]
         /\ req' \in [Procs -> Request]
         /\ \A q \in Procs : LocalOK(pc'[q], req'[q])
BY NoRequestType, GotoKeepsLocals DEF Finish, Label

LEMMA EncodeType == \A c \in Content : Encode(c) \in Content
BY ConstantsAssumption DEF Encode, Content

LEMMA NextUploadLabel ==
  ASSUME NEW todo \in SUBSET Artifact
  PROVE  /\ NextUpload(todo) \in {"putOrig", "putThumb", "save"}
         /\ NextUpload(todo) = "putOrig" => "orig" \in todo
BY DEF NextUpload

\* Init satisfies the invariant.
LEMMA InitTypeInv == Init => TypeInv
<1> SUFFICES ASSUME Init PROVE TypeInv
  OBVIOUS
<1>1. TypeOK
  BY NoRequestType DEF Init, TypeOK, Label
<1>2. \A p \in Procs : LocalOK(pc[p], req[p])
  BY NoRequestType DEF Init
<1> QED BY <1>1, <1>2 DEF TypeInv

\* Every step keeps it.
LEMMA StepTypeInv ==
  ASSUME TypeInv, NEW p \in Procs, Step(p)
  PROVE  TypeInv'
<1> DEFINE r == req[p]
           ProcsOK == /\ pc' \in [Procs -> Label]
                      /\ req' \in [Procs -> Request]
                      /\ \A q \in Procs : LocalOK(pc'[q], req'[q])
<1>0. r \in Request /\ pc[p] \in Label /\ LocalOK(pc[p], r)
  BY DEF TypeInv, TypeOK
<1>a. ASSUME ProcsOK, docs' \in [Memes -> Doc \cup {None}],
             orig' \in [Memes -> Content \cup {None}],
             thumbs' \subseteq Memes, doomed' \subseteq Memes
      PROVE  TypeInv'
  BY <1>a DEF TypeInv, TypeOK
<1>1. ASSUME NEW f \in Files, CreateMeme(p, f) PROVE TypeInv'
  <2>1. PICK m \in Memes : Goto(p, "hash", [NoRequest EXCEPT
            !.op = "create", !.id = m, !.todo = Artifact,
            !.data = [file |-> f, encodings |-> 0]])
    BY <1>1 DEF CreateMeme
  <2> DEFINE s == [NoRequest EXCEPT
            !.op = "create", !.id = m, !.todo = Artifact,
            !.data = [file |-> f, encodings |-> 0]]
  <2>2. [file |-> f, encodings |-> 0] \in Content
    BY ConstantsAssumption DEF Content
  <2>3. s \in Request /\ LocalOK("hash", s)
    BY <2>2, ConstantsAssumption DEF NoRequest, Request, Operation, LocalOK
  <2>4. ProcsOK
    BY <2>1, <2>3, GotoKeepsLocals DEF Label
  <2> QED BY <1>1, <1>a, <2>4 DEF CreateMeme, TypeInv, TypeOK
<1>2. ASSUME NEW m \in Memes, MemeNotFound(p, m) PROVE TypeInv'
  BY <1>2 DEF MemeNotFound, vars, TypeInv, TypeOK
<1>3. ASSUME NEW m \in Memes, NEW u \in Updates, UpdateMeme(p, m, u)
      PROVE  TypeInv'
  <2> DEFINE todo == {a \in Artifact : \/ a = "orig" /\ u.orig # None
                                       \/ a = "thumb" /\ u.thumb}
             data == IF u.orig = None THEN None
                     ELSE [file |-> u.orig, encodings |-> 0]
             doc == [docs[m] EXCEPT !.edited = TRUE, !.manual = @ \/ u.text]
             s == [NoRequest EXCEPT !.op = "update", !.id = m, !.todo = todo,
                                    !.data = data, !.doc = doc]
  <2>1. Goto(p, NextUpload(todo), s)
    BY <1>3 DEF UpdateMeme
  <2>2. todo \in SUBSET Artifact
    OBVIOUS
  <2>3. u \in UpdateInput
    BY ConstantsAssumption
  <2>4. data \in Content \cup {None} /\ ("orig" \in todo => data \in Content)
    BY <2>3, ConstantsAssumption DEF UpdateInput, Content
  <2>5. doc \in Doc
    <3>1. docs[m] \in Doc
      BY <1>3 DEF UpdateMeme, Live, TypeInv, TypeOK
    <3>2. docs[m].manual \/ u.text \in BOOLEAN
      BY <3>1, <2>3 DEF Doc, UpdateInput
    <3> QED BY <3>1, <3>2 DEF Doc
  <2> HIDE DEF todo, data, doc
  <2>6. s \in Request
    BY <2>2, <2>4, <2>5 DEF NoRequest, Request, Operation
  <2>7. LocalOK(NextUpload(todo), s)
    BY <2>2, <2>4, NextUploadLabel, ConstantsAssumption
    DEF NoRequest, LocalOK, Operation
  <2>8. NextUpload(todo) \in Label
    BY <2>2, NextUploadLabel DEF Label
  <2>9. ProcsOK
    BY <2>1, <2>6, <2>7, <2>8, GotoKeepsLocals
  <2> QED BY <1>3, <1>a, <2>9 DEF UpdateMeme, TypeInv, TypeOK
<1>4. ASSUME NEW m \in Memes, NEW o \in Options, RecomputeMeme(p, m, o)
      PROVE  TypeInv'
  <2> DEFINE s == [NoRequest EXCEPT
                     !.op = "recompute", !.id = m, !.doc = docs[m], !.opt = o,
                     !.todo = IF o.storage THEN Artifact ELSE {}]
  <2>1. Goto(p, "read", s)
    BY <1>4 DEF RecomputeMeme
  <2>2. docs[m] \in Doc
    BY <1>4 DEF RecomputeMeme, Live, TypeInv, TypeOK
  <2>3. s \in Request /\ LocalOK("read", s)
    BY <2>2, ConstantsAssumption DEF NoRequest, Request, Operation, LocalOK
  <2>4. ProcsOK
    BY <2>1, <2>3, GotoKeepsLocals DEF Label
  <2> QED BY <1>4, <1>a, <2>4 DEF RecomputeMeme, TypeInv, TypeOK
<1>5. ASSUME NEW m \in Memes, NEW op \in Operation, DeleteMeme(p, m, op)
      PROVE  TypeInv'
  <2> DEFINE s == [NoRequest EXCEPT !.op = op, !.id = m]
  <2>1. Goto(p, "purgeOrig", s) /\ op \in {"delete", "wipe"}
    BY <1>5 DEF DeleteMeme
  <2>2. s \in Request /\ LocalOK("purgeOrig", s)
    BY <2>1, ConstantsAssumption DEF NoRequest, Request, Operation, LocalOK
  <2>3. ProcsOK
    BY <2>1, <2>2, GotoKeepsLocals DEF Label
  <2> QED BY <1>5, <1>a, <2>3 DEF DeleteMeme, TypeInv, TypeOK
<1>6. ASSUME ReadOriginal(p) PROVE TypeInv'
  <2>1. r.op = "recompute" /\ r.id \in Memes
    BY <1>0, <1>6 DEF ReadOriginal, LocalOK
  <2>2. CASE orig[r.id] = None
    BY <1>6, <1>a, <2>2, FinishKeepsLocals DEF ReadOriginal, TypeInv, TypeOK
  <2>3. CASE orig[r.id] # None
    <3> DEFINE s == [r EXCEPT !.data = orig[r.id]]
               l == IF r.opt.dedupe THEN "hash" ELSE "extract"
    <3>1. Goto(p, l, s)
      BY <1>6, <2>3 DEF ReadOriginal
    <3>2. orig[r.id] \in Content
      BY <2>1, <2>3 DEF TypeInv, TypeOK
    <3>3. s \in Request /\ s.op = "recompute" /\ s.id = r.id /\ s.doc = r.doc
          /\ s.opt = r.opt /\ s.data \in Content
      BY <1>0, <2>1, <3>2 DEF Request
    <3>4. LocalOK(l, s) /\ l \in Label
      BY <1>0, <2>1, <3>3, ConstantsAssumption DEF LocalOK, Label, Operation
    <3>5. ProcsOK
      BY <3>1, <3>3, <3>4, GotoKeepsLocals
    <3> QED BY <1>6, <1>a, <3>5 DEF ReadOriginal, TypeInv, TypeOK
  <2> QED BY <2>2, <2>3
<1>7. ASSUME CheckDuplicateByHash(p) PROVE TypeInv'
  <2>1. r.op \in {"create", "recompute"} /\ r.data \in Content /\ r.id \in Memes
    BY <1>0, <1>7 DEF CheckDuplicateByHash, GetDuplicatesByHash, LocalOK
  <2>2. ASSUME NEW d \in Memes, FoundDuplicate(p, d) PROVE ProcsOK
    <3>1. CASE r.op = "create"
      BY <2>2, <3>1, FinishKeepsLocals DEF FoundDuplicate
    <3>2. CASE r.op # "create"
      <4> DEFINE s == [r EXCEPT !.dup = d]
      <4>1. Goto(p, "extract", s)
        BY <2>2, <3>2 DEF FoundDuplicate
      <4>2. s \in Request /\ LocalOK("extract", s)
        BY <1>0, <2>1, <3>2, ConstantsAssumption DEF Request, LocalOK, Operation
      <4> QED BY <4>1, <4>2, GotoKeepsLocals DEF Label
    <3> QED BY <3>1, <3>2
  <2>3. ASSUME Goto(p, "extract", r) PROVE ProcsOK
    <3>1. LocalOK("extract", r)
      BY <1>0, <2>1, ConstantsAssumption DEF LocalOK, Operation
    <3> QED BY <1>0, <2>3, <3>1, GotoKeepsLocals DEF Label
  <2>4. ProcsOK
    BY <1>7, <2>2, <2>3 DEF CheckDuplicateByHash, GetDuplicatesByHash, Live
  <2> QED BY <1>7, <1>a, <2>4 DEF CheckDuplicateByHash, GetDuplicatesByHash, TypeInv, TypeOK
<1>8. ASSUME ExtractMedia(p) PROVE TypeInv'
  <2>1. r.op \in {"create", "recompute"} /\ r.data \in Content /\ r.id \in Memes
    BY <1>0, <1>8 DEF ExtractMedia, LocalOK
  <2>2. Extracted(r) \in Doc
    <3>1. (r.op = "recompute" /\ r.doc.manual /\ ~r.opt.extract) \in BOOLEAN
      OBVIOUS
    <3> QED BY <2>1, <3>1 DEF Extracted, Doc
  <2> DEFINE Moved(dup) ==
               Goto(p, IF dup = None THEN NextUpload(r.todo) ELSE "drop",
                    [r EXCEPT !.dup = dup, !.doc = Extracted(r)])
  <2>3. ASSUME NEW dup \in Memes \cup {None}, Moved(dup),
               dup # None => r.op = "recompute"
        PROVE  ProcsOK
    <3> DEFINE l == IF dup = None THEN NextUpload(r.todo) ELSE "drop"
               s == [r EXCEPT !.dup = dup, !.doc = Extracted(r)]
    <3>1. /\ l \in {"putOrig", "putThumb", "save", "drop"}
          /\ l = "putOrig" => "orig" \in r.todo
          /\ l = "drop" => dup \in Memes /\ r.op = "recompute"
      BY <1>0, <2>3, NextUploadLabel DEF Request
    <3>2. /\ s \in Request /\ s.op = r.op /\ s.id = r.id /\ s.data = r.data
          /\ s.doc \in Doc /\ s.opt = r.opt /\ s.todo = r.todo /\ s.dup = dup
      BY <1>0, <2>2 DEF Request
    <3>3. LocalOK(l, s)
      BY <1>0, <2>1, <3>1, <3>2, ConstantsAssumption DEF LocalOK, Operation
    <3> QED BY <2>3, <3>1, <3>2, <3>3, GotoKeepsLocals DEF Label
  <2>4. ProcsOK
    <3>1. CASE Moved(r.dup)
      BY <1>0, <2>3, <3>1 DEF Request, LocalOK
    <3>2. CASE \E d \in Live \ {r.id} :
                 IF orig[d] = None \/ r.op = "create" THEN Finish(p) ELSE Moved(d)
      BY <2>1, <2>3, <3>2, FinishKeepsLocals DEF Live
    <3> QED BY <1>8, <3>1, <3>2 DEF ExtractMedia
  <2> QED BY <1>8, <1>a, <2>4 DEF ExtractMedia, TypeInv, TypeOK
<1>9. ASSUME DropDuplicate(p) PROVE TypeInv'
  <2>1. r.op = "recompute" /\ r.dup \in Memes /\ r.id \in Memes
    BY <1>0, <1>9 DEF DropDuplicate, LocalOK
  <2>2. ASSUME NEW s \in {r, [r EXCEPT !.failed = TRUE]}, Goto(p, "purgeOrig", s)
        PROVE  ProcsOK
    <3>1. /\ s \in Request /\ s.op = r.op /\ s.id = r.id /\ s.data = r.data
          /\ s.doc = r.doc /\ s.opt = r.opt /\ s.todo = r.todo /\ s.dup = r.dup
      BY <1>0 DEF Request
    <3>2. LocalOK("purgeOrig", s)
      BY <1>0, <1>9, <2>1, <3>1, ConstantsAssumption DEF DropDuplicate, LocalOK, Operation
    <3> QED BY <2>2, <3>1, <3>2, GotoKeepsLocals DEF Label
  <2>3. ProcsOK
    BY <1>9, <2>2 DEF DropDuplicate
  <2>4. /\ docs' \in [Memes -> Doc \cup {None}]
        /\ doomed' \subseteq Memes /\ orig' = orig /\ thumbs' = thumbs
    BY <1>9, <2>1 DEF DropDuplicate, TypeInv, TypeOK
  <2> QED BY <1>a, <2>3, <2>4 DEF TypeInv, TypeOK
<1>10. ASSUME PurgeOriginal(p) PROVE TypeInv'
  <2>1. r.op \in {"recompute", "delete", "wipe"} /\ r.id \in Memes
    BY <1>0, <1>10 DEF PurgeOriginal, LocalOK
  <2>2. ASSUME NEW s \in {r, [r EXCEPT !.failed = TRUE]}, Goto(p, "purgeThumb", s)
        PROVE  ProcsOK
    <3>1. /\ s \in Request /\ s.op = r.op /\ s.id = r.id /\ s.data = r.data
          /\ s.doc = r.doc /\ s.opt = r.opt /\ s.todo = r.todo /\ s.dup = r.dup
      BY <1>0 DEF Request
    <3>2. LocalOK("purgeThumb", s)
      BY <1>0, <1>10, <2>1, <3>1, ConstantsAssumption DEF PurgeOriginal, LocalOK, Operation
    <3> QED BY <2>2, <3>1, <3>2, GotoKeepsLocals DEF Label
  <2>3. ProcsOK
    BY <1>10, <2>2 DEF PurgeOriginal
  <2>4. /\ orig' \in [Memes -> Content \cup {None}]
        /\ docs' = docs /\ thumbs' = thumbs /\ doomed' = doomed
    BY <1>10 DEF PurgeOriginal, TypeInv, TypeOK
  <2> QED BY <1>a, <2>3, <2>4 DEF TypeInv, TypeOK
<1>11. ASSUME PurgeThumbnail(p) PROVE TypeInv'
  <2>1. r.op \in {"recompute", "delete", "wipe"} /\ r.id \in Memes
    BY <1>0, <1>11 DEF PurgeThumbnail, LocalOK
  <2>2. ASSUME NEW s \in {r, [r EXCEPT !.failed = TRUE]}, AfterPurge(p, s)
        PROVE  ProcsOK
    <3> DEFINE l == IF r.op = "recompute" THEN NextUpload(r.todo) ELSE "remove"
    <3>1. Finish(p) \/ Goto(p, l, s)
      BY <1>0, <2>2 DEF AfterPurge, Request
    <3>2. s \in Request /\ s.op = r.op /\ s.id = r.id /\ s.data = r.data
          /\ s.doc = r.doc /\ s.opt = r.opt /\ s.todo = r.todo /\ s.dup = r.dup
      BY <1>0 DEF Request
    <3>3. /\ l \in {"putOrig", "putThumb", "save", "remove"}
          /\ l = "putOrig" => "orig" \in r.todo
          /\ l = "remove" => r.op \in {"delete", "wipe"}
          /\ l # "remove" => r.op = "recompute"
      BY <1>0, <2>1, NextUploadLabel DEF Request
    <3>4. LocalOK(l, s)
      BY <1>0, <1>11, <2>1, <3>2, <3>3, ConstantsAssumption
      DEF PurgeThumbnail, LocalOK, Operation
    <3> QED BY <3>1, <3>2, <3>3, <3>4, GotoKeepsLocals, FinishKeepsLocals DEF Label
  <2>3. ProcsOK
    BY <1>11, <2>2 DEF PurgeThumbnail
  <2>4. /\ thumbs' \subseteq Memes
        /\ docs' = docs /\ orig' = orig /\ doomed' = doomed
    BY <1>11 DEF PurgeThumbnail, TypeInv, TypeOK
  <2> QED BY <1>a, <2>3, <2>4 DEF TypeInv, TypeOK
<1>12. ASSUME RemoveMetadata(p) PROVE TypeInv'
  <2>1. docs' \in [Memes -> Doc \cup {None}]
    BY <1>12 DEF RemoveMetadata, TypeInv, TypeOK
  <2> QED BY <1>12, <1>a, <2>1, FinishKeepsLocals DEF RemoveMetadata, TypeInv, TypeOK
<1>13. ASSUME NEW a \in Artifact, Stored(p, a), pc[p] \in {"putOrig", "putThumb"}
       PROVE  ProcsOK
  <2> DEFINE todo == r.todo \ {a}
             s == [r EXCEPT !.todo = todo]
  <2>1. /\ s \in Request /\ s.op = r.op /\ s.id = r.id /\ s.data = r.data
        /\ s.doc = r.doc /\ s.opt = r.opt /\ s.todo = todo /\ s.dup = r.dup
        /\ todo \in SUBSET Artifact
    BY <1>0 DEF Request
  <2>2. LocalOK(NextUpload(todo), s)
    BY <1>0, <1>13, <2>1, NextUploadLabel, ConstantsAssumption DEF LocalOK, Operation
  <2> QED BY <1>13, <2>1, <2>2, NextUploadLabel, GotoKeepsLocals DEF Stored, Label
<1>14. ASSUME PutOriginal(p) PROVE TypeInv'
  <2>1. r.data \in Content
    BY <1>0, <1>14 DEF PutOriginal, LocalOK
  <2>2. orig' \in [Memes -> Content \cup {None}]
    BY <1>14, <2>1, EncodeType DEF PutOriginal, TypeInv, TypeOK
  <2> QED BY <1>14, <1>13, <1>a, <2>2 DEF PutOriginal, Artifact, TypeInv, TypeOK
<1>15. ASSUME PutThumbnail(p) PROVE TypeInv'
  <2>1. r.id \in Memes
    BY <1>0, <1>15 DEF PutThumbnail, LocalOK
  <2>2. thumbs' \subseteq Memes
    BY <1>15, <2>1 DEF PutThumbnail, TypeInv, TypeOK
  <2> QED BY <1>15, <1>13, <1>a, <2>2 DEF PutThumbnail, Artifact, TypeInv, TypeOK
<1>16. ASSUME SaveMetadata(p) PROVE TypeInv'
  <2>1. docs' \in [Memes -> Doc \cup {None}]
    BY <1>0, <1>16 DEF SaveMetadata, Request, TypeInv, TypeOK
  <2> QED BY <1>16, <1>a, <2>1, FinishKeepsLocals DEF SaveMetadata, TypeInv, TypeOK
<1>17. ASSUME Abort(p) PROVE TypeInv'
  BY <1>17, <1>a, FinishKeepsLocals DEF Abort, TypeInv, TypeOK
<1> QED
  BY <1>1, <1>2, <1>3, <1>4, <1>5, <1>6, <1>7, <1>8, <1>9, <1>10, <1>11, <1>12,
     <1>14, <1>15, <1>16, <1>17 DEF Step

LEMMA NextTypeInv == TypeInv /\ [Next]_vars => TypeInv'
<1> SUFFICES ASSUME TypeInv, [Next]_vars PROVE TypeInv'
  OBVIOUS
<1>1. CASE Next
  BY <1>1, StepTypeInv DEF Next
<1>2. CASE UNCHANGED vars
  BY <1>2 DEF vars, TypeInv, TypeOK
<1> QED BY <1>1, <1>2

\* Every variable always has its type, whatever fails and however requests
\* interleave.
THEOREM TypeCorrect == Spec => []TypeOK
<1>1. Init => TypeInv
  BY InitTypeInv
<1>2. TypeInv /\ [Next]_vars => TypeInv'
  BY NextTypeInv
<1>3. TypeInv => TypeOK
  BY DEF TypeInv
<1> QED BY <1>1, <1>2, <1>3, PTL DEF Spec
-----------------------------------------------------------------------------
(***************************************************************************)
(* Blobs behind documents.  Without duplicate checks in a recompute, only  *)
(* a deletion removes blobs, and the other requests rely on blobs that are *)
(* theirs: a create on those it stored under an id nobody else holds, an   *)
(* update or a recompute on those that stood behind the copy it was given. *)
(***************************************************************************)
NoDedupe == \A o \in Options : ~o.dedupe

\* No other request works on the id of a meme that is being created.
PrivateIds == \A p, q \in Procs :
                p # q /\ req[p].op = "create" => req[q].id # req[p].id

CreateOK(l, r) ==
  /\ r.id \notin doomed /\ docs[r.id] = None
  /\ l \in {"hash", "extract", "putOrig"} => r.todo = Artifact
  /\ l = "putThumb" => r.todo = {"thumb"} /\ orig[r.id] # None
  /\ l = "save" => HasBlobs(r.id)

BlobsOK(l, r) ==
  /\ r.op = "create" => CreateOK(l, r)
  /\ r.op \in {"update", "recompute"} => r.id \in doomed \/ HasBlobs(r.id)
  /\ r.op = "recompute" =>
       r.dup = None /\ l \notin {"hash", "drop", "purgeOrig", "purgeThumb"}
  /\ r.op \in {"delete", "wipe"} => r.id \in doomed

BlobInv == /\ BlobsBehindDocuments
           /\ \A p \in Procs : BlobsOK(pc[p], req[p])
           /\ PrivateIds

\* Only the process that moves changes its label and its locals.
LEMMA GotoFrame ==
  ASSUME TypeInv, NEW p \in Procs, NEW l, NEW r, Goto(p, l, r)
  PROVE  /\ pc'[p] = l /\ req'[p] = r
         /\ \A q \in Procs \ {p} : pc'[q] = pc[q] /\ req'[q] = req[q]
BY DEF TypeInv, TypeOK, Goto

\* A request that is going on, or ends, shares no id it did not share before.
LEMMA KeepsPrivateIds ==
  ASSUME TypeInv, PrivateIds, NEW p \in Procs, NEW l, NEW r, Goto(p, l, r),
         \/ r.op = req[p].op /\ r.id = req[p].id
         \/ r = NoRequest
  PROVE  PrivateIds'
<1>1. \A q \in Procs : req[q].op = "create" => req[q].id # None
  BY ConstantsAssumption DEF TypeInv, LocalOK, NoRequest, Operation
<1>2. NoRequest.op # "create" /\ NoRequest.id = None
  BY ConstantsAssumption DEF NoRequest, Operation
<1> QED BY <1>1, <1>2, GotoFrame DEF PrivateIds

\* A move that leaves the stores alone keeps the invariant if the locals of
\* the process that moves are fit for them.
LEMMA QuietMove ==
  ASSUME TypeInv, BlobInv, NEW p \in Procs, NEW l, NEW r, Goto(p, l, r),
         BlobsOK(l, r), PrivateIds', UNCHANGED <<docs, orig, thumbs, doomed>>
  PROVE  BlobInv'
<1>1. BlobsBehindDocuments'
  BY DEF BlobInv, BlobsBehindDocuments, Live, HasBlobs
<1>2. ASSUME NEW q \in Procs PROVE BlobsOK(pc'[q], req'[q])
  BY GotoFrame DEF BlobInv
<1>3. \A q \in Procs : BlobsOK(pc[q], req[q])'
  BY <1>2 DEF BlobsOK, CreateOK, HasBlobs
<1> QED BY <1>1, <1>3 DEF BlobInv

\* So does a request that ends.
LEMMA QuietFinish ==
  ASSUME TypeInv, BlobInv, NEW p \in Procs, Finish(p),
         UNCHANGED <<docs, orig, thumbs, doomed>>
  PROVE  BlobInv'
<1>1. BlobsOK("idle", NoRequest)
  BY ConstantsAssumption DEF BlobsOK, NoRequest, Operation
<1>2. PrivateIds'
  BY KeepsPrivateIds DEF Finish, BlobInv
<1> QED BY <1>1, <1>2, QuietMove DEF Finish

LEMMA InitBlobInv == Init => BlobInv
<1> SUFFICES ASSUME Init PROVE BlobInv
  OBVIOUS
<1>1. BlobsBehindDocuments
  BY DEF Init, BlobsBehindDocuments, Live
<1>2. \A p \in Procs : BlobsOK(pc[p], req[p]) /\ req[p].op # "create"
  BY ConstantsAssumption DEF Init, BlobsOK, NoRequest, Operation
<1> QED BY <1>1, <1>2 DEF BlobInv, PrivateIds

\* Every step keeps the invariant when no option asks for a duplicate check.
LEMMA StepBlobInv ==
  ASSUME NoDedupe, TypeInv, BlobInv, NEW p \in Procs, Step(p)
  PROVE  BlobInv'
<1> DEFINE r == req[p]
<1>0. /\ r \in Request /\ LocalOK(pc[p], r) /\ BlobsOK(pc[p], r)
      /\ r.op = "recompute" => r.opt \in Options /\ ~r.opt.dedupe
  BY DEF TypeInv, TypeOK, BlobInv, LocalOK, NoDedupe
<1>1. ASSUME NEW f \in Files, CreateMeme(p, f) PROVE BlobInv'
  <2>1. PICK m \in Memes :
          Fresh(m) /\ Goto(p, "hash", [NoRequest EXCEPT
            !.op = "create", !.id = m, !.todo = Artifact,
            !.data = [file |-> f, encodings |-> 0]])
    BY <1>1 DEF CreateMeme
  <2> DEFINE s == [NoRequest EXCEPT
            !.op = "create", !.id = m, !.todo = Artifact,
            !.data = [file |-> f, encodings |-> 0]]
  <2>2. s.op = "create" /\ s.id = m /\ s.todo = Artifact
    BY DEF NoRequest
  <2>3. Goto(p, "hash", s)
    BY <2>1
  <2> HIDE DEF s
  <2>4. BlobsOK("hash", s)
    BY <2>1, <2>2 DEF BlobsOK, CreateOK, Fresh
  <2>5. PrivateIds'
    <3>1. req'[p].id = m /\ \A q \in Procs \ {p} : req'[q] = req[q]
      BY <2>2, <2>3, GotoFrame
    <3>2. \A q \in Procs : req[q].id # m
      BY <2>1 DEF Fresh
    <3> QED BY <3>1, <3>2 DEF PrivateIds, BlobInv
  <2> QED BY <1>1, <2>3, <2>4, <2>5, QuietMove DEF CreateMeme
<1>2. ASSUME NEW m \in Memes, MemeNotFound(p, m) PROVE BlobInv'
  BY <1>2 DEF MemeNotFound, vars, BlobInv, BlobsBehindDocuments, Live, HasBlobs,
              BlobsOK, CreateOK, PrivateIds
<1>3. ASSUME NEW m \in Live, NEW l, NEW s, Goto(p, l, s), s.id = m,
             s.op \in {"update", "recompute"} \/ s.op \in {"delete", "wipe"}
      PROVE  PrivateIds'
  <2>1. \A q \in Procs : req[q].op = "create" => req[q].id # m
    BY <1>3 DEF BlobInv, BlobsOK, CreateOK, Live
  <2> QED BY <1>3, <2>1, GotoFrame DEF PrivateIds, BlobInv
<1>4. ASSUME NEW m \in Memes, NEW u \in Updates, UpdateMeme(p, m, u) PROVE BlobInv'
  <2> DEFINE todo == {a \in Artifact : \/ a = "orig" /\ u.orig # None
                                       \/ a = "thumb" /\ u.thumb}
             s == [NoRequest EXCEPT !.op = "update", !.id = m, !.todo = todo,
                     !.data = IF u.orig = None THEN None
                              ELSE [file |-> u.orig, encodings |-> 0],
                     !.doc = [docs[m] EXCEPT !.edited = TRUE, !.manual = @ \/ u.text]]
  <2>1. Goto(p, NextUpload(todo), s) /\ m \in Live
    BY <1>4 DEF UpdateMeme
  <2>2. s.op = "update" /\ s.id = m
    BY DEF NoRequest
  <2>3. BlobsOK(NextUpload(todo), s)
    BY <2>1, <2>2 DEF BlobsOK, BlobInv, BlobsBehindDocuments
  <2>4. PrivateIds'
    BY <1>3, <2>1, <2>2
  <2> QED BY <1>4, <2>1, <2>3, <2>4, QuietMove DEF UpdateMeme
<1>5. ASSUME NEW m \in Memes, NEW o \in Options, RecomputeMeme(p, m, o) PROVE BlobInv'
  <2> DEFINE s == [NoRequest EXCEPT
                     !.op = "recompute", !.id = m, !.doc = docs[m], !.opt = o,
                     !.todo = IF o.storage THEN Artifact ELSE {}]
  <2>1. Goto(p, "read", s) /\ m \in Live
    BY <1>5 DEF RecomputeMeme
  <2>2. s.op = "recompute" /\ s.id = m /\ s.dup = None
    BY DEF NoRequest
  <2>3. BlobsOK("read", s)
    BY <2>1, <2>2 DEF BlobsOK, BlobInv, BlobsBehindDocuments
  <2>4. PrivateIds'
    BY <1>3, <2>1, <2>2
  <2> QED BY <1>5, <2>1, <2>3, <2>4, QuietMove DEF RecomputeMeme
<1>6. ASSUME NEW m \in Memes, NEW op \in Operation, DeleteMeme(p, m, op) PROVE BlobInv'
  <2> DEFINE s == [NoRequest EXCEPT !.op = op, !.id = m]
  <2>1. Goto(p, "purgeOrig", s) /\ m \in Live /\ s.op \in {"delete", "wipe"} /\ s.id = m
    BY <1>6 DEF DeleteMeme, NoRequest
  <2>2. /\ doomed' = doomed \cup {m}
        /\ UNCHANGED <<docs, orig, thumbs>>
    BY <1>6 DEF DeleteMeme
  <2>3. PrivateIds'
    BY <1>3, <2>1
  <2>4. BlobsBehindDocuments'
    BY <2>2 DEF BlobInv, BlobsBehindDocuments, Live, HasBlobs
  <2>5. ASSUME NEW q \in Procs PROVE BlobsOK(pc[q], req[q])'
    <3>1. CASE q = p
      <4>1. pc'[p] = "purgeOrig" /\ req'[p] = s
        BY <2>1, GotoFrame
      <4> HIDE DEF s
      <4> QED BY <2>1, <2>2, <3>1, <4>1 DEF BlobsOK
    <3>2. CASE q # p
      <4>1. req[q].op = "create" => req[q].id # m
        BY <2>1 DEF BlobInv, BlobsOK, CreateOK, Live
      <4>2. BlobsOK(pc[q], req[q]) /\ pc'[q] = pc[q] /\ req'[q] = req[q]
        BY <2>1, <3>2, GotoFrame DEF BlobInv
      <4> QED BY <2>2, <4>1, <4>2 DEF BlobsOK, CreateOK, HasBlobs
    <3> QED BY <3>1, <3>2
  <2> QED BY <2>3, <2>4, <2>5 DEF BlobInv
<1>7. ASSUME NEW l, NEW s, Goto(p, l, s), s.op = r.op, s.id = r.id, BlobsOK(l, s),
             UNCHANGED <<docs, orig, thumbs, doomed>>
      PROVE  BlobInv'
  BY <1>7, QuietMove, KeepsPrivateIds DEF BlobInv
<1>8. ASSUME ReadOriginal(p) PROVE BlobInv'
  <2>1. r.op = "recompute" /\ ~r.opt.dedupe
    BY <1>0, <1>8 DEF ReadOriginal, LocalOK
  <2>2. CASE orig[r.id] = None
    BY <1>8, <2>2, QuietFinish DEF ReadOriginal
  <2>3. CASE orig[r.id] # None
    <3> DEFINE s == [r EXCEPT !.data = orig[r.id]]
    <3>1. Goto(p, "extract", s) /\ UNCHANGED <<docs, orig, thumbs, doomed>>
      BY <1>8, <2>1, <2>3 DEF ReadOriginal
    <3>2. s.op = r.op /\ s.id = r.id /\ s.dup = r.dup
      BY <1>0 DEF Request
    <3>3. BlobsOK("extract", s)
      BY <1>0, <2>1, <3>2 DEF BlobsOK
    <3> QED BY <1>7, <3>1, <3>2, <3>3
  <2> QED BY <2>2, <2>3
<1>9. ASSUME CheckDuplicateByHash(p) PROVE BlobInv'
  <2>1. r.op = "create" /\ pc[p] = "hash"
    BY <1>0, <1>9 DEF CheckDuplicateByHash, GetDuplicatesByHash, LocalOK, BlobsOK
  <2>2. UNCHANGED <<docs, orig, thumbs, doomed>>
    BY <1>9 DEF CheckDuplicateByHash, GetDuplicatesByHash
  <2>3. Finish(p) \/ Goto(p, "extract", r)
    BY <1>9, <2>1 DEF CheckDuplicateByHash, GetDuplicatesByHash, FoundDuplicate
  <2>4. BlobsOK("extract", r)
    BY <1>0, <2>1 DEF BlobsOK, CreateOK
  <2> QED BY <1>7, <2>2, <2>3, <2>4, QuietFinish
<1>10. ASSUME ExtractMedia(p) PROVE BlobInv'
  <2> DEFINE s == [r EXCEPT !.dup = None, !.doc = Extracted(r)]
  <2>1. r.op \in {"create", "recompute"} /\ r.dup = None /\ pc[p] = "extract"
    BY <1>0, <1>10 DEF ExtractMedia, LocalOK, BlobsOK
  <2>2. UNCHANGED <<docs, orig, thumbs, doomed>>
    BY <1>10 DEF ExtractMedia
  <2>3. r.op = "recompute" => ~ChecksEmbedding(r)
    BY <1>0, ConstantsAssumption DEF ChecksEmbedding
  <2>4. Finish(p) \/ Goto(p, NextUpload(r.todo), s)
    BY <1>10, <2>1, <2>3 DEF ExtractMedia
  <2>5. /\ s.op = r.op /\ s.id = r.id /\ s.dup = None /\ s.todo = r.todo
        /\ r.todo \in SUBSET Artifact
    BY <1>0 DEF Request
  <2> HIDE DEF s
  <2>6. r.op = "create" => r.todo = Artifact /\ NextUpload(r.todo) = "putOrig"
    BY <1>0, <2>1 DEF BlobsOK, CreateOK, NextUpload, Artifact
  <2>7. BlobsOK(NextUpload(r.todo), s)
    BY <1>0, <2>1, <2>5, <2>6, NextUploadLabel DEF BlobsOK, CreateOK
  <2> QED BY <1>7, <2>2, <2>4, <2>5, <2>7, QuietFinish
<1>11. ~DropDuplicate(p)
  BY <1>0 DEF DropDuplicate, LocalOK, BlobsOK
\* The two bucket deletions: the id they work on is doomed, so no invariant
\* of another request or of a document depends on its blobs.
<1>12. ASSUME PrivateIds', BlobsOK(pc[p], req[p])',
              \A q \in Procs \ {p} : pc'[q] = pc[q] /\ req'[q] = req[q],
              r.id \in doomed, docs' = docs, doomed' = doomed,
              \A m \in Memes \ {r.id} : HasBlobs(m) => HasBlobs(m)',
              \A m \in Memes \ {r.id} : orig'[m] = orig[m]
       PROVE  BlobInv'
  <2>1. BlobsBehindDocuments'
    BY <1>12 DEF BlobInv, BlobsBehindDocuments, Live
  <2>2. ASSUME NEW q \in Procs PROVE BlobsOK(pc[q], req[q])'
    <3>1. CASE q = p
      BY <1>12, <3>1
    <3>2. CASE q # p
      <4>1. BlobsOK(pc[q], req[q]) /\ pc'[q] = pc[q] /\ req'[q] = req[q]
        BY <1>12, <3>2 DEF BlobInv
      <4>2. req[q].op \in {"create", "update", "recompute"} => req[q].id \in Memes
        BY ConstantsAssumption DEF TypeInv, LocalOK, NoRequest, Operation
      <4> QED BY <1>12, <4>1, <4>2 DEF BlobsOK, CreateOK
    <3> QED BY <3>1, <3>2
  <2> QED BY <1>12, <2>1, <2>2 DEF BlobInv
<1>13. ASSUME PurgeOriginal(p) PROVE BlobInv'
  <2>1. r.op \in {"delete", "wipe"} /\ r.id \in doomed /\ r.id \in Memes
    BY <1>0, <1>13 DEF PurgeOriginal, LocalOK, BlobsOK
  <2>2. docs' = docs /\ thumbs' = thumbs /\ doomed' = doomed
    BY <1>13 DEF PurgeOriginal
  <2>3. \A m \in Memes \ {r.id} : orig'[m] = orig[m]
    BY <1>13 DEF PurgeOriginal, TypeInv, TypeOK
  <2>4. \A m \in Memes \ {r.id} : HasBlobs(m) => HasBlobs(m)'
    BY <2>2, <2>3 DEF HasBlobs
  <2>5. PICK s \in {r, [r EXCEPT !.failed = TRUE]} : Goto(p, "purgeThumb", s)
    BY <1>13 DEF PurgeOriginal
  <2>6. s.op = r.op /\ s.id = r.id
    BY <1>0 DEF Request
  <2>7. pc'[p] = "purgeThumb" /\ req'[p] = s
        /\ \A q \in Procs \ {p} : pc'[q] = pc[q] /\ req'[q] = req[q]
    BY <2>5, GotoFrame
  <2>8. BlobsOK(pc[p], req[p])'
    BY <2>1, <2>2, <2>6, <2>7 DEF BlobsOK
  <2>9. PrivateIds'
    BY <2>5, <2>6, KeepsPrivateIds DEF BlobInv
  <2> QED BY <1>12, <2>1, <2>2, <2>3, <2>4, <2>7, <2>8, <2>9
<1>14. ASSUME PurgeThumbnail(p) PROVE BlobInv'
  <2>1. r.op \in {"delete", "wipe"} /\ r.id \in doomed /\ r.id \in Memes
    BY <1>0, <1>14 DEF PurgeThumbnail, LocalOK, BlobsOK
  <2>2. docs' = docs /\ orig' = orig /\ doomed' = doomed
    BY <1>14 DEF PurgeThumbnail
  <2>3. \A m \in Memes \ {r.id} : HasBlobs(m) => HasBlobs(m)'
    BY <1>14 DEF PurgeThumbnail, HasBlobs
  <2>4. PICK s \in {r, [r EXCEPT !.failed = TRUE]} : AfterPurge(p, s)
    BY <1>14 DEF PurgeThumbnail
  <2>5. s.op = r.op /\ s.id = r.id
    BY <1>0 DEF Request
  <2>6. PICK l, z : Goto(p, l, z) /\ (z = NoRequest \/ z = s)
    BY <2>4 DEF AfterPurge, Finish
  <2>7. pc'[p] = l /\ req'[p] = z
        /\ \A q \in Procs \ {p} : pc'[q] = pc[q] /\ req'[q] = req[q]
    BY <2>6, GotoFrame
  <2>8. z.op \in {None, "delete", "wipe"} /\ (z.op # None => z.id = r.id)
    BY <2>1, <2>5, <2>6 DEF NoRequest
  <2>9. BlobsOK(pc[p], req[p])'
    BY <2>1, <2>2, <2>7, <2>8, ConstantsAssumption DEF BlobsOK, Operation
  <2>10. PrivateIds'
    BY <2>5, <2>6, KeepsPrivateIds DEF BlobInv
  <2> QED BY <1>12, <2>1, <2>2, <2>3, <2>7, <2>9, <2>10
<1>15. BlobsOK("idle", NoRequest)'
  BY ConstantsAssumption DEF BlobsOK, NoRequest, Operation
<1>16. ASSUME RemoveMetadata(p) PROVE BlobInv'
  <2>1. Goto(p, "idle", NoRequest)
    BY <1>16 DEF RemoveMetadata, Finish
  <2>2. docs' = [docs EXCEPT ![r.id] = None] /\ UNCHANGED <<orig, thumbs, doomed>>
    BY <1>16 DEF RemoveMetadata
  <2>3. \A m \in Memes : docs'[m] \in {docs[m], None}
    BY <2>2 DEF TypeInv, TypeOK
  <2>4. BlobsBehindDocuments'
    BY <2>2, <2>3 DEF BlobInv, BlobsBehindDocuments, Live, HasBlobs
  <2>5. PrivateIds'
    BY <2>1, KeepsPrivateIds DEF BlobInv
  <2>6. ASSUME NEW q \in Procs PROVE BlobsOK(pc[q], req[q])'
    <3>1. CASE q = p
      BY <1>15, <2>1, <3>1, GotoFrame DEF BlobsOK, CreateOK, HasBlobs
    <3>2. CASE q # p
      <4>1. BlobsOK(pc[q], req[q]) /\ pc'[q] = pc[q] /\ req'[q] = req[q]
        BY <2>1, <3>2, GotoFrame DEF BlobInv
      <4>2. req[q].op = "create" => req[q].id \in Memes
        BY ConstantsAssumption DEF TypeInv, LocalOK, NoRequest, Operation
      <4> QED BY <2>2, <2>3, <4>1, <4>2 DEF BlobsOK, CreateOK, HasBlobs
    <3> QED BY <3>1, <3>2
  <2> QED BY <2>4, <2>5, <2>6 DEF BlobInv
\* A stored blob takes nothing away from anybody.
<1>17. ASSUME NEW a \in Artifact, Stored(p, a), r.op \in {"create", "update", "recompute"},
              docs' = docs, doomed' = doomed, \A m \in Memes : HasBlobs(m) => HasBlobs(m)',
              \A m \in Memes : orig[m] # None => orig'[m] # None,
              r.op = "create" => CreateOK(pc[p], req[p])',
              pc[p] \in {"putOrig", "putThumb"}
       PROVE  BlobInv'
  <2> DEFINE l == NextUpload(r.todo \ {a})
             s == [r EXCEPT !.todo = r.todo \ {a}]
  <2>1. Goto(p, l, s) /\ s.op = r.op /\ s.id = r.id /\ s.dup = r.dup
    BY <1>0, <1>17 DEF Stored, Request
  <2>2. r.id \in Memes /\ l \in {"putOrig", "putThumb", "save"}
    BY <1>0, <1>17, NextUploadLabel DEF LocalOK, Request
  <2>3. BlobsBehindDocuments'
    BY <1>17 DEF BlobInv, BlobsBehindDocuments, Live
  <2>4. PrivateIds'
    BY <2>1, KeepsPrivateIds DEF BlobInv
  <2>5. pc'[p] = l /\ req'[p] = s
    BY <2>1, GotoFrame
  <2>6. ASSUME NEW q \in Procs PROVE BlobsOK(pc[q], req[q])'
    <3>1. CASE q = p
      <4>1. req'[p].op = r.op /\ req'[p].id = r.id /\ req'[p].dup = r.dup
            /\ pc'[p] \in {"putOrig", "putThumb", "save"}
        BY <2>1, <2>2, <2>5
      <4> QED BY <1>0, <1>17, <2>2, <3>1, <4>1 DEF BlobsOK
    <3>2. CASE q # p
      <4>1. BlobsOK(pc[q], req[q]) /\ pc'[q] = pc[q] /\ req'[q] = req[q]
        BY <2>1, <3>2, GotoFrame DEF BlobInv
      <4>2. req[q].op \in {"create", "update", "recompute"} => req[q].id \in Memes
        BY ConstantsAssumption DEF TypeInv, LocalOK, NoRequest, Operation
      <4> QED BY <1>17, <4>1, <4>2 DEF BlobsOK, CreateOK
    <3> QED BY <3>1, <3>2
  <2> QED BY <2>3, <2>4, <2>6 DEF BlobInv
<1>18. ASSUME PutOriginal(p) PROVE BlobInv'
  <2>1. /\ r.op \in {"create", "update", "recompute"} /\ r.id \in Memes
        /\ pc[p] = "putOrig" /\ Encode(r.data) \in Content
    BY <1>0, <1>18, EncodeType DEF PutOriginal, LocalOK
  <2>2. /\ docs' = docs /\ thumbs' = thumbs /\ doomed' = doomed
        /\ orig' = [orig EXCEPT ![r.id] = Encode(r.data)] /\ Stored(p, "orig")
    BY <1>18 DEF PutOriginal
  <2>3. orig'[r.id] # None /\ \A m \in Memes \ {r.id} : orig'[m] = orig[m]
    BY <2>1, <2>2, ConstantsAssumption DEF TypeInv, TypeOK
  <2>4. \A m \in Memes : orig[m] # None => orig'[m] # None
    BY <2>3
  <2>5. \A m \in Memes : HasBlobs(m) => HasBlobs(m)'
    BY <2>2, <2>4 DEF HasBlobs
  <2>6. ASSUME r.op = "create"
        PROVE  CreateOK(pc[p], req[p])'
    <3> DEFINE s == [r EXCEPT !.todo = r.todo \ {"orig"}]
    <3>1. CreateOK("putOrig", r)
      BY <1>0, <2>1, <2>6 DEF BlobsOK
    <3>2. r.todo \ {"orig"} = {"thumb"}
      BY <3>1 DEF CreateOK, Artifact
    <3>3. NextUpload(r.todo \ {"orig"}) = "putThumb"
      BY <3>2 DEF NextUpload
    <3>4. s.id = r.id /\ s.todo = {"thumb"}
      BY <1>0, <3>2 DEF Request
    <3>5. pc'[p] = "putThumb" /\ req'[p] = s
      BY <2>2, <3>3, GotoFrame DEF Stored
    <3> HIDE DEF s
    <3> QED BY <2>2, <2>3, <3>1, <3>4, <3>5 DEF CreateOK
  <2> QED BY <1>17, <2>1, <2>2, <2>4, <2>5, <2>6 DEF Artifact
<1>19. ASSUME PutThumbnail(p) PROVE BlobInv'
  <2>1. /\ r.op \in {"create", "update", "recompute"} /\ r.id \in Memes
        /\ pc[p] = "putThumb"
    BY <1>0, <1>19 DEF PutThumbnail, LocalOK
  <2>2. /\ docs' = docs /\ orig' = orig /\ doomed' = doomed
        /\ thumbs' = thumbs \cup {r.id} /\ Stored(p, "thumb")
    BY <1>19 DEF PutThumbnail
  <2>3. \A m \in Memes : HasBlobs(m) => HasBlobs(m)'
    BY <2>2 DEF HasBlobs
  <2>4. ASSUME r.op = "create"
        PROVE  CreateOK(pc[p], req[p])'
    <3> DEFINE s == [r EXCEPT !.todo = r.todo \ {"thumb"}]
    <3>1. CreateOK("putThumb", r)
      BY <1>0, <2>1, <2>4 DEF BlobsOK
    <3>2. r.todo \ {"thumb"} = {}
      BY <3>1 DEF CreateOK
    <3>3. NextUpload(r.todo \ {"thumb"}) = "save"
      BY <3>2 DEF NextUpload
    <3>4. s.id = r.id
      BY <1>0 DEF Request
    <3>5. pc'[p] = "save" /\ req'[p] = s
      BY <2>2, <3>3, GotoFrame DEF Stored
    <3> HIDE DEF s
    <3> QED BY <2>2, <3>1, <3>4, <3>5 DEF CreateOK, HasBlobs
  <2> QED BY <1>17, <2>1, <2>2, <2>3, <2>4 DEF Artifact
<1>20. ASSUME SaveMetadata(p) PROVE BlobInv'
  <2>1. /\ r.op \in {"create", "update", "recompute"} /\ r.id \in Memes
        /\ pc[p] = "save" /\ Goto(p, "idle", NoRequest)
    BY <1>0, <1>20 DEF SaveMetadata, LocalOK, Finish
  <2>2. docs' = [docs EXCEPT ![r.id] = r.doc] /\ UNCHANGED <<orig, thumbs, doomed>>
    BY <1>20 DEF SaveMetadata
  <2>3. r.id \in doomed \/ HasBlobs(r.id)
    BY <1>0, <2>1 DEF BlobsOK, CreateOK
  <2>4. \A m \in Memes \ {r.id} : docs'[m] = docs[m]
    BY <2>2 DEF TypeInv, TypeOK
  <2>5. BlobsBehindDocuments'
    BY <2>2, <2>3, <2>4 DEF BlobInv, BlobsBehindDocuments, Live, HasBlobs
  <2>6. PrivateIds'
    BY <2>1, KeepsPrivateIds DEF BlobInv
  <2>7. ASSUME NEW q \in Procs PROVE BlobsOK(pc[q], req[q])'
    <3>1. CASE q = p
      BY <1>15, <2>1, <3>1, GotoFrame DEF BlobsOK, CreateOK, HasBlobs
    <3>2. CASE q # p
      <4>1. BlobsOK(pc[q], req[q]) /\ pc'[q] = pc[q] /\ req'[q] = req[q]
        BY <2>1, <3>2, GotoFrame DEF BlobInv
      <4>2. req[q].op = "create" => req[q].id \in Memes \ {r.id}
        BY <3>2, ConstantsAssumption
        DEF BlobInv, PrivateIds, TypeInv, LocalOK, NoRequest, Operation
      <4> QED BY <2>2, <2>4, <4>1, <4>2 DEF BlobsOK, CreateOK, HasBlobs
    <3> QED BY <3>1, <3>2
  <2> QED BY <2>5, <2>6, <2>7 DEF BlobInv
<1>21. ASSUME Abort(p) PROVE BlobInv'
  BY <1>21, QuietFinish DEF Abort
<1> QED
  BY <1>1, <1>2, <1>4, <1>5, <1>6, <1>8, <1>9, <1>10, <1>11, <1>13, <1>14, <1>16,
     <1>18, <1>19, <1>20, <1>21 DEF Step

\* A meme that can be found and that nobody decided to delete keeps both its
\* blobs, as long as no recompute checks for duplicates: not even failures
\* between the two stores leave a document without them.
THEOREM BlobsStayBehindDocuments ==
  ASSUME NoDedupe
  PROVE  Spec => []BlobsBehindDocuments
<1> DEFINE Inv == TypeInv /\ BlobInv
<1>1. Init => Inv
  BY InitTypeInv, InitBlobInv
<1>2. Inv /\ [Next]_vars => Inv'
  <2> SUFFICES ASSUME Inv, [Next]_vars PROVE Inv'
    OBVIOUS
  <2>1. TypeInv'
    BY NextTypeInv
  <2>2. CASE Next
    BY <2>1, <2>2, StepBlobInv DEF Next
  <2>3. CASE UNCHANGED vars
    BY <2>1, <2>3 DEF vars, BlobInv, BlobsBehindDocuments, Live, HasBlobs, BlobsOK,
                      CreateOK, PrivateIds
  <2> QED BY <2>2, <2>3
<1>3. Inv => BlobsBehindDocuments
  BY DEF BlobInv
<1> QED BY <1>1, <1>2, <1>3, PTL DEF Spec
-----------------------------------------------------------------------------
(***************************************************************************)
(* Manual text.  An edited document comes from an update, which sets the   *)
(* flag, or is a copy of one that had it; a recompute clears the flag, and *)
(* drops the text with it if its options extract whenever they include     *)
(* edited memes, as those of the web application do.                       *)
(***************************************************************************)
ExtractsWhatItIncludes == \A o \in Options : o.manual => o.extract

Marked(d) == d.manual => d.edited

TextOK(l, r) ==
  /\ r.doc # None => Marked(r.doc)
  /\ r.op = "recompute" /\ l \in {"read", "hash", "extract"} =>
       (r.doc.edited => r.opt.manual)

TextInv == /\ ManualTextIsMarkedEdited
           /\ \A p \in Procs : TextOK(pc[p], req[p])

\* Only what a save indexes and the locals of the process that moves need to be
\* looked at.
LEMMA TextMove ==
  ASSUME TypeInv, TextInv, NEW p \in Procs, NEW l, NEW s, Goto(p, l, s), TextOK(l, s),
         \A m \in Memes : docs'[m] \in {docs[m], None} \/ Marked(docs'[m])
  PROVE  TextInv'
<1>1. ASSUME NEW q \in Procs PROVE TextOK(pc'[q], req'[q])
  BY GotoFrame DEF TextInv
<1>2. ManualTextIsMarkedEdited'
  BY DEF TextInv, ManualTextIsMarkedEdited, Marked, Live
<1> QED BY <1>1, <1>2 DEF TextInv, TextOK

\* A request without a document breaks nothing.
LEMMA NoText ==
  /\ \A l : TextOK(l, NoRequest)
  /\ NoRequest.doc = None
BY ConstantsAssumption DEF TextOK, NoRequest, Operation

\* Nothing is stored initially, and nobody holds a document.
LEMMA InitTextInv == Init => TextInv
BY NoText DEF Init, TextInv, ManualTextIsMarkedEdited, Live

\* Every step marks the text it indexes.
LEMMA StepTextInv ==
  ASSUME ExtractsWhatItIncludes, TypeInv, TextInv, NEW p \in Procs, Step(p)
  PROVE  TextInv'
<1> DEFINE r == req[p]
<1>0. r \in Request /\ LocalOK(pc[p], r) /\ TextOK(pc[p], r)
  BY DEF TypeInv, TypeOK, TextInv
<1>1. ASSUME NEW l, NEW s, Goto(p, l, s), s.doc = r.doc, s.op = r.op, s.opt = r.opt,
             l \in {"read", "hash", "extract"} => pc[p] \in {"read", "hash", "extract"},
             \A m \in Memes : docs'[m] \in {docs[m], None} \/ Marked(docs'[m])
      PROVE  TextInv'
  <2>1. TextOK(l, s)
    BY <1>0, <1>1 DEF TextOK
  <2> QED BY <1>1, <2>1, TextMove
<1>2. ASSUME Finish(p),
             \A m \in Memes : docs'[m] \in {docs[m], None} \/ Marked(docs'[m])
      PROVE  TextInv'
  BY <1>2, NoText, TextMove DEF Finish
<1>3. ASSUME NEW f \in Files, CreateMeme(p, f) PROVE TextInv'
  <2>1. PICK m \in Memes : Goto(p, "hash", [NoRequest EXCEPT
            !.op = "create", !.id = m, !.todo = Artifact,
            !.data = [file |-> f, encodings |-> 0]])
    BY <1>3 DEF CreateMeme
  <2> DEFINE s == [NoRequest EXCEPT
            !.op = "create", !.id = m, !.todo = Artifact,
            !.data = [file |-> f, encodings |-> 0]]
  <2>2. TextOK("hash", s)
    BY DEF TextOK, NoRequest
  <2> QED BY <1>3, <2>1, <2>2, TextMove DEF CreateMeme
<1>4. ASSUME NEW m \in Memes, MemeNotFound(p, m) PROVE TextInv'
  BY <1>4 DEF MemeNotFound, vars, TextInv, ManualTextIsMarkedEdited, Live
<1>5. ASSUME NEW m \in Memes, NEW u \in Updates, UpdateMeme(p, m, u) PROVE TextInv'
  <2> DEFINE todo == {a \in Artifact : \/ a = "orig" /\ u.orig # None
                                       \/ a = "thumb" /\ u.thumb}
             data == IF u.orig = None THEN None
                     ELSE [file |-> u.orig, encodings |-> 0]
             doc == [docs[m] EXCEPT !.edited = TRUE, !.manual = @ \/ u.text]
             s == [NoRequest EXCEPT !.op = "update", !.id = m, !.todo = todo,
                                    !.data = data, !.doc = doc]
  <2>1. Goto(p, NextUpload(todo), s) /\ docs' = docs
    BY <1>5 DEF UpdateMeme
  <2>2. doc.edited
    BY <1>5 DEF UpdateMeme, Live, TypeInv, TypeOK, Doc
  <2> HIDE DEF todo, data, doc
  <2>3. s.op = "update" /\ s.doc = doc
    BY DEF NoRequest
  <2>4. TextOK(NextUpload(todo), s)
    BY <2>2, <2>3 DEF TextOK, Marked
  <2> QED BY <2>1, <2>4, TextMove
<1>6. ASSUME NEW m \in Memes, NEW o \in Options, RecomputeMeme(p, m, o) PROVE TextInv'
  <2> DEFINE s == [NoRequest EXCEPT
                     !.op = "recompute", !.id = m, !.doc = docs[m], !.opt = o,
                     !.todo = IF o.storage THEN Artifact ELSE {}]
  <2>1. Goto(p, "read", s) /\ docs' = docs /\ (docs[m].edited => o.manual)
    BY <1>6 DEF RecomputeMeme
  <2>2. Marked(docs[m])
    BY <1>6 DEF RecomputeMeme, TextInv, ManualTextIsMarkedEdited, Marked
  <2>3. s.doc = docs[m] /\ s.opt = o
    BY DEF NoRequest
  <2>4. TextOK("read", s)
    BY <2>1, <2>2, <2>3 DEF TextOK
  <2> QED BY <2>1, <2>4, TextMove
<1>7. ASSUME NEW m \in Memes, NEW op \in Operation, DeleteMeme(p, m, op) PROVE TextInv'
  <2> DEFINE s == [NoRequest EXCEPT !.op = op, !.id = m]
  <2>1. Goto(p, "purgeOrig", s) /\ docs' = docs /\ s.doc = None
    BY <1>7 DEF DeleteMeme, NoRequest
  <2>2. TextOK("purgeOrig", s)
    BY <2>1 DEF TextOK
  <2> QED BY <2>1, <2>2, TextMove
<1>8. ASSUME ReadOriginal(p) PROVE TextInv'
  <2>1. pc[p] = "read" /\ docs' = docs
    BY <1>8 DEF ReadOriginal
  <2>2. CASE orig[r.id] = None
    BY <1>2, <1>8, <2>1, <2>2 DEF ReadOriginal
  <2>3. CASE orig[r.id] # None
    <3> DEFINE s == [r EXCEPT !.data = orig[r.id]]
               l == IF r.opt.dedupe THEN "hash" ELSE "extract"
    <3>1. Goto(p, l, s)
      BY <1>8, <2>3 DEF ReadOriginal
    <3>2. s.doc = r.doc /\ s.op = r.op /\ s.opt = r.opt
      BY <1>0 DEF Request
    <3> HIDE DEF s, l
    <3> QED BY <1>1, <2>1, <3>1, <3>2
  <2> QED BY <2>2, <2>3
<1>9. ASSUME CheckDuplicateByHash(p) PROVE TextInv'
  <2>1. pc[p] = "hash" /\ docs' = docs
    BY <1>9 DEF CheckDuplicateByHash, GetDuplicatesByHash
  <2>2. ASSUME NEW d, Goto(p, "extract", [r EXCEPT !.dup = d]) PROVE TextInv'
    <3> DEFINE s == [r EXCEPT !.dup = d]
    <3>1. s.doc = r.doc /\ s.op = r.op /\ s.opt = r.opt
      BY <1>0 DEF Request
    <3> HIDE DEF s
    <3> QED BY <1>1, <2>1, <2>2, <3>1 DEF s
  <2>3. Goto(p, "extract", r) => TextInv'
    BY <1>1, <2>1
  <2> QED BY <1>2, <1>9, <2>1, <2>2, <2>3
          DEF CheckDuplicateByHash, GetDuplicatesByHash, FoundDuplicate
\* The pipeline's document: a recompute keeps the text only when it does not
\* extract, and then the document was not edited, hence not manual.
<1>10. ASSUME ExtractMedia(p) PROVE TextInv'
  <2>1. /\ pc[p] = "extract" /\ docs' = docs
        /\ r.op = "recompute" => /\ r.doc \in Doc /\ r.opt \in Options
                                 /\ Marked(r.doc) /\ (r.doc.edited => r.opt.manual)
    BY <1>0, <1>10, NoneIsNoDoc DEF ExtractMedia, LocalOK, TextOK
  <2>2. ~Extracted(r).manual
    BY <2>1 DEF Extracted, Marked, ExtractsWhatItIncludes
  <2>3. ASSUME NEW l, NEW d, Goto(p, l, [r EXCEPT !.dup = d, !.doc = Extracted(r)]),
               l \notin {"read", "hash", "extract"}
        PROVE  TextInv'
    <3> DEFINE s == [r EXCEPT !.dup = d, !.doc = Extracted(r)]
    <3>1. s.doc = Extracted(r)
      BY <1>0 DEF Request
    <3>2. TextOK(l, s)
      <4> HIDE DEF s
      <4> QED BY <2>2, <2>3, <3>1 DEF TextOK, Marked
    <3> QED BY <2>1, <2>3, <3>2, TextMove
  <2>4. NextUpload(r.todo) \in {"putOrig", "putThumb", "save"}
    BY DEF NextUpload
  <2>5. Finish(p) \/ \E d : Goto(p, IF d = None THEN NextUpload(r.todo) ELSE "drop",
                                 [r EXCEPT !.dup = d, !.doc = Extracted(r)])
    BY <1>10 DEF ExtractMedia
  <2>6. CASE Finish(p)
    BY <1>2, <2>1, <2>6
  <2>7. CASE ~Finish(p)
    <3>1. PICK d : Goto(p, IF d = None THEN NextUpload(r.todo) ELSE "drop",
                        [r EXCEPT !.dup = d, !.doc = Extracted(r)])
      BY <2>5, <2>7
    <3>2. (IF d = None THEN NextUpload(r.todo) ELSE "drop")
            \notin {"read", "hash", "extract"}
      BY <2>4
    <3> QED BY <2>3, <3>1, <3>2
  <2> QED BY <2>6, <2>7
\* The other steps keep the document and the options.
<1>11. ASSUME NEW l, NEW s \in {r, [r EXCEPT !.failed = TRUE]}, Goto(p, l, s),
              l \notin {"read", "hash", "extract"},
              \A m \in Memes : docs'[m] \in {docs[m], None}
       PROVE  TextInv'
  <2>1. s.doc = r.doc /\ s.op = r.op /\ s.opt = r.opt
    BY <1>0 DEF Request
  <2> QED BY <1>1, <1>11, <2>1
<1>12. ASSUME DropDuplicate(p) PROVE TextInv'
  <2>1. \A m \in Memes : docs'[m] \in {docs[m], None}
    BY <1>12 DEF DropDuplicate, TypeInv, TypeOK
  <2> QED BY <1>11, <1>12, <2>1 DEF DropDuplicate
<1>13. ASSUME PurgeOriginal(p) PROVE TextInv'
  BY <1>11, <1>13 DEF PurgeOriginal
<1>14. ASSUME PurgeThumbnail(p) PROVE TextInv'
  <2>1. PICK s \in {r, [r EXCEPT !.failed = TRUE]} : AfterPurge(p, s)
    BY <1>14 DEF PurgeThumbnail
  <2>2. docs' = docs
    BY <1>14 DEF PurgeThumbnail
  <2>3. \A t : NextUpload(t) \in {"putOrig", "putThumb", "save"}
    BY DEF NextUpload
  <2>4. CASE Finish(p)
    BY <1>2, <2>2, <2>4
  <2>5. CASE ~Finish(p)
    <3> DEFINE l == IF s.op = "recompute" THEN NextUpload(s.todo) ELSE "remove"
    <3>1. Goto(p, l, s)
      BY <2>1, <2>5 DEF AfterPurge
    <3>2. l \notin {"read", "hash", "extract"}
      BY <2>3
    <3> HIDE DEF l
    <3> QED BY <1>11, <2>2, <3>1, <3>2
  <2> QED BY <2>4, <2>5
<1>15. ASSUME RemoveMetadata(p) PROVE TextInv'
  <2>1. \A m \in Memes : docs'[m] \in {docs[m], None}
    BY <1>15 DEF RemoveMetadata, TypeInv, TypeOK
  <2> QED BY <1>2, <1>15, <2>1 DEF RemoveMetadata
<1>16. ASSUME NEW a, Stored(p, a), docs' = docs PROVE TextInv'
  <2> DEFINE todo == r.todo \ {a}
             s == [r EXCEPT !.todo = todo]
  <2>1. /\ Goto(p, NextUpload(todo), s)
        /\ NextUpload(todo) \notin {"read", "hash", "extract"}
    BY <1>16 DEF Stored, NextUpload
  <2>2. s.doc = r.doc /\ s.op = r.op /\ s.opt = r.opt
    BY <1>0 DEF Request
  <2> HIDE DEF s, todo
  <2> QED BY <1>1, <1>16, <2>1, <2>2
<1>17. ASSUME PutOriginal(p) \/ PutThumbnail(p) PROVE TextInv'
  BY <1>16, <1>17 DEF PutOriginal, PutThumbnail
<1>18. ASSUME SaveMetadata(p) PROVE TextInv'
  <2>1. r.doc = None \/ Marked(r.doc)
    BY <1>0 DEF TextOK
  <2>2. \A m \in Memes : docs'[m] \in {docs[m], None} \/ Marked(docs'[m])
    BY <1>18, <2>1 DEF SaveMetadata, TypeInv, TypeOK
  <2> QED BY <1>2, <1>18, <2>2 DEF SaveMetadata
<1>19. ASSUME Abort(p) PROVE TextInv'
  BY <1>2, <1>19 DEF Abort
<1> QED
  BY <1>3, <1>4, <1>5, <1>6, <1>7, <1>8, <1>9, <1>10, <1>12, <1>13, <1>14, <1>15,
     <1>17, <1>18, <1>19 DEF Step

\* The invariants about types and marks are kept together.
LEMMA NextTextInv ==
  ASSUME ExtractsWhatItIncludes
  PROVE  TypeInv /\ TextInv /\ [Next]_vars => (TypeInv /\ TextInv)'
<1> SUFFICES ASSUME TypeInv, TextInv, [Next]_vars PROVE TypeInv' /\ TextInv'
  OBVIOUS
<1>1. CASE Next
  BY <1>1, NextTypeInv, StepTextInv DEF Next
<1>2. CASE UNCHANGED vars
  BY <1>2, NextTypeInv DEF vars, TextInv, ManualTextIsMarkedEdited, Live
<1> QED BY <1>1, <1>2

\* Text a user typed is stored with the flag that protects it, however requests
\* interleave and wherever they fail, when a recompute that includes edited
\* memes also extracts.
THEOREM ManualTextStaysMarked ==
  ASSUME ExtractsWhatItIncludes
  PROVE  Spec => []ManualTextIsMarkedEdited
<1>1. Init => TypeInv /\ TextInv
  BY InitTypeInv, InitTextInv
<1>2. TypeInv /\ TextInv /\ [Next]_vars => (TypeInv /\ TextInv)'
  BY NextTextInv
<1>3. TextInv => ManualTextIsMarkedEdited
  BY DEF TextInv
<1> QED BY <1>1, <1>2, <1>3, PTL DEF Spec
-----------------------------------------------------------------------------
(***************************************************************************)
(* One request at a time.  What a request read is then still in the index  *)
(* when it writes: a create that found no document with the hash of its    *)
(* bytes, an update the hash and the text of the document it changes, a    *)
(* recompute an edited document only if told to include those.  What a     *)
(* recompute hashes is a stored conversion, never an upload.               *)
(***************************************************************************)
Serial == \A p, q \in Procs : p = q

\* The bound on encodings tells an upload from its conversion.
TellsConversions == MaxEncodings >= 1

\* The labels at which a create or a recompute has its document.
Working == {"drop", "purgeOrig", "purgeThumb", "putOrig", "putThumb", "save"}

SerialOK(l, r) ==
  /\ r.op = "create" =>
       /\ docs[r.id] = None
       /\ l # "hash" => \A n \in Live : docs[n].hash # r.data
       /\ l \in Working => r.doc.hash = r.data
  /\ r.op = "update" =>
       /\ r.id \in Live
       /\ r.doc.hash = docs[r.id].hash
       /\ r.doc.edited /\ (docs[r.id].manual => r.doc.manual)
  /\ r.op = "recompute" =>
       /\ r.id \in Live /\ docs[r.id].edited => r.opt.manual
       /\ l \in {"hash", "extract"} => r.data.encodings >= 1
       /\ l \in Working => r.doc.hash.encodings >= 1

OriginalsConverted == \A m \in Memes : orig[m] # None => orig[m].encodings >= 1

SerialInv == /\ StoredOnce
             /\ OriginalsConverted
             /\ \A p \in Procs : SerialOK(pc[p], req[p])

\* Only a save indexes anything.
LEMMA DocsChange ==
  ASSUME TypeInv, NEW p \in Procs, Step(p)
  PROVE  SaveMetadata(p) \/ \A m \in Memes : docs'[m] \in {docs[m], None}
<1>1. CASE \/ \E f \in Files : CreateMeme(p, f)
           \/ \E m \in Memes : MemeNotFound(p, m)
           \/ \E m \in Memes, u \in Updates : UpdateMeme(p, m, u)
           \/ \E m \in Memes, o \in Options : RecomputeMeme(p, m, o)
           \/ \E m \in Memes, op \in Operation : DeleteMeme(p, m, op)
  <2>1. docs' = docs
    BY <1>1 DEF CreateMeme, MemeNotFound, vars, UpdateMeme, RecomputeMeme, DeleteMeme
  <2> QED BY <2>1
<1>2. CASE \/ ReadOriginal(p) \/ CheckDuplicateByHash(p) \/ ExtractMedia(p)
           \/ PurgeOriginal(p) \/ PurgeThumbnail(p) \/ PutOriginal(p)
           \/ PutThumbnail(p) \/ Abort(p)
  <2>1. docs' = docs
    BY <1>2 DEF ReadOriginal, CheckDuplicateByHash, GetDuplicatesByHash, ExtractMedia,
                PurgeOriginal, PurgeThumbnail, PutOriginal, PutThumbnail, Abort
  <2> QED BY <2>1
<1>3. CASE DropDuplicate(p)
  BY <1>3 DEF DropDuplicate, TypeInv, TypeOK
<1>4. CASE RemoveMetadata(p)
  BY <1>4 DEF RemoveMetadata, TypeInv, TypeOK
<1> QED BY <1>1, <1>2, <1>3, <1>4 DEF Step

\* Documents that go leave no two with one hash.
LEMMA StoredOnceShrinks ==
  ASSUME StoredOnce, \A m \in Memes : docs'[m] \in {docs[m], None}
  PROVE  StoredOnce'
BY DEF StoredOnce, Live

\* A conversion has at least one encoding.
LEMMA EncodeConverts ==
  ASSUME TellsConversions, NEW c \in Content
  PROVE  Encode(c).encodings >= 1
BY ConstantsAssumption DEF TellsConversions, Encode, Content

\* The process that moves is the only one.
LEMMA SerialMove ==
  ASSUME Serial, TypeInv, NEW p \in Procs, NEW l, NEW s, Goto(p, l, s),
         SerialOK(l, s), docs' = docs, StoredOnce, OriginalsConverted'
  PROVE  SerialInv'
<1>1. \A q \in Procs : pc'[q] = l /\ req'[q] = s
  BY GotoFrame DEF Serial
<1>2. \A q \in Procs : SerialOK(pc[q], req[q])'
  BY <1>1 DEF SerialOK, Live
<1> QED BY <1>2, StoredOnceShrinks DEF SerialInv

\* When it is done, nothing is left to say of it.
LEMMA SerialFinish ==
  ASSUME Serial, TypeInv, NEW p \in Procs, Finish(p), StoredOnce', OriginalsConverted'
  PROVE  SerialInv'
<1>1. \A q \in Procs : req'[q] = NoRequest
  BY GotoFrame DEF Serial, Finish
<1>2. \A q \in Procs : SerialOK(pc[q], req[q])'
  BY <1>1, ConstantsAssumption DEF SerialOK, NoRequest, Operation
<1> QED BY <1>2 DEF SerialInv

\* Initially there is nothing.
LEMMA InitSerialInv == Init => SerialInv
<1> SUFFICES ASSUME Init PROVE SerialInv
  OBVIOUS
<1>1. StoredOnce /\ OriginalsConverted
  BY DEF Init, StoredOnce, Live, OriginalsConverted
<1>2. \A p \in Procs : SerialOK(pc[p], req[p])
  BY ConstantsAssumption DEF Init, SerialOK, NoRequest, Operation
<1> QED BY <1>1, <1>2 DEF SerialInv

\* A single process keeps what it read true until it writes.
LEMMA StepSerialInv ==
  ASSUME Serial, TellsConversions, TypeInv, SerialInv, NEW p \in Procs, Step(p)
  PROVE  SerialInv'
<1> DEFINE r == req[p]
<1>0. r \in Request /\ LocalOK(pc[p], r) /\ SerialOK(pc[p], r)
  BY DEF TypeInv, TypeOK, SerialInv
<1>a. StoredOnce /\ OriginalsConverted
  BY DEF SerialInv
<1>b. orig' = orig => OriginalsConverted'
  BY <1>a DEF OriginalsConverted
<1>1. ASSUME NEW l, NEW s, Goto(p, l, s), docs' = docs, OriginalsConverted',
             s.op = r.op, s.id = r.id, s.data = r.data, s.doc = r.doc, s.opt = r.opt,
             \/ l = pc[p] \/ {l, pc[p]} \subseteq Working
             \/ {l, pc[p]} \subseteq {"hash", "extract"} /\ r.op = "recompute"
      PROVE  SerialInv'
  <2>1. SerialOK(l, s)
    BY <1>0, <1>1 DEF SerialOK, Working
  <2> QED BY <1>1, <1>a, <2>1, SerialMove
<1>2. ASSUME Finish(p), \A m \in Memes : docs'[m] \in {docs[m], None}, OriginalsConverted'
      PROVE  SerialInv'
  BY <1>2, <1>a, StoredOnceShrinks, SerialFinish
<1>3. ASSUME NEW f \in Files, CreateMeme(p, f) PROVE SerialInv'
  <2>1. PICK m \in Memes : Fresh(m) /\ Goto(p, "hash", [NoRequest EXCEPT
            !.op = "create", !.id = m, !.todo = Artifact,
            !.data = [file |-> f, encodings |-> 0]])
    BY <1>3 DEF CreateMeme
  <2> DEFINE s == [NoRequest EXCEPT
            !.op = "create", !.id = m, !.todo = Artifact,
            !.data = [file |-> f, encodings |-> 0]]
  <2>2. s.op = "create" /\ s.id = m
    BY DEF NoRequest
  <2>3. SerialOK("hash", s)
    <3> HIDE DEF s
    <3> QED BY <2>1, <2>2 DEF SerialOK, Fresh, Working
  <2> QED BY <1>3, <1>a, <1>b, <2>1, <2>3, SerialMove DEF CreateMeme
<1>4. ASSUME NEW m \in Memes, MemeNotFound(p, m) PROVE SerialInv'
  BY <1>4, <1>a DEF MemeNotFound, vars, SerialInv, StoredOnce, OriginalsConverted,
                    SerialOK, Live
<1>5. ASSUME NEW m \in Memes, NEW u \in Updates, UpdateMeme(p, m, u) PROVE SerialInv'
  <2> DEFINE todo == {a \in Artifact : \/ a = "orig" /\ u.orig # None
                                       \/ a = "thumb" /\ u.thumb}
             data == IF u.orig = None THEN None
                     ELSE [file |-> u.orig, encodings |-> 0]
             doc == [docs[m] EXCEPT !.edited = TRUE, !.manual = @ \/ u.text]
             s == [NoRequest EXCEPT !.op = "update", !.id = m, !.todo = todo,
                                    !.data = data, !.doc = doc]
  <2>1. Goto(p, NextUpload(todo), s) /\ docs' = docs /\ orig' = orig /\ m \in Live
    BY <1>5 DEF UpdateMeme
  <2>2. docs[m] \in Doc
    BY <2>1 DEF Live, TypeInv, TypeOK
  <2>3. doc.hash = docs[m].hash /\ doc.edited /\ (docs[m].manual => doc.manual)
    BY <2>2 DEF Doc
  <2> HIDE DEF todo, data, doc
  <2>4. s.op = "update" /\ s.id = m /\ s.doc = doc
    BY DEF NoRequest
  <2> HIDE DEF s
  <2>5. SerialOK(NextUpload(todo), s)
    BY <2>1, <2>3, <2>4 DEF SerialOK
  <2> QED BY <1>a, <1>b, <2>1, <2>5, SerialMove
<1>6. ASSUME NEW m \in Memes, NEW o \in Options, RecomputeMeme(p, m, o) PROVE SerialInv'
  <2> DEFINE s == [NoRequest EXCEPT
                     !.op = "recompute", !.id = m, !.doc = docs[m], !.opt = o,
                     !.todo = IF o.storage THEN Artifact ELSE {}]
  <2>1. /\ Goto(p, "read", s) /\ docs' = docs /\ orig' = orig
        /\ docs[m].edited => o.manual
    BY <1>6 DEF RecomputeMeme
  <2>2. s.op = "recompute" /\ s.id = m /\ s.opt = o
    BY DEF NoRequest
  <2> HIDE DEF s
  <2>3. SerialOK("read", s)
    BY <2>1, <2>2 DEF SerialOK, Working
  <2> QED BY <1>a, <1>b, <2>1, <2>3, SerialMove
<1>7. ASSUME NEW m \in Memes, NEW op \in Operation, DeleteMeme(p, m, op) PROVE SerialInv'
  <2> DEFINE s == [NoRequest EXCEPT !.op = op, !.id = m]
  <2>1. /\ Goto(p, "purgeOrig", s) /\ docs' = docs /\ orig' = orig
        /\ s.op \in {"delete", "wipe"}
    BY <1>7 DEF DeleteMeme, NoRequest
  <2> HIDE DEF s
  <2>2. SerialOK("purgeOrig", s)
    BY <2>1 DEF SerialOK
  <2> QED BY <1>a, <1>b, <2>1, <2>2, SerialMove
<1>8. ASSUME ReadOriginal(p) PROVE SerialInv'
  <2>1. pc[p] = "read" /\ docs' = docs /\ orig' = orig
    BY <1>8 DEF ReadOriginal
  <2>2. CASE orig[r.id] = None
    BY <1>2, <1>8, <1>b, <2>1, <2>2 DEF ReadOriginal
  <2>3. CASE orig[r.id] # None
    <3> DEFINE s == [r EXCEPT !.data = orig[r.id]]
               l == IF r.opt.dedupe THEN "hash" ELSE "extract"
    <3>1. Goto(p, l, s)
      BY <1>8, <2>3 DEF ReadOriginal
    <3>2. s.op = r.op /\ s.id = r.id /\ s.opt = r.opt /\ s.data = orig[r.id]
      BY <1>0 DEF Request
    <3>3. r.op = "recompute" /\ r.id \in Memes /\ l \in {"hash", "extract"}
      BY <1>0, <2>1 DEF LocalOK
    <3> HIDE DEF s, l
    <3>4. SerialOK(l, s)
      BY <1>0, <1>a, <2>3, <3>2, <3>3 DEF SerialOK, OriginalsConverted, Working
    <3> QED BY <1>a, <1>b, <2>1, <3>1, <3>4, SerialMove
  <2> QED BY <2>2, <2>3
<1>9. ASSUME CheckDuplicateByHash(p) PROVE SerialInv'
  <2>1. pc[p] = "hash" /\ docs' = docs /\ orig' = orig
    BY <1>9 DEF CheckDuplicateByHash, GetDuplicatesByHash
  <2>2. ASSUME NEW d, Goto(p, "extract", [r EXCEPT !.dup = d]), r.op # "create"
        PROVE  SerialInv'
    <3> DEFINE s == [r EXCEPT !.dup = d]
    <3>1. /\ s.op = r.op /\ s.id = r.id /\ s.data = r.data /\ s.doc = r.doc
          /\ s.opt = r.opt /\ r.op = "recompute"
      BY <1>0, <2>1, <2>2 DEF Request, LocalOK
    <3> HIDE DEF s
    <3> QED BY <1>1, <1>b, <2>1, <2>2, <3>1 DEF s
  <2>3. ASSUME GetDuplicatesByHash(r.data, r.id) = {}, Goto(p, "extract", r)
        PROVE  SerialInv'
    <3>1. r.op = "create" => \A n \in Live : docs[n].hash # r.data
      BY <1>0, <2>3 DEF SerialOK, GetDuplicatesByHash, Live
    <3>2. SerialOK("extract", r)
      BY <1>0, <2>1, <3>1 DEF SerialOK, LocalOK, Working
    <3> QED BY <1>a, <1>b, <2>1, <2>3, <3>2, SerialMove
  <2> QED BY <1>2, <1>9, <1>b, <2>1, <2>2, <2>3 DEF CheckDuplicateByHash, FoundDuplicate
<1>10. ASSUME ExtractMedia(p) PROVE SerialInv'
  <2>1. pc[p] = "extract" /\ docs' = docs /\ orig' = orig
    BY <1>10 DEF ExtractMedia
  <2>2. r.op \in {"create", "recompute"}
    BY <1>0, <2>1 DEF LocalOK
  <2>3. Finish(p) \/ \E d : Goto(p, IF d = None THEN NextUpload(r.todo) ELSE "drop",
                                 [r EXCEPT !.dup = d, !.doc = Extracted(r)])
    BY <1>10 DEF ExtractMedia
  <2>4. CASE Finish(p)
    BY <1>2, <1>b, <2>1, <2>4
  <2>5. CASE ~Finish(p)
    <3>1. PICK d : Goto(p, IF d = None THEN NextUpload(r.todo) ELSE "drop",
                        [r EXCEPT !.dup = d, !.doc = Extracted(r)])
      BY <2>3, <2>5
    <3> DEFINE l == IF d = None THEN NextUpload(r.todo) ELSE "drop"
               s == [r EXCEPT !.dup = d, !.doc = Extracted(r)]
    <3>2. /\ s.op = r.op /\ s.id = r.id /\ s.data = r.data /\ s.opt = r.opt
          /\ s.doc.hash = r.data
      BY <1>0 DEF Request, Extracted
    <3>3. l \in Working /\ l \notin {"hash", "extract"}
      BY DEF NextUpload, Working
    <3> HIDE DEF s, l
    <3>4. SerialOK(l, s)
      BY <1>0, <2>1, <2>2, <3>2, <3>3 DEF SerialOK
    <3> QED BY <1>a, <1>b, <2>1, <3>1, <3>4, SerialMove DEF s, l
  <2> QED BY <2>4, <2>5
<1>11. ASSUME NEW s \in {r, [r EXCEPT !.failed = TRUE]}
       PROVE  /\ s.op = r.op /\ s.id = r.id /\ s.data = r.data /\ s.doc = r.doc
              /\ s.opt = r.opt /\ s.todo = r.todo
  BY <1>0 DEF Request
<1>12. ASSUME DropDuplicate(p) PROVE SerialInv'
  <2>1. /\ pc[p] = "drop" /\ orig' = orig
        /\ \A m \in Memes : docs'[m] \in {docs[m], None}
    BY <1>12 DEF DropDuplicate, TypeInv, TypeOK
  <2>2. PICK s \in {r, [r EXCEPT !.failed = TRUE]} : Goto(p, "purgeOrig", s)
    BY <1>12 DEF DropDuplicate
  <2>3. r.op = "recompute" /\ r.id \in Memes
    BY <1>0, <2>1 DEF LocalOK
  <2>4. \A q \in Procs : pc'[q] = "purgeOrig" /\ req'[q] = s
    BY <2>2, GotoFrame DEF Serial
  <2>5. ASSUME NEW q \in Procs PROVE SerialOK(pc[q], req[q])'
    <3>1. /\ s.op = "recompute" /\ s.id = r.id /\ s.opt = r.opt
          /\ s.doc.hash.encodings >= 1
      BY <1>0, <1>11, <2>1, <2>3 DEF SerialOK, Working
    <3>2. s.id \in Live' /\ docs'[s.id].edited => s.opt.manual
      BY <1>0, <2>1, <2>3, <3>1 DEF SerialOK, Live
    <3> HIDE DEF r
    <3> QED BY <2>4, <3>1, <3>2 DEF SerialOK
  <2> QED BY <1>a, <1>b, <2>1, <2>5, StoredOnceShrinks DEF SerialInv
<1>13. ASSUME PurgeOriginal(p) PROVE SerialInv'
  <2>1. pc[p] = "purgeOrig" /\ docs' = docs /\ \A m \in Memes : orig'[m] \in {orig[m], None}
    BY <1>13 DEF PurgeOriginal, TypeInv, TypeOK
  <2>2. PICK s \in {r, [r EXCEPT !.failed = TRUE]} : Goto(p, "purgeThumb", s)
    BY <1>13 DEF PurgeOriginal
  <2>3. OriginalsConverted'
    BY <1>a, <2>1 DEF OriginalsConverted
  <2> QED BY <1>1, <1>11, <2>1, <2>2, <2>3 DEF Working
<1>14. ASSUME PurgeThumbnail(p) PROVE SerialInv'
  <2>1. PICK s \in {r, [r EXCEPT !.failed = TRUE]} : AfterPurge(p, s)
    BY <1>14 DEF PurgeThumbnail
  <2>2. docs' = docs /\ orig' = orig /\ pc[p] = "purgeThumb"
    BY <1>14 DEF PurgeThumbnail
  <2>3. CASE Finish(p)
    BY <1>2, <1>b, <2>2, <2>3
  <2>4. CASE Goto(p, NextUpload(s.todo), s)
    <3>1. NextUpload(s.todo) \in Working
      BY DEF NextUpload, Working
    <3> QED BY <1>1, <1>11, <1>b, <2>2, <2>4, <3>1 DEF Working
  <2>5. CASE Goto(p, "remove", s) /\ r.op # "recompute"
    <3>1. r.op \in {"delete", "wipe"}
      BY <1>0, <2>2, <2>5 DEF LocalOK
    <3>2. SerialOK("remove", s)
      BY <1>11, <3>1 DEF SerialOK
    <3> QED BY <1>a, <1>b, <2>2, <2>5, <3>2, SerialMove
  <2> QED BY <1>11, <2>1, <2>3, <2>4, <2>5 DEF AfterPurge
<1>15. ASSUME RemoveMetadata(p) PROVE SerialInv'
  <2>1. \A m \in Memes : docs'[m] \in {docs[m], None}
    BY <1>15 DEF RemoveMetadata, TypeInv, TypeOK
  <2> QED BY <1>2, <1>15, <1>b, <2>1 DEF RemoveMetadata
<1>16. ASSUME NEW a, Stored(p, a), docs' = docs, OriginalsConverted',
              pc[p] \in {"putOrig", "putThumb"}
       PROVE  SerialInv'
  <2> DEFINE todo == r.todo \ {a}
             s == [r EXCEPT !.todo = todo]
  <2>1. Goto(p, NextUpload(todo), s) /\ NextUpload(todo) \in Working
    BY <1>16 DEF Stored, NextUpload, Working
  <2>2. s.op = r.op /\ s.id = r.id /\ s.data = r.data /\ s.doc = r.doc /\ s.opt = r.opt
    BY <1>0 DEF Request
  <2> HIDE DEF s, todo
  <2> QED BY <1>1, <1>16, <2>1, <2>2 DEF Working
<1>17. ASSUME PutOriginal(p) PROVE SerialInv'
  <2>1. /\ pc[p] = "putOrig" /\ docs' = docs /\ Stored(p, "orig")
        /\ orig' = [orig EXCEPT ![r.id] = Encode(r.data)]
    BY <1>17 DEF PutOriginal
  <2>2. r.data \in Content /\ r.id \in Memes
    BY <1>0, <2>1 DEF LocalOK
  <2>3. Encode(r.data).encodings >= 1
    BY <2>2, EncodeConverts
  <2>4. \A m \in Memes : orig'[m] = orig[m] \/ orig'[m].encodings >= 1
    BY <2>1, <2>2, <2>3 DEF TypeInv, TypeOK
  <2>5. OriginalsConverted'
    BY <1>a, <2>4 DEF OriginalsConverted
  <2> QED BY <1>16, <2>1, <2>5
<1>18. ASSUME PutThumbnail(p) PROVE SerialInv'
  BY <1>16, <1>18, <1>b DEF PutThumbnail
<1>19. ASSUME SaveMetadata(p) PROVE SerialInv'
  <2>1. /\ pc[p] = "save" /\ Finish(p) /\ orig' = orig
        /\ docs' = [docs EXCEPT ![r.id] = r.doc]
    BY <1>19 DEF SaveMetadata
  <2>2. r.op \in {"create", "update", "recompute"} /\ r.id \in Memes
    BY <1>0, <2>1 DEF LocalOK
  <2>3. docs'[r.id] = r.doc /\ \A m \in Memes \ {r.id} : docs'[m] = docs[m]
    BY <2>1, <2>2 DEF TypeInv, TypeOK
  <2>4. ASSUME NEW n \in Live \ {r.id}, docs[n].hash = r.doc.hash, r.doc.hash.encodings = 0
        PROVE  FALSE
    <3>1. CASE r.op = "create"
      BY <1>0, <2>1, <2>4, <3>1 DEF SerialOK, Working
    <3>2. CASE r.op = "update"
      BY <1>0, <1>a, <2>1, <2>4, <3>2 DEF SerialOK, StoredOnce
    <3>3. CASE r.op = "recompute"
      BY <1>0, <2>1, <2>4, <3>3 DEF SerialOK, Working
    <3> QED BY <2>2, <3>1, <3>2, <3>3
  <2>5. StoredOnce'
    <3> SUFFICES ASSUME NEW m \in Live', NEW n \in Live', docs'[m].hash = docs'[n].hash,
                        docs'[m].hash.encodings = 0, m # n
                 PROVE  FALSE
      BY DEF StoredOnce
    <3>1. m \in Memes /\ n \in Memes
      BY DEF Live
    <3>2. CASE m = r.id
      <4>1. n \in Live \ {r.id} /\ docs'[n] = docs[n]
        BY <2>3, <3>1, <3>2 DEF Live
      <4> QED BY <2>3, <2>4, <3>2, <4>1
    <3>3. CASE n = r.id
      <4>1. m \in Live \ {r.id} /\ docs'[m] = docs[m]
        BY <2>3, <3>1, <3>3 DEF Live
      <4> QED BY <2>3, <2>4, <3>3, <4>1
    <3>4. CASE m # r.id /\ n # r.id
      BY <1>a, <2>3, <3>1, <3>4 DEF StoredOnce, Live
    <3> QED BY <3>2, <3>3, <3>4
  <2> QED BY <1>b, <2>1, <2>5, SerialFinish
<1>20. ASSUME Abort(p) PROVE SerialInv'
  BY <1>2, <1>20, <1>b DEF Abort
<1> QED
  BY <1>3, <1>4, <1>5, <1>6, <1>7, <1>8, <1>9, <1>10, <1>12, <1>13, <1>14, <1>15,
     <1>17, <1>18, <1>19, <1>20 DEF Step

SerialTypeInv == TypeInv /\ SerialInv

\* All that holds of requests that do not overlap.
LEMMA SerialInvariant ==
  ASSUME Serial, TellsConversions
  PROVE  Spec => []SerialTypeInv
<1>1. Init => SerialTypeInv
  BY InitTypeInv, InitSerialInv DEF SerialTypeInv
<1>2. SerialTypeInv /\ [Next]_vars => SerialTypeInv'
  <2> SUFFICES ASSUME SerialTypeInv, [Next]_vars PROVE SerialTypeInv'
    OBVIOUS
  <2>1. TypeInv /\ SerialInv
    BY DEF SerialTypeInv
  <2>2. TypeInv'
    BY <2>1, NextTypeInv
  <2>3. CASE Next
    BY <2>1, <2>2, <2>3, StepSerialInv DEF Next, SerialTypeInv
  <2>4. CASE UNCHANGED vars
    BY <2>1, <2>2, <2>4 DEF vars, SerialTypeInv, SerialInv, StoredOnce, OriginalsConverted,
                            SerialOK, Live
  <2> QED BY <2>3, <2>4
<1> QED BY <1>1, <1>2, PTL DEF Spec

\* When requests do not overlap, no two documents carry the hash of one upload,
\* whatever fails: the check at CheckDuplicateByHash and the save that follows
\* are far apart, and only the absence of other requests connects them.
THEOREM SerialUploadsStoredOnce ==
  ASSUME Serial, TellsConversions
  PROVE  Spec => []StoredOnce
<1>1. SerialTypeInv => StoredOnce
  BY DEF SerialTypeInv, SerialInv
<1> QED BY <1>1, SerialInvariant, PTL

\* When requests do not overlap, what a user edited keeps its flag and its text until a
\* recompute told to include edited memes handles it, whatever that recompute computes.
THEOREM SerialManualTextSurvives ==
  ASSUME Serial, TellsConversions
  PROVE  Spec => ManualTextSurvives
<1> DEFINE Told(m) == \E p \in Procs : /\ req[p].op = "recompute" /\ req[p].id = m
                                       /\ req[p].opt.manual
           Survives == \A m \in Live :
                         docs[m].edited /\ docs'[m] # None
                           => \/ docs'[m].edited /\ (docs[m].manual => docs'[m].manual)
                              \/ Told(m)
<1>1. SerialTypeInv /\ [Next]_vars => [Survives]_vars
  <2> SUFFICES ASSUME SerialTypeInv, NEW p \in Procs, Step(p), NEW m \in Live,
                      docs[m].edited, docs'[m] # None,
                      ~(docs'[m].edited /\ (docs[m].manual => docs'[m].manual))
               PROVE  Told(m)
    BY DEF Next
  <2> DEFINE r == req[p]
  <2>1. TypeInv /\ LocalOK(pc[p], r) /\ SerialOK(pc[p], r) /\ m \in Memes /\ docs[m] # None
    BY DEF SerialTypeInv, SerialInv, TypeInv, Live
  <2>2. SaveMetadata(p)
    BY <2>1, DocsChange
  <2>3. r.op \in {"create", "update", "recompute"} /\ r.id = m /\ docs'[m] = r.doc
    BY <2>1, <2>2 DEF SaveMetadata, LocalOK, TypeInv, TypeOK
  <2>4. r.op = "recompute" /\ r.opt.manual
    BY <2>1, <2>3 DEF SerialOK
  <2> QED BY <2>3, <2>4
<1> QED BY <1>1, SerialInvariant, PTL DEF ManualTextSurvives, Spec
-----------------------------------------------------------------------------
(***************************************************************************)
(* Agreement of the stores.  Nothing fails, and requests create and delete *)
(* only.  What one store holds and another does not is then the unfinished *)
(* work of a request in progress: a create's under an id of its own, a     *)
(* deletion's under an id no save will ever bring back.                    *)
(***************************************************************************)
CreatesAndDeletesOnly == ~Faults /\ Ops \subseteq {"create", "delete", "wipe"}

Nothing(m) == docs[m] = None /\ orig[m] = None /\ m \notin thumbs
Whole(m) == docs[m] # None /\ HasBlobs(m)

AgreeOK(l, r) ==
  /\ r.op \in {None, "create", "delete", "wipe"} /\ r.failed = FALSE
  /\ r.op = "create" =>
       /\ r.id \notin doomed /\ docs[r.id] = None
       /\ l \in {"hash", "extract", "putOrig"} => Nothing(r.id) /\ r.todo = Artifact
       /\ l = "putThumb" => orig[r.id] # None /\ r.todo = {"thumb"}
       /\ l = "save" => HasBlobs(r.id)
       /\ l \in {"putOrig", "putThumb", "save"} => r.doc # None
  /\ r.op \in {"delete", "wipe"} =>
       /\ r.id \in doomed
       /\ l \in {"purgeThumb", "remove"} => orig[r.id] = None
       /\ l = "remove" => r.id \notin thumbs

Creates(p, m) == req[p].op = "create" /\ req[p].id = m
Deletes(p, m, labels) ==
  req[p].op \in {"delete", "wipe"} /\ req[p].id = m /\ pc[p] \in labels

\* Why a meme may be in one store and not in another.
MemeOK(m) ==
  /\ m \notin doomed => (\E p \in Procs : Creates(p, m)) \/ Whole(m) \/ Nothing(m)
  /\ m \in doomed =>
       /\ docs[m] # None =>
            \E p \in Procs : Deletes(p, m, {"purgeOrig", "purgeThumb", "remove"})
       /\ orig[m] # None => \E p \in Procs : Deletes(p, m, {"purgeOrig"})
       /\ m \in thumbs => \E p \in Procs : Deletes(p, m, {"purgeOrig", "purgeThumb"})

AgreeInv == /\ PrivateIds
            /\ \A p \in Procs : AgreeOK(pc[p], req[p])
            /\ \A m \in Memes : MemeOK(m)

\* A request that goes on, or ends, concerns its own meme only.
LEMMA AgreeWork ==
  ASSUME TypeInv, AgreeInv, NEW p \in Procs, NEW l, NEW s, Goto(p, l, s),
         pc[p] # "idle", NEW i \in Memes, req[p].id = i,
         \/ s.op = req[p].op /\ s.id = req[p].id
         \/ s = NoRequest,
         \A m \in Memes \ {i} :
           docs'[m] = docs[m] /\ orig'[m] = orig[m] /\ (m \in thumbs' <=> m \in thumbs),
         doomed' = doomed,
         req[p].op # "create" => /\ orig'[i] \in {orig[i], None}
                                 /\ thumbs' \subseteq thumbs,
         AgreeOK(pc[p], req[p])', MemeOK(i)'
  PROVE  AgreeInv'
<1>1. PrivateIds'
  BY KeepsPrivateIds DEF AgreeInv
<1>2. /\ pc'[p] = l /\ req'[p] = s
      /\ \A q \in Procs \ {p} : pc'[q] = pc[q] /\ req'[q] = req[q]
  BY GotoFrame DEF TypeInv, LocalOK
<1>3. ASSUME NEW q \in Procs PROVE AgreeOK(pc[q], req[q])'
  <2>1. CASE q = p
    BY <2>1
  <2>2. CASE q # p
    <3>1. AgreeOK(pc[q], req[q]) /\ pc'[q] = pc[q] /\ req'[q] = req[q]
      BY <1>2, <2>2 DEF AgreeInv
    <3>2. req[q].op # None => req[q].id \in Memes
      BY DEF TypeInv, LocalOK, NoRequest
    <3>3. req[q].op = "create" \/ req[p].op = "create" => req[q].id # i
      BY <2>2 DEF AgreeInv, PrivateIds
    <3>4. CASE req[q].op = "create"
      <4>1. req[q].id \in Memes \ {i}
        BY <3>2, <3>3, <3>4, ConstantsAssumption DEF Operation
      <4> QED BY <3>1, <3>4, <4>1 DEF AgreeOK, Nothing, HasBlobs
    <3>5. CASE req[q].op # "create"
      <4>1. CASE req[q].id = i
        BY <3>1, <3>3, <3>5, <4>1 DEF AgreeOK
      <4>2. CASE req[q].id # i
        <5>1. req[q].op \in {"delete", "wipe"} => req[q].id \in Memes \ {i}
          BY <3>2, <4>2, ConstantsAssumption DEF Operation
        <5> QED BY <3>1, <3>5, <5>1 DEF AgreeOK
      <4> QED BY <4>1, <4>2
    <3> QED BY <3>4, <3>5
  <2> QED BY <2>1, <2>2
<1>4. ASSUME NEW m \in Memes PROVE MemeOK(m)'
  <2>1. CASE m = i
    BY <2>1
  <2>2. CASE m # i
    <3>1. /\ MemeOK(m) /\ docs'[m] = docs[m] /\ orig'[m] = orig[m]
          /\ m \in thumbs' <=> m \in thumbs
      BY <2>2 DEF AgreeInv
    <3>2. ASSUME NEW q \in Procs, req[q].id = m
          PROVE  req'[q] = req[q] /\ pc'[q] = pc[q]
      BY <1>2, <2>2, <3>2
    <3>3. /\ Nothing(m) => Nothing(m)'
          /\ Whole(m) => Whole(m)'
      BY <3>1 DEF Nothing, Whole, HasBlobs
    <3>4. \A q \in Procs : Creates(q, m) => Creates(q, m)'
      BY <3>2 DEF Creates
    <3>5. \A labels : \A q \in Procs : Deletes(q, m, labels) => Deletes(q, m, labels)'
      BY <3>2 DEF Deletes
    <3> QED BY <3>1, <3>3, <3>4, <3>5 DEF MemeOK
  <2> QED BY <2>1, <2>2
<1> QED BY <1>1, <1>3, <1>4 DEF AgreeInv

\* Nobody works initially, and nothing is stored.
LEMMA InitAgreeInv == Init => AgreeInv
<1> SUFFICES ASSUME Init PROVE AgreeInv
  OBVIOUS
<1>1. \A p \in Procs : req[p].op = None /\ req[p].failed = FALSE
  BY DEF Init, NoRequest
<1>2. None \notin {"create", "delete", "wipe"}
  BY ConstantsAssumption DEF Operation
<1>3. PrivateIds
  BY <1>1, <1>2 DEF PrivateIds
<1>4. \A p \in Procs : AgreeOK(pc[p], req[p])
  BY <1>1, <1>2 DEF AgreeOK
<1>5. \A m \in Memes : MemeOK(m)
  BY DEF Init, MemeOK, Nothing
<1> QED BY <1>3, <1>4, <1>5 DEF AgreeInv

\* Each step leaves the stores apart only where a request still has work to do.
LEMMA StepAgreeInv ==
  ASSUME CreatesAndDeletesOnly, TypeInv, AgreeInv, NEW p \in Procs, Step(p)
  PROVE  AgreeInv'
<1> DEFINE r == req[p]
<1>0. /\ r \in Request /\ LocalOK(pc[p], r) /\ AgreeOK(pc[p], r)
      /\ pc[p] # "idle" => r.id \in Memes /\ MemeOK(r.id) /\ r.op # None
  BY DEF TypeInv, TypeOK, AgreeInv, LocalOK
<1> PICK i : i = r.id
  OBVIOUS
<1>a. /\ None \notin {"create", "delete", "wipe"}
      /\ NoRequest.op = None /\ NoRequest.id = None /\ NoRequest.failed = FALSE
      /\ None \notin Memes
  BY ConstantsAssumption DEF Operation, NoRequest
<1>b. AgreeOK("idle", NoRequest)'
  BY <1>a DEF AgreeOK
<1>1. ASSUME NEW m \in Memes, NEW s, NEW l, Goto(p, l, s), pc[p] = "idle", s.id = m,
             docs' = docs, orig' = orig, thumbs' = thumbs,
             \A n \in Memes \ {m} : n \in doomed' <=> n \in doomed,
             \A q \in Procs \ {p} : /\ req[q].op = "create" => req[q].id # m
                                    /\ s.op = "create" => req[q].id # m
                                    /\ m \in doomed => m \in doomed',
             AgreeOK(l, s)', MemeOK(m)'
      PROVE  AgreeInv'
  <2>1. /\ r = NoRequest /\ pc'[p] = l /\ req'[p] = s
        /\ \A q \in Procs \ {p} : pc'[q] = pc[q] /\ req'[q] = req[q]
    BY <1>0, <1>1, GotoFrame DEF LocalOK
  <2>2. PrivateIds'
    BY <1>1, <2>1 DEF AgreeInv, PrivateIds
  <2>3. ASSUME NEW q \in Procs PROVE AgreeOK(pc[q], req[q])'
    <3>1. CASE q = p
      BY <1>1, <2>1, <3>1 DEF AgreeOK, Nothing, HasBlobs
    <3>2. CASE q # p
      <4>1. AgreeOK(pc[q], req[q]) /\ pc'[q] = pc[q] /\ req'[q] = req[q]
        BY <2>1, <3>2 DEF AgreeInv
      <4>2. req[q].op # None => req[q].id \in Memes
        BY DEF TypeInv, LocalOK, NoRequest
      <4>3. req[q].op = "create" => req[q].id \in Memes \ {m}
        BY <1>1, <1>a, <3>2, <4>2
      <4>4. req[q].op \in {"delete", "wipe"} /\ req[q].id \in doomed
              => req[q].id \in doomed'
        BY <1>1, <1>a, <3>2, <4>2
      <4> QED BY <1>1, <4>1, <4>3, <4>4 DEF AgreeOK, Nothing, HasBlobs
    <3> QED BY <3>1, <3>2
  <2>4. ASSUME NEW n \in Memes PROVE MemeOK(n)'
    <3>1. CASE n = m
      BY <1>1, <3>1
    <3>2. CASE n # m
      <4>1. MemeOK(n) /\ (n \in doomed' <=> n \in doomed)
        BY <1>1, <3>2 DEF AgreeInv
      <4>2. /\ \A q \in Procs : Creates(q, n) => Creates(q, n)'
            /\ \A labels : \A q \in Procs : Deletes(q, n, labels) => Deletes(q, n, labels)'
        BY <1>a, <2>1 DEF Creates, Deletes
      <4>3. /\ Nothing(n) => Nothing(n)'
            /\ Whole(n) => Whole(n)'
        BY <1>1 DEF Nothing, Whole, HasBlobs
      <4> QED BY <1>1, <4>1, <4>2, <4>3 DEF MemeOK
    <3> QED BY <3>1, <3>2
  <2> QED BY <2>2, <2>3, <2>4 DEF AgreeInv
<1>2. ASSUME NEW f \in Files, CreateMeme(p, f) PROVE AgreeInv'
  <2>1. PICK m \in Memes : Fresh(m) /\ Goto(p, "hash", [NoRequest EXCEPT
            !.op = "create", !.id = m, !.todo = Artifact,
            !.data = [file |-> f, encodings |-> 0]])
    BY <1>2 DEF CreateMeme
  <2> DEFINE s == [NoRequest EXCEPT
            !.op = "create", !.id = m, !.todo = Artifact,
            !.data = [file |-> f, encodings |-> 0]]
  <2>2. s.op = "create" /\ s.id = m /\ s.todo = Artifact /\ s.failed = FALSE
    BY DEF NoRequest
  <2>3. pc[p] = "idle" /\ UNCHANGED <<docs, orig, thumbs, doomed>>
    BY <1>2 DEF CreateMeme
  <2> HIDE DEF s
  <2>4. Goto(p, "hash", s) /\ Fresh(m)
    BY <2>1 DEF s
  <2>5. AgreeOK("hash", s)'
    BY <2>2, <2>3, <2>4 DEF AgreeOK, Fresh, Nothing
  <2>6. MemeOK(m)'
    <3>1. req'[p] = s
      BY <2>4, GotoFrame
    <3>2. Creates(p, m)'
      BY <2>2, <3>1 DEF Creates
    <3> QED BY <2>3, <2>4, <3>2 DEF MemeOK, Fresh
  <2> QED BY <1>1, <2>2, <2>3, <2>4, <2>5, <2>6 DEF Fresh
<1>3. ASSUME NEW m \in Memes, NEW op \in Operation, DeleteMeme(p, m, op) PROVE AgreeInv'
  <2> DEFINE s == [NoRequest EXCEPT !.op = op, !.id = m]
  <2>1. /\ Goto(p, "purgeOrig", s) /\ m \in Live /\ pc[p] = "idle"
        /\ s.op \in {"delete", "wipe"} /\ s.id = m /\ s.failed = FALSE
        /\ doomed' = doomed \cup {m} /\ UNCHANGED <<docs, orig, thumbs>>
    BY <1>3 DEF DeleteMeme, NoRequest
  <2> HIDE DEF s
  <2>2. \A q \in Procs : req[q].op = "create" => req[q].id # m
    BY <2>1 DEF AgreeInv, AgreeOK, Live
  <2>3. AgreeOK("purgeOrig", s)'
    BY <2>1 DEF AgreeOK
  <2>4. MemeOK(m)'
    <3>1. req'[p] = s /\ pc'[p] = "purgeOrig"
      BY <2>1, GotoFrame
    <3>2. \A labels : "purgeOrig" \in labels => Deletes(p, m, labels)'
      BY <2>1, <3>1 DEF Deletes
    <3> QED BY <2>1, <3>2 DEF MemeOK
  <2> QED BY <1>1, <2>1, <2>2, <2>3, <2>4
\* A create ends without having stored anything.
<1>4. ASSUME r.op = "create", pc[p] \in {"hash", "extract"}, Finish(p),
             UNCHANGED <<docs, orig, thumbs, doomed>>
      PROVE  AgreeInv'
  <2>1. Nothing(r.id) /\ r.id \notin doomed
    BY <1>0, <1>4 DEF AgreeOK
  <2>2. MemeOK(i)'
    BY <1>4, <2>1 DEF MemeOK, Nothing
  <2>3. Goto(p, "idle", NoRequest) /\ pc'[p] = "idle" /\ req'[p] = NoRequest
    BY <1>4, GotoFrame DEF Finish
  <2>4. AgreeOK(pc[p], req[p])'
    BY <1>b, <2>3 DEF AgreeOK
  <2> QED BY <1>0, <1>4, <2>2, <2>3, <2>4, AgreeWork
\* A create goes on.
<1>5. ASSUME r.op = "create", pc[p] # "idle", NEW l, NEW s, Goto(p, l, s),
             s.op = r.op, s.id = r.id, AgreeOK(l, s)', docs' = docs, doomed' = doomed,
             \A m \in Memes \ {r.id} :
               orig'[m] = orig[m] /\ (m \in thumbs' <=> m \in thumbs)
      PROVE  AgreeInv'
  <2>1. r.id \notin doomed /\ pc'[p] = l /\ req'[p] = s
    BY <1>0, <1>5, GotoFrame DEF AgreeOK
  <2>2. Creates(p, i)'
    <3>1. req'[p].op = "create" /\ req'[p].id = r.id
      BY <1>5, <2>1
    <3> QED BY <3>1 DEF Creates
  <2>3. MemeOK(i)'
    BY <1>5, <2>1, <2>2 DEF MemeOK
  <2>4. AgreeOK(pc[p], req[p])'
    BY <1>5, <2>1 DEF AgreeOK, Nothing, HasBlobs
  <2> QED BY <1>0, <1>5, <2>3, <2>4, AgreeWork
<1>6. ASSUME CheckDuplicateByHash(p) PROVE AgreeInv'
  <2>1. pc[p] = "hash" /\ UNCHANGED <<docs, orig, thumbs, doomed>>
    BY <1>6 DEF CheckDuplicateByHash, GetDuplicatesByHash
  <2>2. r.op = "create"
    BY <1>0, <1>a, <2>1, ConstantsAssumption DEF LocalOK, AgreeOK, Operation
  <2>3. Finish(p) \/ Goto(p, "extract", r)
    BY <1>6, <2>2 DEF CheckDuplicateByHash, GetDuplicatesByHash, FoundDuplicate
  <2>4. AgreeOK("extract", r)
    BY <1>0, <2>1, <2>2 DEF AgreeOK
  <2>5. ASSUME Goto(p, "extract", r) PROVE AgreeInv'
    <3>1. PICK z : z = r
      OBVIOUS
    <3>2. AgreeOK("extract", z)'
      BY <2>1, <2>4, <3>1 DEF AgreeOK, Nothing, HasBlobs
    <3> QED BY <1>5, <2>1, <2>2, <2>5, <3>1, <3>2
  <2> QED BY <1>4, <2>1, <2>2, <2>3, <2>5
<1>7. ASSUME ExtractMedia(p) PROVE AgreeInv'
  <2>1. pc[p] = "extract" /\ UNCHANGED <<docs, orig, thumbs, doomed>>
    BY <1>7 DEF ExtractMedia
  <2>2. r.op = "create" /\ r.dup = None /\ r.data \in Content
    BY <1>0, <1>a, <2>1, ConstantsAssumption DEF LocalOK, AgreeOK, Operation
  <2>3. Extracted(r) # None
    <3>1. Extracted(r) \in Doc
      BY <2>2 DEF Extracted, Doc
    <3> QED BY <3>1, NoneIsNoDoc
  <2>4. Finish(p) \/ Goto(p, NextUpload(r.todo),
                          [r EXCEPT !.dup = None, !.doc = Extracted(r)])
    BY <1>7, <2>2 DEF ExtractMedia
  <2>5. ASSUME Goto(p, NextUpload(r.todo), [r EXCEPT !.dup = None, !.doc = Extracted(r)])
        PROVE  AgreeInv'
    <3>1. NextUpload(r.todo) = "putOrig"
      BY <1>0, <2>1, <2>2 DEF AgreeOK, NextUpload, Artifact
    <3>2. PICK s : s = [r EXCEPT !.dup = None, !.doc = Extracted(r)]
      OBVIOUS
    <3>3. /\ s.op = r.op /\ s.id = r.id /\ s.todo = r.todo /\ s.failed = r.failed
          /\ s.doc # None
      BY <1>0, <2>3, <3>2 DEF Request
    <3>4. AgreeOK("putOrig", s)
      BY <1>0, <2>1, <2>2, <3>3 DEF AgreeOK
    <3>5. AgreeOK("putOrig", s)'
      BY <2>1, <3>4 DEF AgreeOK, Nothing, HasBlobs
    <3> QED BY <1>5, <2>1, <2>2, <2>5, <3>1, <3>2, <3>3, <3>5
  <2> QED BY <1>4, <2>1, <2>2, <2>4, <2>5
<1>8. ASSUME PutOriginal(p) PROVE AgreeInv'
  <2>1. /\ pc[p] = "putOrig" /\ UNCHANGED <<docs, thumbs, doomed>>
        /\ orig' = [orig EXCEPT ![r.id] = Encode(r.data)] /\ Stored(p, "orig")
    BY <1>8 DEF PutOriginal
  <2>2. r.op = "create" /\ r.todo = Artifact /\ Encode(r.data) \in Content
    BY <1>0, <1>a, <2>1, EncodeType, ConstantsAssumption DEF LocalOK, AgreeOK, Operation
  <2>3. orig'[r.id] # None /\ \A m \in Memes \ {r.id} : orig'[m] = orig[m]
    BY <1>0, <2>1, <2>2, ConstantsAssumption DEF TypeInv, TypeOK
  <2>4. r.todo \ {"orig"} = {"thumb"}
    BY <2>2 DEF Artifact
  <2>5. NextUpload({"thumb"}) = "putThumb"
    BY DEF NextUpload
  <2>6. PICK s : s = [r EXCEPT !.todo = {"thumb"}]
    OBVIOUS
  <2>7. /\ s.op = r.op /\ s.id = r.id /\ s.todo = {"thumb"} /\ s.failed = r.failed
        /\ s.doc = r.doc
    BY <1>0, <2>6 DEF Request
  <2>8. Goto(p, "putThumb", s)
    BY <2>1, <2>4, <2>5, <2>6 DEF Stored
  <2>9. AgreeOK("putThumb", s)'
    BY <1>0, <2>1, <2>2, <2>3, <2>7 DEF AgreeOK
  <2> QED BY <1>5, <2>1, <2>2, <2>3, <2>7, <2>8, <2>9
<1>9. ASSUME PutThumbnail(p) PROVE AgreeInv'
  <2>1. /\ pc[p] = "putThumb" /\ UNCHANGED <<docs, orig, doomed>>
        /\ thumbs' = thumbs \cup {r.id} /\ Stored(p, "thumb")
    BY <1>9 DEF PutThumbnail
  <2>2. r.op = "create" /\ r.todo = {"thumb"}
    BY <1>0, <1>a, <2>1, ConstantsAssumption DEF LocalOK, AgreeOK, Operation
  <2>3. r.todo \ {"thumb"} = {} /\ NextUpload({}) = "save"
    BY <2>2 DEF NextUpload
  <2>4. PICK s : s = [r EXCEPT !.todo = {}]
    OBVIOUS
  <2>5. s.op = r.op /\ s.id = r.id /\ s.failed = r.failed /\ s.doc = r.doc
    BY <1>0, <2>4 DEF Request
  <2>6. Goto(p, "save", s)
    BY <2>1, <2>3, <2>4 DEF Stored
  <2>7. AgreeOK("save", s)'
    BY <1>0, <2>1, <2>2, <2>5 DEF AgreeOK, HasBlobs
  <2> QED BY <1>5, <2>1, <2>2, <2>5, <2>6, <2>7
<1>10. ASSUME SaveMetadata(p) PROVE AgreeInv'
  <2>1. /\ pc[p] = "save" /\ UNCHANGED <<orig, thumbs, doomed>>
        /\ docs' = [docs EXCEPT ![r.id] = r.doc] /\ Goto(p, "idle", NoRequest)
    BY <1>10 DEF SaveMetadata, Finish
  <2>2. r.op = "create" /\ r.doc # None /\ HasBlobs(r.id) /\ r.id \notin doomed
    BY <1>0, <1>a, <2>1, ConstantsAssumption DEF LocalOK, AgreeOK, Operation
  <2>3. docs'[r.id] = r.doc /\ \A m \in Memes \ {r.id} : docs'[m] = docs[m]
    BY <1>0, <2>1 DEF TypeInv, TypeOK
  <2>4. Whole(i)'
    BY <2>1, <2>2, <2>3 DEF Whole, HasBlobs
  <2>5. MemeOK(i)'
    BY <2>1, <2>2, <2>4 DEF MemeOK
  <2>6. AgreeOK(pc[p], req[p])'
    BY <1>b, <2>1, GotoFrame DEF AgreeOK
  <2> QED BY <1>0, <2>1, <2>2, <2>3, <2>5, <2>6, AgreeWork
\* A deletion goes on.
<1>11. ASSUME r.op \in {"delete", "wipe"}, NEW l \in {"purgeThumb", "remove"},
              Goto(p, l, r), pc[p] # "idle", docs' = docs, doomed' = doomed,
              \A m \in Memes \ {r.id} :
                orig'[m] = orig[m] /\ (m \in thumbs' <=> m \in thumbs),
              orig'[r.id] = None, thumbs' \subseteq thumbs,
              l = "remove" => r.id \notin thumbs'
       PROVE  AgreeInv'
  <2>1. r.id \in doomed /\ pc'[p] = l /\ req'[p] = r /\ r.failed = FALSE
    BY <1>0, <1>11, GotoFrame DEF AgreeOK
  <2>2. AgreeOK(pc[p], req[p])'
    BY <1>0, <1>11, <1>a, <2>1 DEF AgreeOK
  <2>3. \A labels : l \in labels => Deletes(p, i, labels)'
    BY <1>11, <2>1 DEF Deletes
  <2>4. MemeOK(i)'
    BY <1>11, <2>1, <2>3 DEF MemeOK
  <2> QED BY <1>0, <1>11, <2>2, <2>4, AgreeWork
<1>12. ASSUME PurgeOriginal(p) PROVE AgreeInv'
  <2>1. /\ pc[p] = "purgeOrig" /\ UNCHANGED <<docs, thumbs, doomed>>
        /\ orig' = [orig EXCEPT ![r.id] = None] /\ Goto(p, "purgeThumb", r)
    BY <1>12 DEF PurgeOriginal, CreatesAndDeletesOnly
  <2>2. r.op \in {"delete", "wipe"}
    BY <1>0, <2>1, ConstantsAssumption DEF LocalOK, AgreeOK, Operation
  <2>3. orig'[r.id] = None /\ \A m \in Memes \ {r.id} : orig'[m] = orig[m]
    BY <1>0, <2>1 DEF TypeInv, TypeOK
  <2> QED BY <1>11, <2>1, <2>2, <2>3
<1>13. ASSUME PurgeThumbnail(p) PROVE AgreeInv'
  <2>1. /\ pc[p] = "purgeThumb" /\ UNCHANGED <<docs, orig, doomed>>
        /\ thumbs' = thumbs \ {r.id} /\ AfterPurge(p, r)
    BY <1>13 DEF PurgeThumbnail, CreatesAndDeletesOnly
  <2>2. r.op \in {"delete", "wipe"} /\ r.failed = FALSE /\ orig[r.id] = None
    BY <1>0, <2>1, ConstantsAssumption DEF LocalOK, AgreeOK, Operation
  <2>3. Goto(p, "remove", r)
    BY <2>1, <2>2 DEF AfterPurge
  <2> QED BY <1>11, <2>1, <2>2, <2>3
<1>14. ASSUME RemoveMetadata(p) PROVE AgreeInv'
  <2>1. /\ pc[p] = "remove" /\ UNCHANGED <<orig, thumbs, doomed>>
        /\ docs' = [docs EXCEPT ![r.id] = None] /\ Goto(p, "idle", NoRequest)
    BY <1>14 DEF RemoveMetadata, Finish
  <2>2. r.op \in {"delete", "wipe"} /\ orig[r.id] = None /\ r.id \notin thumbs
    BY <1>0, <2>1, ConstantsAssumption DEF LocalOK, AgreeOK, Operation
  <2>3. docs'[r.id] = None /\ \A m \in Memes \ {r.id} : docs'[m] = docs[m]
    BY <1>0, <2>1 DEF TypeInv, TypeOK
  <2>4. MemeOK(i)'
    BY <2>1, <2>2, <2>3 DEF MemeOK, Nothing
  <2>5. AgreeOK(pc[p], req[p])'
    BY <1>b, <2>1, GotoFrame DEF AgreeOK
  <2> QED BY <1>0, <2>1, <2>2, <2>3, <2>4, <2>5, AgreeWork
<1>15. ASSUME NEW m \in Memes, MemeNotFound(p, m) PROVE AgreeInv'
  BY <1>15 DEF MemeNotFound, vars, AgreeInv, PrivateIds, AgreeOK, MemeOK, Creates, Deletes,
               Nothing, Whole, HasBlobs
<1>16. /\ \A m \in Memes, u \in Updates : ~UpdateMeme(p, m, u)
       /\ \A m \in Memes, o \in Options : ~RecomputeMeme(p, m, o)
  BY DEF CreatesAndDeletesOnly, UpdateMeme, RecomputeMeme
<1>17. ~ReadOriginal(p) /\ ~DropDuplicate(p) /\ ~Abort(p)
  BY <1>0, ConstantsAssumption
  DEF CreatesAndDeletesOnly, ReadOriginal, DropDuplicate, Abort, LocalOK, AgreeOK, Operation
<1> QED
  BY <1>2, <1>3, <1>6, <1>7, <1>8, <1>9, <1>10, <1>12, <1>13, <1>14, <1>15, <1>16, <1>17
  DEF Step

\* When no request is in progress the stores agree, after any number of
\* concurrent uploads and deletions that did not fail: two deletions of one
\* meme do each other no harm, and a create that stops at a duplicate stores
\* nothing.
THEOREM StoresAgree ==
  ASSUME CreatesAndDeletesOnly
  PROVE  Spec => []StoresAgreeWhenIdle
<1> DEFINE Inv == TypeInv /\ AgreeInv
<1>1. Init => Inv
  BY InitTypeInv, InitAgreeInv
<1>2. Inv /\ [Next]_vars => Inv'
  <2> SUFFICES ASSUME Inv, [Next]_vars PROVE Inv'
    OBVIOUS
  <2>1. TypeInv'
    BY NextTypeInv
  <2>2. CASE Next
    BY <2>1, <2>2, StepAgreeInv DEF Next
  <2>3. CASE UNCHANGED vars
    BY <2>1, <2>3 DEF vars, AgreeInv, PrivateIds, AgreeOK, MemeOK, Creates, Deletes,
                      Nothing, Whole, HasBlobs
  <2> QED BY <2>2, <2>3
<1>3. Inv => StoresAgreeWhenIdle
  <2> SUFFICES ASSUME Inv, \A p \in Procs : pc[p] = "idle", NEW m \in Memes
               PROVE  Whole(m) \/ Nothing(m)
    BY DEF StoresAgreeWhenIdle, Whole, Nothing, HasBlobs, Live
  <2>1. \A p \in Procs : req[p] = NoRequest
    BY DEF TypeInv, LocalOK
  <2>2. \A p \in Procs : req[p].op \notin {"create", "delete", "wipe"}
    BY <2>1, ConstantsAssumption DEF NoRequest, Operation
  <2>3. MemeOK(m)
    BY DEF AgreeInv
  <2> QED BY <2>2, <2>3 DEF MemeOK, Creates, Deletes, Nothing
<1> QED BY <1>1, <1>2, <1>3, PTL DEF Spec
=============================================================================
