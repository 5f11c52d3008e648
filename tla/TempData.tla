------------------------------- MODULE TempData -------------------------------
(****************************************************************************)
(* Temporary data of common/temp: content held by the process, an object of *)
(* the temporary bucket, or both.  It goes from one side to the other on    *)
(* first use, and both directions share one sync.Once: what failed once is  *)
(* never tried again.                                                       *)
(****************************************************************************)

\* Paths are tuples.
NoPath == <<>>

\* Content of this process ...
FromLocal == [path |-> NoPath, held |-> TRUE, spent |-> FALSE, closed |-> FALSE]

\* ... or an object of the bucket.
FromPath(path) == [path |-> path, held |-> FALSE, spent |-> FALSE, closed |-> FALSE]

Located(d) == d.path # NoPath
Readable(d) == d.held

NeedsDownload(d) == ~d.held /\ ~d.spent
NeedsUpload(d) == ~Located(d) /\ ~d.spent

ResolveDownload(d, ok) ==
  IF NeedsDownload(d) THEN [d EXCEPT !.spent = TRUE, !.held = ok] ELSE d

ResolveUpload(d, path, ok) ==
  IF NeedsUpload(d) THEN [d EXCEPT !.spent = TRUE, !.path = IF ok THEN path ELSE NoPath]
  ELSE d

\* Close deletes the object and is not repeated if that fails.
Close(d) == [d EXCEPT !.closed = TRUE]
Deletes(d) == IF d.closed \/ ~Located(d) THEN {} ELSE {d.path}

-----------------------------------------------------------------------------
(* What ffmpeg-service made is wrapped twice: the wrapper with the object   *)
(* in it is the content of a second one, which uploads it under a new path. *)

Wrapped(path) == [inner |-> FromPath(path), outer |-> FromLocal]
WrappedLocal == [inner |-> FromLocal, outer |-> FromLocal]

Fetch(w, get) == [w EXCEPT !.inner = ResolveDownload(@, get)]

\* GetS3Path, GetPresignedUrl: the upload reads the content first.
Locate(w, path, get, put) ==
  IF NeedsUpload(w.outer)
    THEN LET f == Fetch(w, get) IN
         [f EXCEPT !.outer = ResolveUpload(@, path, Readable(f.inner) /\ put)]
    ELSE w

CloseWrapped(w) == [inner |-> Close(w.inner), outer |-> Close(w.outer)]

\* Mutant of DeletesWrapped: only the content is closed.
DeletesInner(w) == Deletes(w.inner)

DeletesWrapped(w) == Deletes(w.inner) \cup Deletes(w.outer)

=============================================================================
