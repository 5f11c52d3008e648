---------------------------- MODULE YouTubeDownload ----------------------------
(****************************************************************************)
(* The download behind a job of youtube-service: an external service makes  *)
(* the video, its progress is polled, and the file goes to the temporary    *)
(* bucket.  Each operator gives the states in which a call may leave the    *)
(* download.                                                                *)
(****************************************************************************)
EXTENDS Naturals

CONSTANT MaxIterations  \* polls of the progress: 100

NoDownload == [state |-> "none", polls |-> 0]
Submitted == [state |-> "create", polls |-> 0]
Failed == [state |-> "failed", polls |-> 0]
Gone == [state |-> "gone", polls |-> 0]
Done == [state |-> "done", polls |-> 0]

DownloadState == [state : {"none", "create", "progress", "file", "done", "failed", "gone"},
                  polls : 0 .. MaxIterations]

\* A job the external service rejects fails.
CreateJob(d) == {[d EXCEPT !.state = "progress"], Failed}

\* The answer counts only within the iterations, also one that the video is there.
PollProgress(d) ==
  IF d.polls >= MaxIterations THEN {Failed}
  ELSE {Failed, [d EXCEPT !.state = "file", !.polls = 0], [d EXCEPT !.polls = @ + 1]}

\* The file is streamed into the bucket.
DownloadFile(d) == {Failed, Done}

RunDownload(d) == CASE d.state = "create" -> CreateJob(d)
                    [] d.state = "progress" -> PollProgress(d)
                    [] d.state = "file" -> DownloadFile(d)
                    [] OTHER -> {}

\* GetDownloadJobStatus of the job that runs it.
GetDownloadJobStatus(d) == CASE d.state \in {"create", "progress", "file"} -> "running"
                             [] d.state = "gone" -> "notFound"
                             [] OTHER -> d.state

=============================================================================
