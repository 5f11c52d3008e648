------------------------------ MODULE TelegramBot ------------------------------
(****************************************************************************)
(* The Telegram bot: updates are posted to its webhook, wait in a channel   *)
(* and get a handler of their own each, which asks auth-service, fetches    *)
(* files, calls storage-service and youtube-service and answers in the chat *)
(* while the process may be stopped.  An action is one remote call with the *)
(* code that follows it; a call that is under way when the process stops    *)
(* ends as one of its failures.                                             *)
(****************************************************************************)
EXTENDS Integers, Sequences, FiniteSets, Functions, TempData, AuthService, YouTubeDownload

CONSTANTS
  Updates,     \* updates of Telegram
  Forms,       \* what each may be
  QueueSize,   \* capacity of the channel of updates
  BotFaults    \* bound: kinds of failures in a behaviour

VARIABLES
  phase,      \* running; stopping: the context is cancelled; closed: no more requests; down
  dispatching,
  queue,      \* the channel of updates
  handler,    \* the webhook request and the handler of each update
  chat,       \* the bot's messages about each update
  effects,    \* history: what storage-service did for an update
  tmpBucket,  \* temporary objects
  videoJobs,  \* the download of each update at youtube-service
  broken      \* history: the kinds of calls that failed

botVars == <<phase, dispatching, queue, handler, chat, effects, tmpBucket, videoJobs, broken>>

Nobody == [kind |-> "none", user |-> "none", query |-> "search"]

BotInit == /\ phase = "running" /\ dispatching = TRUE /\ queue = <<>> /\ effects = {}
        /\ handler = [u \in Updates |->
             [step |-> "new", form |-> Nobody, noted |-> FALSE, tmp |-> FromLocal, answer |-> "none",
              listed |-> {}]]
        /\ chat = [u \in Updates |-> <<>>]
        /\ tmpBucket = {} /\ videoJobs = [u \in Updates |-> NoDownload]
        /\ broken = {}

AtStep(u, step) == handler[u].step = step /\ phase # "down"
Form(u) == handler[u].form
GoTo(u, step) == handler' = [handler EXCEPT ![u].step = step]
AnswerWith(u, answer) == handler' = [handler EXCEPT ![u].step = "reply", ![u].answer = answer]

\* A call fails when its context is cancelled, and otherwise within the bound.
MayFail(kind) == kind \in broken \/ Cardinality(broken) < BotFaults
Outcome(kind) == IF MayFail(kind) THEN BOOLEAN ELSE {TRUE}
Call(kind) == IF phase = "running" THEN Outcome(kind) ELSE {FALSE}

\* (a cancelled call is not a failure of what it called)
Note(kind, ok) == broken' = IF ok \/ ~MayFail(kind) THEN broken ELSE broken \cup {kind}

-----------------------------------------------------------------------------
(* The webhook *)

Post(u, form) ==
  /\ handler[u].step = "new" /\ phase \in {"running", "stopping"}
  /\ handler' = [handler EXCEPT ![u].step = "posting", ![u].form = form]
  /\ UNCHANGED <<phase, dispatching, queue, chat, effects, tmpBucket, videoJobs, broken>>

\* The request blocks while the channel is full, and is answered then.
Enqueue(u) ==
  /\ AtStep(u, "posting") /\ Len(queue) < QueueSize
  /\ queue' = Append(queue, u)
  /\ GoTo(u, "queued")
  /\ UNCHANGED <<phase, dispatching, chat, effects, tmpBucket, videoJobs, broken>>

\* Other commands and other updates are ignored.
FirstStep(form) == CASE form.kind = "start" -> "help"
                     [] form.kind = "ignored" -> "end"
                     [] form.kind \in {"inline", "chosen"} -> "permit"
                     [] OTHER -> "notify"

\* A select takes either of two ready cases, so a few updates may still be
\* dispatched after Stop.
Dispatch ==
  /\ dispatching /\ phase # "down" /\ queue # <<>>
  /\ queue' = Tail(queue)
  /\ GoTo(Head(queue), FirstStep(Form(Head(queue))))
  /\ UNCHANGED <<phase, dispatching, chat, effects, tmpBucket, videoJobs, broken>>

StopDispatching ==
  /\ dispatching /\ phase \in {"stopping", "closed"}
  /\ dispatching' = FALSE
  /\ UNCHANGED <<phase, queue, handler, chat, effects, tmpBucket, videoJobs, broken>>

\* OnStop: Stop, then Shutdown, which waits for webhook requests but not for handlers,
\* and gives up in the end.
Stop ==
  /\ phase # "down"
  /\ phase' = CASE phase = "running" -> "stopping"
                [] phase = "stopping" -> "closed"
                [] phase = "closed" -> "down"
  /\ phase = "closed" => Cardinality(broken) < BotFaults \/ \A u \in Updates : handler[u].step # "posting"
  /\ UNCHANGED <<dispatching, queue, handler, chat, effects, tmpBucket, videoJobs, broken>>

-----------------------------------------------------------------------------
(* Permissions *)

permissionCodes == [create |-> "CREATE", delete |-> "DELETE", recompute |-> "UPDATE"]

\* Mutant of permissionForQuery: /recompute is taken for a search.
permissionForDelete(query) == IF query = "delete" THEN "delete" ELSE "search"

permissionForQuery(query) == IF query \in {"delete", "recompute"} THEN query ELSE "search"

Permission(form) == IF form.kind \in {"inline", "chosen"} THEN permissionForQuery(form.query)
                    ELSE "create"

\* An AuthorizeTelegram that fails denies.
IsAllowed(user, permission, ok) ==
  permission \in DOMAIN permissionCodes =>
    ok /\ HasPermission(AuthorizeTelegram(user), permissionCodes[permission])

Asks(permission) == IF permission \in DOMAIN permissionCodes THEN Call("auth") ELSE {TRUE}

InvokeWithPermission(u) ==
  LET form == Form(u) IN
  /\ AtStep(u, "permit")
  /\ \E ok \in Asks(Permission(form)) :
       /\ Note("auth", ok)
       /\ IF IsAllowed(form.user, Permission(form), ok)
            THEN GoTo(u, CASE form.kind = "youtube" -> "submit"
                         [] form.kind = "inline" -> "query"
                         [] form.kind = "chosen" -> "choose"
                         [] OTHER -> "fetch")
          ELSE IF form.kind = "chosen" THEN GoTo(u, "end") ELSE AnswerWith(u, "forbidden")
  /\ UNCHANGED <<phase, dispatching, queue, chat, effects, tmpBucket, videoJobs>>

-----------------------------------------------------------------------------
(* Messages *)

\* Telegram is told that the message is processed; one without media is refused.
Notify(u) ==
  /\ AtStep(u, "notify")
  /\ \E ok \in Outcome("telegram") :
       /\ chat' = [chat EXCEPT ![u] = IF ok THEN <<"processing">> ELSE <<>>]
       /\ handler' = IF Form(u).kind = "text"
            THEN [handler EXCEPT ![u].step = "reply", ![u].answer = "error", ![u].noted = ok]
            ELSE [handler EXCEPT ![u].step = "permit", ![u].noted = ok]
       /\ Note("telegram", ok)
  /\ UNCHANGED <<phase, dispatching, queue, effects, tmpBucket, videoJobs>>

\* GetFileURL and downloadToS3 take the file from Telegram; a document that is neither an
\* image nor a video is refused.
Download(u) ==
  /\ AtStep(u, "fetch")
  /\ \/ \E ok \in Call("file") :
          /\ IF ok THEN GoTo(u, "upload") ELSE AnswerWith(u, "error")
          /\ Note("file", ok)
     \/ /\ Form(u).kind = "document"
        /\ AnswerWith(u, "error")
        /\ UNCHANGED broken
  /\ UNCHANGED <<phase, dispatching, queue, chat, effects, tmpBucket, videoJobs>>

\* storageConnector.CreateMeme begins with GetS3Path.
Upload(u) ==
  /\ AtStep(u, "upload")
  /\ \E ok \in Call("put") :
       LET tmp == ResolveUpload(handler[u].tmp, <<u>>, ok) IN
       /\ tmpBucket' = tmpBucket \cup Deletes(tmp)
       /\ handler' = [handler EXCEPT
            ![u].tmp = tmp, ![u].step = IF Located(tmp) THEN "create" ELSE "close",
            ![u].answer = IF Located(tmp) THEN "none" ELSE "error"]
       /\ Note("put", ok)
  /\ UNCHANGED <<phase, dispatching, queue, chat, effects, videoJobs>>

\* How a call of storage-service ends: with its answer, unsent, refused by the service,
\* or done without an answer.
Calls == IF phase # "running" THEN {"unsent", "unanswered"}
         ELSE IF MayFail("storage") THEN {"done", "unsent", "refused", "unanswered"} ELSE {"done"}

\* storage-service deletes the temporary object whatever comes of it.
CreateMeme(u) ==
  /\ AtStep(u, "create")
  /\ \E call \in Calls, deleted \in Outcome("delete") :
       /\ effects' = IF call \in {"done", "unanswered"} THEN effects \cup {<<u, "CREATE">>} ELSE effects
       /\ tmpBucket' = IF call = "unsent" \/ ~deleted THEN tmpBucket
                       ELSE tmpBucket \ Deletes(handler[u].tmp)
       /\ handler' = [handler EXCEPT
            ![u].step = IF Form(u).kind = "youtube" THEN "reply" ELSE "close",
            ![u].answer = IF call = "done" THEN "created" ELSE "error"]
       /\ broken' = broken \cup {k \in {"storage", "delete"} :
            IF k = "storage" THEN call # "done" /\ MayFail(k) ELSE ~deleted}
  /\ UNCHANGED <<phase, dispatching, queue, chat, videoJobs>>

\* The deferred QuietClose.
CloseTmp(u) ==
  /\ AtStep(u, "close")
  /\ \E ok \in Outcome("delete") :
       /\ tmpBucket' = IF ok THEN tmpBucket \ Deletes(handler[u].tmp) ELSE tmpBucket
       /\ handler' = [handler EXCEPT ![u].step = "reply", ![u].tmp = Close(@)]
       /\ Note("delete", ok)
  /\ UNCHANGED <<phase, dispatching, queue, chat, effects, videoJobs>>

Status(u) == GetDownloadJobStatus(videoJobs[u])

DownloadVideoAsync(u) ==
  /\ AtStep(u, "submit")
  /\ \E ok \in Call("youtube") :
       /\ IF ok THEN GoTo(u, "poll") /\ videoJobs' = [videoJobs EXCEPT ![u] = Submitted]
          ELSE AnswerWith(u, "error") /\ UNCHANGED videoJobs
       /\ Note("youtube", ok)
  /\ UNCHANGED <<phase, dispatching, queue, chat, effects, tmpBucket>>

\* Mutant of Poll: the status is asked for again after an error.
PollOnError(u) ==
  /\ AtStep(u, "poll")
  /\ \/ /\ phase # "running" \/ Status(u) = "failed"
        /\ AnswerWith(u, "error")
     \/ /\ phase = "running" /\ Status(u) = "done"
        /\ handler' = [handler EXCEPT ![u].step = "create", ![u].tmp = FromPath(<<u>>)]
  /\ UNCHANGED <<phase, dispatching, queue, chat, effects, tmpBucket, videoJobs, broken>>

\* The job is polled until it ends or is forgotten, a call fails or the process stops.
Poll(u) ==
  /\ AtStep(u, "poll")
  /\ \/ /\ phase # "running" \/ Status(u) \in {"failed", "notFound"}
        /\ AnswerWith(u, "error")
        /\ UNCHANGED broken
     \/ /\ phase = "running" /\ Status(u) = "done"
        /\ handler' = [handler EXCEPT ![u].step = "create", ![u].tmp = FromPath(<<u>>)]
        /\ UNCHANGED broken
     \/ /\ MayFail("youtube")
        /\ AnswerWith(u, "error")
        /\ Note("youtube", FALSE)
  /\ UNCHANGED <<phase, dispatching, queue, chat, effects, tmpBucket, videoJobs>>

DownloadGoesOn(u) ==
  /\ \E d \in RunDownload(videoJobs[u]) :
       /\ videoJobs' = [videoJobs EXCEPT ![u] = d]
       /\ tmpBucket' = IF d = Done THEN tmpBucket \cup {<<u>>} ELSE tmpBucket
  /\ UNCHANGED <<phase, dispatching, queue, handler, chat, effects, broken>>

\* The cleaner of youtube-service (VideoJobs) removes the job and its object.
JobForgotten(u) ==
  /\ videoJobs[u] \in {Done, Failed}
  /\ videoJobs' = [videoJobs EXCEPT ![u] = Gone]
  /\ tmpBucket' = tmpBucket \ {<<u>>}
  /\ UNCHANGED <<phase, dispatching, queue, handler, chat, effects, broken>>

-----------------------------------------------------------------------------
(* Answers *)

\* Mutant of Edit: the answer is sent beside the processing message.
AnswerBeside(u) ==
  /\ AtStep(u, "reply") /\ Form(u).kind \notin {"inline", "start"}
  /\ \E ok \in IF handler[u].noted THEN Outcome("telegram") ELSE {FALSE} :
       /\ chat' = IF ok THEN [chat EXCEPT ![u] = Append(@, handler[u].answer)] ELSE chat
       /\ GoTo(u, IF ok THEN "end" ELSE "fallback")
       /\ Note("telegram", ok)
  /\ UNCHANGED <<phase, dispatching, queue, effects, tmpBucket, videoJobs>>

\* The processing message becomes the answer ...
Edit(u) ==
  /\ AtStep(u, "reply") /\ Form(u).kind \notin {"inline", "start"}
  /\ \E ok \in IF handler[u].noted THEN Outcome("telegram") ELSE {FALSE} :
       /\ chat' = IF ok THEN [chat EXCEPT ![u] = <<handler[u].answer>>] ELSE chat
       /\ GoTo(u, IF ok THEN "end" ELSE "fallback")
       /\ Note("telegram", ok)
  /\ UNCHANGED <<phase, dispatching, queue, effects, tmpBucket, videoJobs>>

\* ... or the answer is a message of its own, and if it cannot be sent (Telegram may
\* reject its Markdown), the error is.
Send(u) ==
  /\ AtStep(u, "fallback")
  /\ \E ok \in Outcome("telegram") :
       /\ chat' = IF ok THEN [chat EXCEPT ![u] = Append(@, handler[u].answer)] ELSE chat
       /\ GoTo(u, IF ok \/ handler[u].answer # "created" THEN "end" ELSE "apology")
       /\ Note("telegram", ok)
  /\ UNCHANGED <<phase, dispatching, queue, effects, tmpBucket, videoJobs>>

SendCommonError(u) ==
  /\ AtStep(u, "apology")
  /\ \E ok \in Outcome("telegram") :
       /\ chat' = IF ok THEN [chat EXCEPT ![u] = Append(@, "error")] ELSE chat
       /\ GoTo(u, "end")
       /\ Note("telegram", ok)
  /\ UNCHANGED <<phase, dispatching, queue, effects, tmpBucket, videoJobs>>

\* The answer to an inline query (the results or the one "forbidden"), and to /start.
AnswerInline(u) ==
  /\ AtStep(u, "reply") /\ Form(u).kind \in {"inline", "start"}
  /\ \E ok \in Outcome("telegram") :
       /\ chat' = IF ok THEN [chat EXCEPT ![u] = <<handler[u].answer>>] ELSE chat
       /\ GoTo(u, "end")
       /\ Note("telegram", ok)
  /\ UNCHANGED <<phase, dispatching, queue, effects, tmpBucket, videoJobs>>

Entries == {"search", "random", "delete", "recompute"}

\* /start lists the queries the user may make; every entry is authorized by itself.
Help(u) ==
  /\ AtStep(u, "help")
  /\ \E denied \in SUBSET {e \in Entries : FALSE \in Asks(permissionForQuery(e))} :
       /\ \A e \in Entries \ denied : TRUE \in Asks(permissionForQuery(e))
       /\ handler' = [handler EXCEPT ![u].step = "reply", ![u].answer = "help",
            ![u].listed = {e \in Entries :
               IsAllowed(Form(u).user, permissionForQuery(e), e \notin denied)}]
       /\ Note("auth", denied = {})
  /\ UNCHANGED <<phase, dispatching, queue, chat, effects, tmpBucket, videoJobs>>

-----------------------------------------------------------------------------
(* Inline queries *)

\* An inline query that fails is not answered.
Process(u, ok, found) == /\ IF ok /\ found THEN AnswerWith(u, "results") ELSE GoTo(u, "end")
                         /\ Note("storage", ok)

\* A search that finds nothing has results all the same.
ProcessSearchQuery(u) ==
  /\ AtStep(u, "query") /\ Form(u).query # "random"
  /\ \E ok \in Call("storage") : Process(u, ok, TRUE)
  /\ UNCHANGED <<phase, dispatching, queue, chat, effects, tmpBucket, videoJobs>>

\* That there is no meme to draw is a failure.
GetRandomMeme(u) ==
  /\ AtStep(u, "query") /\ Form(u).query = "random"
  /\ \E ok \in Call("storage"), found \in BOOLEAN : Process(u, ok, found)
  /\ UNCHANGED <<phase, dispatching, queue, chat, effects, tmpBucket, videoJobs>>

\* Choosing a result of /delete deletes the meme, one of /recompute starts its job; the
\* result that says "forbidden" has no meme to do it to.
Chosen(u, query, effect) ==
  /\ AtStep(u, "choose") /\ Form(u).query = query
  /\ \E call \in Calls :
       /\ effects' = IF call \in {"done", "unanswered"} THEN effects \cup {<<u, effect>>} ELSE effects
       /\ Note("storage", call = "done")
  /\ GoTo(u, "end")
  /\ UNCHANGED <<phase, dispatching, queue, chat, tmpBucket, videoJobs>>

DeleteMeme(u) == Chosen(u, "delete", "DELETE")
StartRecomputeById(u) == Chosen(u, "recompute", "UPDATE")

ChosenNothing(u) ==
  /\ AtStep(u, "choose")
  /\ GoTo(u, "end")
  /\ UNCHANGED <<phase, dispatching, queue, chat, effects, tmpBucket, videoJobs, broken>>

-----------------------------------------------------------------------------
Handle(u) == \/ InvokeWithPermission(u) \/ Notify(u) \/ Download(u) \/ Upload(u) \/ CreateMeme(u)
             \/ CloseTmp(u) \/ DownloadVideoAsync(u) \/ Poll(u) \/ Edit(u) \/ Send(u)
             \/ SendCommonError(u) \/ AnswerInline(u) \/ Help(u)
             \/ ProcessSearchQuery(u) \/ GetRandomMeme(u)
             \/ DeleteMeme(u) \/ StartRecomputeById(u) \/ ChosenNothing(u)

BotStep ==
  \/ Dispatch
  \/ \E u \in Updates : Enqueue(u) \/ Handle(u) \/ DownloadGoesOn(u) \/ JobForgotten(u)

BotNext == \/ \E u \in Updates : \E form \in Forms[u] : Post(u, form)
        \/ BotStep \/ StopDispatching \/ Stop

BotSpec == BotInit /\ [][BotNext]_botVars

\* Goroutines run, calls return, and the download and the cleaner of youtube-service go on.
BotFairness == WF_botVars(BotStep)

BotFairSpec == BotSpec /\ BotFairness

-----------------------------------------------------------------------------
(* Properties *)

BotTypeOK ==
  /\ phase \in {"running", "stopping", "closed", "down"} /\ dispatching \in BOOLEAN
  /\ Len(queue) <= QueueSize /\ Range(queue) \subseteq Updates
  /\ \A u \in Updates : (\E i \in DOMAIN queue : queue[i] = u) <=> handler[u].step = "queued"
  /\ \A u \in Updates : handler[u].form \in Forms[u] \cup {Nobody}
  /\ effects \subseteq Updates \X {"CREATE", "DELETE", "UPDATE"}
  /\ videoJobs \in [Updates -> DownloadState]

\* A posted update is handled to the end while the process runs: no queue, job or failure
\* leaves its handler behind.
UpdatesEnd ==
  \A u \in Updates : handler[u].step # "new" ~> (handler[u].step = "end" \/ phase # "running")

\* What the tables of auth-service grant the Telegram account of an update.
Grants(u, code) ==
  \E i \in DOMAIN TelegramLinks : /\ Form(u).user \in TelegramLinks[i].ids
                                 /\ code \in UserPermissions[TelegramLinks[i].user]

\* storage-service does nothing for an update that its user has no permission for, and
\* /start does not offer it.
OnlyPermitted ==
  /\ \A e \in effects : Grants(e[1], e[2])
  /\ \A u \in Updates : \A e \in handler[u].listed :
       e \in DOMAIN permissionCodes => Grants(u, permissionCodes[e])

Faulty(kinds) == phase # "running" \/ broken \cap kinds # {}

\* What the chat says is so: "created" only after the meme was; "forbidden" only to a user
\* without the permission, unless auth-service failed; an error after a meme was created
\* only if the answer got lost or could not be shown.  While Telegram works, each message
\* gets one answer and no "processing" stays.  No temporary object of a handled message
\* stays but one that could not be deleted.
RepliesTellTruth ==
  \A u \in Updates :
    LET said(what) == \E i \in DOMAIN chat[u] : chat[u][i] = what
        message == Form(u).kind \in {"media", "document", "youtube", "text"}
    IN /\ said("created") => <<u, "CREATE">> \in effects
       /\ said("forbidden") =>
            Faulty({"auth"}) \/ ~Grants(u, permissionCodes[Permission(Form(u))])
       /\ said("error") /\ <<u, "CREATE">> \in effects => Faulty({"storage", "telegram"})
       /\ handler[u].step = "end" /\ message /\ "telegram" \notin broken =>
            chat[u] = <<handler[u].answer>>
       /\ handler[u].step = "end" /\ Form(u).kind # "youtube" /\ <<u>> \in tmpBucket =>
            "delete" \in broken

=============================================================================
