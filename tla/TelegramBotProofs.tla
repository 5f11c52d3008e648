--------------------------- MODULE TelegramBotProofs ---------------------------
(****************************************************************************)
(* For any updates and any tables of auth-service, the bot makes            *)
(* storage-service do only what the user of an update may, and what it says *)
(* in the chat is so.                                                       *)
(****************************************************************************)
EXTENDS TelegramBot, WellFoundedInduction, TLAPS

\* The rows of integration_telegram have ids that are ordered; numbers stand for them.
RowsAreOrdered == DOMAIN TelegramLinks \subseteq Nat

\* The foreign key of integration_telegram; and no account is in two of its rows.
AccountsLinkedOnce ==
  /\ \A i \in DOMAIN TelegramLinks : TelegramLinks[i].user \in DOMAIN UserPermissions
  /\ \A i, j \in DOMAIN TelegramLinks :
       TelegramLinks[i].ids \cap TelegramLinks[j].ids # {} => i = j

BoundsAreNaturals == QueueSize \in Nat /\ MaxIterations \in Nat

-----------------------------------------------------------------------------
(* The inductive invariant *)

BotSteps == {"new", "posting", "queued", "notify", "permit", "help", "fetch", "upload", "create",
          "close", "submit", "poll", "query", "choose", "reply", "fallback", "apology", "end"}
Answers == {"none", "error", "created", "forbidden", "help", "results"}
Messages == {"processing"} \cup Answers

Tmp == [path : {NoPath} \cup {<<u>> : u \in Updates},
        held : BOOLEAN, spent : BOOLEAN, closed : BOOLEAN]

Handler == [step : BotSteps, form : {Nobody} \cup UNION {Forms[u] : u \in Updates},
            noted : BOOLEAN, tmp : Tmp, answer : Answers, listed : SUBSET Entries]

HandlerType ==
  /\ handler \in [Updates -> Handler]
  /\ chat \in [Updates -> Seq(Messages)]
  /\ effects \subseteq Updates \X {"CREATE", "DELETE", "UPDATE"}
  /\ videoJobs \in [Updates -> DownloadState]
  /\ phase \in {"running", "stopping", "closed", "down"}

\* The channel holds the updates that wait in it, each once.
QueueInv ==
  /\ queue \in Seq(Updates)
  /\ \A i \in DOMAIN queue : handler[queue[i]].step = "queued"
  /\ \A i, j \in DOMAIN queue : queue[i] = queue[j] => i = j
  /\ \A u \in Updates : handler[u].step = "queued" => \E i \in DOMAIN queue : queue[i] = u

Has(u, code) == <<u, code>> \in effects

\* Where each kind of update may be.
FormInv(u) ==
  LET h == handler[u] IN
  /\ h.form \in Forms[u] \cup {Nobody}
  /\ h.step = "new" => h.form = Nobody
  /\ h.step = "help" => h.form.kind = "start"
  /\ h.step = "query" => h.form.kind = "inline"
  /\ h.step = "choose" => h.form.kind = "chosen"
  /\ h.step = "permit" => h.form.kind \notin {"start", "ignored"}
  /\ h.step \in {"submit", "poll"} => h.form.kind = "youtube"
  /\ h.step \in {"notify", "fetch", "upload", "create", "close", "submit", "poll"} =>
       h.form.kind \notin {"inline", "chosen", "start", "ignored"}
  /\ h.step = "fetch" => h.form.kind # "youtube"
  /\ h.step = "upload" => h.form.kind # "youtube"
  /\ videoJobs[u] # NoDownload => h.form.kind = "youtube"

\* What the permission was asked for; no effect and no entry without it.
PermitInv(u) ==
  LET h == handler[u] IN
  /\ h.step = "new" => h.listed = {} /\ \A code \in {"CREATE", "DELETE", "UPDATE"} : ~Has(u, code)
  /\ h.step \in {"fetch", "upload", "create", "submit", "poll"} => Grants(u, "CREATE")
  /\ h.step = "choose" /\ h.form.query \in {"delete", "recompute"} =>
       Grants(u, permissionCodes[h.form.query])
  /\ \A code \in {"CREATE", "DELETE", "UPDATE"} : Has(u, code) => Grants(u, code)
  /\ \A e \in h.listed : e \in DOMAIN permissionCodes => Grants(u, permissionCodes[e])

Final == {"reply", "fallback", "apology", "end"}

\* What the answer says of the meme.
AnswerInv(u) ==
  LET h == handler[u] IN
  /\ h.step \notin Final \cup {"close"} => h.answer = "none"
  /\ Has(u, "CREATE") => /\ h.step \in Final \cup {"close"}
                         /\ \/ h.answer = "created"
                            \/ h.answer = "error" /\ Faulty({"storage"})
  /\ h.answer = "created" => Has(u, "CREATE")

\* What it says of the permission.
ForbiddenInv(u) ==
  handler[u].answer = "forbidden" =>
    /\ handler[u].step \in Final
    /\ Faulty({"auth"}) \/ ~Grants(u, permissionCodes[Permission(Form(u))])

\* What is in the chat.
ChatInv(u) ==
  LET h == handler[u]
      message == h.form.kind \in {"media", "document", "youtube", "text"}
  IN
  /\ \A i \in DOMAIN chat[u] :
       \/ chat[u][i] = "processing"
       \/ h.step \in Final /\ chat[u][i] = h.answer
       \/ h.step \in Final /\ chat[u][i] = "error" /\ "telegram" \in broken
  /\ h.step = "apology" => "telegram" \in broken
  /\ message /\ "telegram" \notin broken =>
       /\ h.step \notin {"help", "query", "choose", "fallback", "apology"}
       /\ h.step \notin {"new", "posting", "queued", "notify", "end"} => h.noted
       /\ h.step = "end" => chat[u] = <<h.answer>>

\* The temporary object has somebody who will delete it.
TmpInv(u) ==
  LET h == handler[u] IN
  /\ h.step \in {"new", "posting", "queued", "notify", "permit", "fetch", "upload"} =>
       h.tmp = FromLocal
  /\ h.step = "create" => h.tmp.path = <<u>> /\ ~h.tmp.closed
  /\ <<u>> \in tmpBucket /\ h.form.kind # "youtube" =>
       \/ "delete" \in broken
       \/ h.step \in {"create", "close"} /\ h.tmp.path = <<u>> /\ ~h.tmp.closed

UpdateInv(u) == FormInv(u) /\ PermitInv(u) /\ AnswerInv(u) /\ ChatInv(u) /\ TmpInv(u)

BotInv == HandlerType /\ QueueInv /\ \A u \in Updates : UpdateInv(u)

-----------------------------------------------------------------------------
(* The tables of auth-service *)

\* A set of rows has a first one.
LEMMA FirstRow ==
  ASSUME RowsAreOrdered, NEW S, S \subseteq DOMAIN TelegramLinks, S # {}
  PROVE  Min(S) \in S
<1>1. S \subseteq Nat
  BY DEF RowsAreOrdered
<1> DEFINE less == {ss \in Nat \X Nat : ss[1] < ss[2]}
<1>2. IsWellFoundedOn(less, Nat)
  BY NatLessThanWellFounded, Zenon DEF OpToRel
<1>3. PICK x \in S : \A y \in S : ~(<<y, x>> \in less)
  <2> HIDE DEF less
  <2> QED BY <1>1, <1>2, WFMin, Zenon
<1>4. \A y \in S : x <= y
  <2> TAKE y \in S
  <2>1. x \in Nat /\ y \in Nat
    BY <1>1
  <2>2. ~(y < x)
    BY <1>3, <2>1, Zenon
  <2> QED BY <2>1, <2>2
<1> QED BY <1>4 DEF Min

\* A permission that is found allowed is granted by the tables.
LEMMA AllowedIsGranted ==
  ASSUME RowsAreOrdered, NEW u, NEW permission \in DOMAIN permissionCodes, NEW ok,
         IsAllowed(Form(u).user, permission, ok)
  PROVE  Grants(u, permissionCodes[permission])
<1> DEFINE rows == FindByTelegramId(Form(u).user)
           code == permissionCodes[permission]
<1>1. HasPermission(AuthorizeTelegram(Form(u).user), code)
  BY DEF IsAllowed
<1> HIDE DEF code
<1>2. rows # {} /\ rows \subseteq DOMAIN TelegramLinks
  BY <1>1 DEF AuthorizeTelegram, HasPermission, NotFoundResult, FindByTelegramId
<1>3. Min(rows) \in rows
  BY <1>2, FirstRow
<1> DEFINE i == Min(rows)
<1>4. AuthorizeTelegram(Form(u).user) = ResultForUser(TelegramLinks[i].user)
  BY <1>2 DEF AuthorizeTelegram
<1>5. code \in UserPermissions[TelegramLinks[i].user]
  BY <1>1, <1>4 DEF HasPermission, ResultForUser, ErrorResult, GetPermissionCodes
<1>6. i \in DOMAIN TelegramLinks /\ Form(u).user \in TelegramLinks[i].ids
  BY <1>3 DEF FindByTelegramId
<1> QED BY <1>5, <1>6 DEF Grants, code

\* One that is refused although auth-service answered is not.
LEMMA DeniedIsNotGranted ==
  ASSUME RowsAreOrdered, AccountsLinkedOnce, NEW u, NEW permission, NEW ok, ok = TRUE,
         ~IsAllowed(Form(u).user, permission, ok)
  PROVE  ~Grants(u, permissionCodes[permission])
<1> DEFINE rows == FindByTelegramId(Form(u).user)
           code == permissionCodes[permission]
           i == Min(rows)
<1>1. ~HasPermission(AuthorizeTelegram(Form(u).user), code)
  BY DEF IsAllowed
<1> HIDE DEF code
<1>2. SUFFICES ASSUME NEW k \in DOMAIN TelegramLinks,
                      Form(u).user \in TelegramLinks[k].ids,
                      code \in UserPermissions[TelegramLinks[k].user]
               PROVE  FALSE
  BY DEF Grants, code
<1>3. k \in rows /\ rows \subseteq DOMAIN TelegramLinks
  BY <1>2 DEF FindByTelegramId
<1>4. i \in rows
  BY <1>3, FirstRow
<1>5. i = k
  <2>1. Form(u).user \in TelegramLinks[i].ids \cap TelegramLinks[k].ids
    BY <1>2, <1>4 DEF FindByTelegramId
  <2> QED BY <1>3, <1>4, <2>1 DEF AccountsLinkedOnce
<1>6. AuthorizeTelegram(Form(u).user) = ResultForUser(TelegramLinks[k].user)
  BY <1>3, <1>5 DEF AuthorizeTelegram
<1>7. TelegramLinks[k].user \in DOMAIN UserPermissions
  BY DEF AccountsLinkedOnce
<1> QED BY <1>1, <1>2, <1>6, <1>7 DEF HasPermission, ResultForUser, GetPermissionCodes

-----------------------------------------------------------------------------
(* Steps of one handler *)

\* A step leaves the update `v` alone and takes back nothing that is known of it.
Leaves(v) ==
  /\ handler'[v] = handler[v] /\ chat'[v] = chat[v] /\ videoJobs'[v] = videoJobs[v]
  /\ \A code \in {"CREATE", "DELETE", "UPDATE"} : Has(v, code)' <=> Has(v, code)
  /\ <<v>> \in tmpBucket' => <<v>> \in tmpBucket
  /\ broken \subseteq broken'
  /\ phase' = "running" => phase = "running"

\* What holds of an update goes on to hold.
LEMMA LeavesUpdate ==
  ASSUME NEW v \in Updates, UpdateInv(v), Leaves(v)
  PROVE  UpdateInv(v)'
<1> USE DEF UpdateInv, Leaves
<1>1. FormInv(v)'
  BY DEF FormInv
<1>2. \A code : Grants(v, code)' <=> Grants(v, code)
  BY DEF Grants, Form
<1>3. PermitInv(v)'
  <2> HIDE DEF Grants
  <2> QED BY <1>2 DEF PermitInv
<1>4. Faulty({"storage"}) => Faulty({"storage"})'
  BY DEF Faulty
<1>5. AnswerInv(v)'
  BY <1>4 DEF AnswerInv
<1>6. ChatInv(v)'
  BY DEF ChatInv
<1>7. TmpInv(v)'
  BY DEF TmpInv
<1> QED BY <1>1, <1>3, <1>5, <1>6, <1>7

\* A "forbidden" that is true stays true.
LEMMA LeavesForbidden ==
  ASSUME NEW v \in Updates, ForbiddenInv(v), Leaves(v)
  PROVE  ForbiddenInv(v)'
<1> USE DEF Leaves
<1>1. \A code : Grants(v, code)' <=> Grants(v, code)
  BY DEF Grants, Form
<1>2. Faulty({"auth"}) => Faulty({"auth"})'
  BY DEF Faulty
<1> QED BY <1>1, <1>2 DEF ForbiddenInv, Form

\* A step of u's handler outside the channel: what it does to u is left to show.
OnlyMoves(u) ==
  /\ HandlerType'
  /\ queue' = queue
  /\ handler[u].step # "queued" /\ handler'[u].step # "queued"
  /\ \A v \in Updates \ {u} : Leaves(v)

\* To show the invariant it is enough to look at the one update that moves.
LEMMA OneMoves ==
  ASSUME NEW u \in Updates, BotInv, OnlyMoves(u), UpdateInv(u)'
  PROVE  BotInv'
<1> USE DEF BotInv, OnlyMoves
<1>1. QueueInv'
  <2> USE DEF QueueInv
  <2>1. \A i \in DOMAIN queue : queue[i] # u /\ queue[i] \in Updates
    OBVIOUS
  <2>2. \A v \in Updates \ {u} : handler'[v] = handler[v]
    BY DEF Leaves
  <2> QED BY <2>1, <2>2
<1>2. ASSUME NEW v \in Updates PROVE UpdateInv(v)'
  <2>1. CASE v = u
    BY <2>1
  <2>2. CASE v # u
    BY <2>2, LeavesUpdate
  <2> QED BY <2>1, <2>2
<1> QED BY <1>1, <1>2

\* Whoever was told "forbidden" before.
KeepsForbidden(u) ==
  /\ handler'[u].form = handler[u].form
  /\ handler'[u].answer = "forbidden" =>
       handler[u].answer = "forbidden" /\ handler'[u].step \in Final
  /\ broken \subseteq broken'
  /\ phase' = "running" => phase = "running"

ActsOn(u) == OnlyMoves(u) /\ UpdateInv(u)' /\ KeepsForbidden(u)

\* The record of u becomes `h`.
Becomes(u, h) ==
  /\ handler' \in [Updates -> Handler] /\ handler'[u] = h
  /\ \A v \in Updates \ {u} : handler'[v] = handler[v]

\* GoTo changes the step of one handler.
LEMMA GoMoves ==
  ASSUME HandlerType, NEW u \in Updates, NEW step \in BotSteps, GoTo(u, step)
  PROVE  Becomes(u, [handler[u] EXCEPT !.step = step])
<1> DEFINE h == [handler[u] EXCEPT !.step = step]
<1>1. handler \in [Updates -> Handler] /\ handler[u] \in Handler
  BY DEF HandlerType
<1>2. h \in Handler
  BY <1>1 DEF Handler
<1>3. handler' = [handler EXCEPT ![u] = h]
  BY <1>1 DEF GoTo
<1> QED BY <1>1, <1>2, <1>3 DEF Becomes

\* AnswerWith changes the step and the answer of one handler.
LEMMA AnswerMoves ==
  ASSUME HandlerType, NEW u \in Updates, NEW answer \in Answers, AnswerWith(u, answer)
  PROVE  Becomes(u, [handler[u] EXCEPT !.step = "reply", !.answer = answer])
<1> DEFINE h == [handler[u] EXCEPT !.step = "reply", !.answer = answer]
<1>1. handler \in [Updates -> Handler] /\ handler[u] \in Handler
  BY DEF HandlerType
<1>2. h \in Handler
  BY <1>1 DEF Handler, BotSteps
<1>3. handler' = [handler EXCEPT ![u] = h]
  BY <1>1 DEF AnswerWith
<1> QED BY <1>1, <1>2, <1>3 DEF Becomes

\* A call that fails is noted as a failure or fails because the process stops.
LEMMA OutcomeNoted ==
  ASSUME NEW kind, NEW ok \in Outcome(kind), Note(kind, ok)
  PROVE  /\ ok \in BOOLEAN /\ broken \subseteq broken'
         /\ ~ok => kind \in broken'
BY DEF Outcome, Note

\* So does one that is cancelled.
LEMMA CallNoted ==
  ASSUME NEW kind, NEW ok \in Call(kind), Note(kind, ok), phase' = phase
  PROVE  /\ ok \in BOOLEAN /\ broken \subseteq broken'
         /\ ~ok => Faulty({kind})'
BY DEF Call, Outcome, Note, Faulty

\* A user's permissions are those of the form.
LEMMA SameGrants ==
  ASSUME NEW u, handler'[u].form = handler[u].form
  PROVE  \A code : Grants(u, code)' <=> Grants(u, code)
BY DEF Grants, Form

\* Only the handler moves, and a failure may be noted.
Quiet ==
  /\ UNCHANGED <<phase, queue, chat, effects, tmpBucket, videoJobs>>
  /\ broken \subseteq broken'

\* A quiet step of one handler leaves the others alone.
LEMMA QuietMoves ==
  ASSUME BotInv, NEW u \in Updates, NEW h, Becomes(u, h), Quiet,
         handler[u].step # "queued", h.step # "queued"
  PROVE  OnlyMoves(u)
<1>1. HandlerType'
  BY DEF BotInv, HandlerType, Becomes, Quiet
<1>2. \A v \in Updates \ {u} : Leaves(v)
  BY DEF Leaves, Becomes, Quiet, Has
<1> QED BY <1>1, <1>2 DEF OnlyMoves, Becomes, Quiet

-----------------------------------------------------------------------------
(* The actions *)

\* The error, or the results of an inline query, become the answer.
LEMMA AnswerActs ==
  ASSUME BotInv, NEW u \in Updates, NEW answer \in {"error", "results"},
         handler[u].step \in {"fetch", "submit", "poll", "query"},
         AnswerWith(u, answer), Quiet
  PROVE  ActsOn(u)
<1> USE DEF BotInv
<1> DEFINE h == [handler[u] EXCEPT !.step = "reply", !.answer = answer]
<1>1. Becomes(u, h)
  BY AnswerMoves DEF Answers
<1>2. handler[u] \in Handler /\ UpdateInv(u) /\ Quiet
  BY DEF HandlerType
<1>3. handler'[u].form = handler[u].form
  BY <1>1, <1>2 DEF Becomes, Handler
<1>4. OnlyMoves(u)
  BY <1>1, <1>2, QuietMoves DEF Handler
<1>5. UpdateInv(u)'
  <2> USE <1>1, <1>2, <1>3 DEF Quiet, Becomes, UpdateInv, Handler
  <2>1. FormInv(u)'
    BY DEF FormInv, Form
  <2>2. PermitInv(u)'
    <3>1. \A code : Grants(u, code)' <=> Grants(u, code)
      BY SameGrants
    <3> HIDE DEF Grants
    <3> QED BY <3>1 DEF PermitInv, Has
  <2>3. AnswerInv(u)'
    BY DEF AnswerInv, Final, Has, Faulty
  <2>4. ChatInv(u)'
    BY DEF ChatInv, Final, Form
  <2>5. TmpInv(u)'
    BY DEF TmpInv
  <2> QED BY <2>1, <2>2, <2>3, <2>4, <2>5
<1>6. KeepsForbidden(u)
  BY <1>1, <1>2, <1>3
     DEF KeepsForbidden, Becomes, Handler, UpdateInv, AnswerInv, Final, Quiet
<1> QED BY <1>4, <1>5, <1>6 DEF ActsOn

\* The handler goes on to a step whose conditions hold.
LEMMA GoActs ==
  ASSUME BotInv, NEW u \in Updates, NEW step \in BotSteps,
         GoTo(u, step), Quiet,
         \/ handler[u].step = "fetch" /\ step = "upload"
         \/ handler[u].step = "query" /\ step = "end"
         \/ handler[u].step = "choose" /\ step = "end"
  PROVE  ActsOn(u)
<1> USE DEF BotInv
<1> DEFINE h == [handler[u] EXCEPT !.step = step]
<1>1. Becomes(u, h)
  BY GoMoves
<1>2. handler[u] \in Handler /\ UpdateInv(u) /\ Quiet
  BY DEF HandlerType
<1>3. handler'[u].form = handler[u].form
  BY <1>1, <1>2 DEF Becomes, Handler
<1>4. OnlyMoves(u)
  BY <1>1, <1>2, QuietMoves DEF Handler
<1>5. UpdateInv(u)'
  <2> USE <1>1, <1>2, <1>3 DEF Quiet, Becomes, UpdateInv, Handler
  <2>1. FormInv(u)'
    BY DEF FormInv, Form
  <2>2. PermitInv(u)'
    <3>1. \A code : Grants(u, code)' <=> Grants(u, code)
      BY SameGrants
    <3> HIDE DEF Grants
    <3> QED BY <3>1 DEF PermitInv, Has
  <2>3. AnswerInv(u)'
    BY DEF AnswerInv, Final, Has, Faulty
  <2>4. ChatInv(u)'
    BY DEF ChatInv, Final, Form
  <2>5. TmpInv(u)'
    BY DEF TmpInv
  <2> QED BY <2>1, <2>2, <2>3, <2>4, <2>5
<1>6. KeepsForbidden(u)
  BY <1>1, <1>2, <1>3
     DEF KeepsForbidden, Becomes, Handler, UpdateInv, AnswerInv, Final, Quiet
<1> QED BY <1>4, <1>5, <1>6 DEF ActsOn

\* The file is fetched or the answer is an error.
LEMMA DownloadActs ==
  ASSUME BotInv, NEW u \in Updates, Download(u)
  PROVE  ActsOn(u)
<1>1. handler[u].step = "fetch"
  BY DEF Download, AtStep
<1>2. CASE AnswerWith(u, "error") /\ UNCHANGED broken
  BY <1>1, <1>2, AnswerActs DEF Download, Quiet
<1>3. ASSUME NEW ok \in Call("file"), IF ok THEN GoTo(u, "upload") ELSE AnswerWith(u, "error"),
             Note("file", ok)
      PROVE  ActsOn(u)
  <2>1. Quiet
    BY <1>3, CallNoted DEF Download, Quiet
  <2>2. CASE ok
    BY <1>1, <1>3, <2>1, <2>2, GoActs DEF BotSteps
  <2>3. CASE ~ok
    BY <1>1, <1>3, <2>1, <2>3, AnswerActs
  <2> QED BY <2>2, <2>3
<1> QED BY <1>2, <1>3 DEF Download

\* The results of an inline query.
LEMMA ProcessActs ==
  ASSUME BotInv, NEW u \in Updates, NEW ok \in Call("storage"), NEW found \in BOOLEAN,
         handler[u].step = "query", Process(u, ok, found),
         UNCHANGED <<phase, dispatching, queue, chat, effects, tmpBucket, videoJobs>>
  PROVE  ActsOn(u)
<1>1. Quiet
  BY CallNoted DEF Process, Quiet
<1>2. CASE ok /\ found
  BY <1>1, <1>2, AnswerActs DEF Process
<1>3. CASE ~(ok /\ found)
  BY <1>1, <1>3, GoActs DEF Process, BotSteps
<1> QED BY <1>2, <1>3

\* The processing message.
LEMMA NotifyActs ==
  ASSUME BotInv, NEW u \in Updates, Notify(u)
  PROVE  ActsOn(u)
<1> USE DEF BotInv
<1>1. PICK ok \in Outcome("telegram") :
        /\ chat' = [chat EXCEPT ![u] = IF ok THEN <<"processing">> ELSE <<>>]
        /\ handler' = IF Form(u).kind = "text"
             THEN [handler EXCEPT ![u].step = "reply", ![u].answer = "error", ![u].noted = ok]
             ELSE [handler EXCEPT ![u].step = "permit", ![u].noted = ok]
        /\ Note("telegram", ok)
  BY DEF Notify
<1>2. /\ handler[u].step = "notify"
      /\ UNCHANGED <<phase, dispatching, queue, effects, tmpBucket, videoJobs>>
  BY DEF Notify, AtStep
<1>3. /\ ok \in BOOLEAN /\ broken \subseteq broken'
      /\ ~ok => "telegram" \in broken'
  BY <1>1, OutcomeNoted
<1> DEFINE h == IF Form(u).kind = "text"
                  THEN [handler[u] EXCEPT !.step = "reply", !.answer = "error", !.noted = ok]
                  ELSE [handler[u] EXCEPT !.step = "permit", !.noted = ok]
<1>4. Becomes(u, h)
  <2>1. handler \in [Updates -> Handler] /\ handler[u] \in Handler
    BY DEF HandlerType
  <2>2. h \in Handler
    BY <1>3, <2>1 DEF Handler, BotSteps, Answers
  <2>3. handler' = [handler EXCEPT ![u] = h]
    BY <1>1, <2>1
  <2> QED BY <2>1, <2>2, <2>3 DEF Becomes
<1>5. chat' \in [Updates -> Seq(Messages)] /\ chat'[u] = IF ok THEN <<"processing">> ELSE <<>>
  <2>1. <<"processing">> \in Seq(Messages) /\ <<>> \in Seq(Messages)
    BY DEF Messages
  <2> QED BY <1>1, <2>1 DEF HandlerType
<1>6. OnlyMoves(u)
  <2>1. HandlerType'
    BY <1>2, <1>4, <1>5 DEF HandlerType, Becomes
  <2>2. \A v \in Updates \ {u} : Leaves(v)
    BY <1>1, <1>2, <1>3, <1>4 DEF Leaves, Becomes, Has, HandlerType
  <2> QED BY <1>2, <1>4, <2>1, <2>2 DEF OnlyMoves, Becomes, BotSteps, Handler, HandlerType
<1>7. handler[u] \in Handler /\ UpdateInv(u)
  BY DEF HandlerType
<1>8. handler'[u].form = handler[u].form
  BY <1>4, <1>7 DEF Becomes, Handler
<1>9. UpdateInv(u)'
  <2> USE <1>2, <1>4, <1>7 DEF Becomes, UpdateInv, Handler
  <2>1. FormInv(u)'
    BY DEF FormInv, Form
  <2>2. PermitInv(u)'
    <3>1. \A code : Grants(u, code)' <=> Grants(u, code)
      BY <1>8, SameGrants
    <3> HIDE DEF Grants
    <3> QED BY <3>1 DEF PermitInv, Has
  <2>3. AnswerInv(u)'
    BY DEF AnswerInv, Final, Has
  <2>4. ChatInv(u)'
    BY <1>3, <1>5 DEF ChatInv, Final, Form
  <2>5. TmpInv(u)'
    BY <1>3 DEF TmpInv
  <2> QED BY <2>1, <2>2, <2>3, <2>4, <2>5
<1>10. KeepsForbidden(u)
  BY <1>2, <1>3, <1>4, <1>7, <1>8 DEF KeepsForbidden, Becomes, Handler, UpdateInv, AnswerInv, Final
<1> QED BY <1>6, <1>9, <1>10 DEF ActsOn

\* The temporary object of a handler has a type.
LEMMA UploadType ==
  ASSUME NEW u \in Updates, NEW d \in Tmp, NEW ok \in BOOLEAN
  PROVE  ResolveUpload(d, <<u>>, ok) \in Tmp
BY DEF Tmp, ResolveUpload, NeedsUpload, Located

\* The object in the bucket belongs to the handler that put it there.
LEMMA UploadActs ==
  ASSUME BotInv, NEW u \in Updates, Upload(u)
  PROVE  ActsOn(u)
<1> USE DEF BotInv
<1>1. PICK ok \in Call("put") :
        LET tmp == ResolveUpload(handler[u].tmp, <<u>>, ok) IN
        /\ tmpBucket' = tmpBucket \cup Deletes(tmp)
        /\ handler' = [handler EXCEPT
             ![u].tmp = tmp, ![u].step = IF Located(tmp) THEN "create" ELSE "close",
             ![u].answer = IF Located(tmp) THEN "none" ELSE "error"]
        /\ Note("put", ok)
  BY DEF Upload
<1> DEFINE tmp == ResolveUpload(handler[u].tmp, <<u>>, ok)
           h == [handler[u] EXCEPT !.tmp = tmp,
                  !.step = IF Located(tmp) THEN "create" ELSE "close",
                  !.answer = IF Located(tmp) THEN "none" ELSE "error"]
<1>2. /\ handler[u].step = "upload"
      /\ UNCHANGED <<phase, dispatching, queue, chat, effects, videoJobs>>
  BY DEF Upload, AtStep
<1>3. handler[u] \in Handler /\ UpdateInv(u)
  BY DEF HandlerType
<1>4. ok \in BOOLEAN /\ broken \subseteq broken'
  BY <1>1, <1>2, CallNoted
<1>5. /\ tmp \in Tmp /\ ~tmp.closed /\ tmp.path = IF ok THEN <<u>> ELSE NoPath
      /\ Deletes(tmp) \subseteq {<<u>>}
      /\ IF Located(tmp) THEN tmp.path = <<u>> ELSE Deletes(tmp) = {}
  <2>1. handler[u].tmp = FromLocal
    BY <1>2, <1>3 DEF UpdateInv, TmpInv
  <2>2. <<u>> # NoPath
    BY DEF NoPath
  <2>3. NeedsUpload(handler[u].tmp)
    BY <2>1 DEF NeedsUpload, Located, FromLocal
  <2>4. tmp = [FromLocal EXCEPT !.spent = TRUE, !.path = IF ok THEN <<u>> ELSE NoPath]
    BY <2>1, <2>3 DEF ResolveUpload
  <2>5. ~tmp.closed /\ tmp.path = IF ok THEN <<u>> ELSE NoPath
    BY <2>4 DEF FromLocal
  <2>6. tmp \in Tmp
    BY <1>3, <1>4, UploadType DEF Handler
  <2> HIDE DEF tmp
  <2> QED BY <1>4, <2>2, <2>5, <2>6 DEF Deletes, Located
<1> HIDE DEF tmp
<1>6. Becomes(u, h)
  <2>1. handler \in [Updates -> Handler] /\ handler[u] \in Handler
    BY DEF HandlerType
  <2>2. h \in Handler
    BY <1>5, <2>1 DEF Handler, BotSteps, Answers
  <2>3. handler' = [handler EXCEPT ![u] = h]
    BY <1>1, <2>1 DEF tmp
  <2> QED BY <2>1, <2>2, <2>3 DEF Becomes
<1>7. handler'[u].form = handler[u].form
  BY <1>3, <1>6 DEF Becomes, Handler
<1>8. OnlyMoves(u)
  <2>1. HandlerType'
    BY <1>2, <1>6 DEF HandlerType, Becomes
  <2>2. \A v \in Updates \ {u} : Leaves(v)
    BY <1>1, <1>2, <1>4, <1>5, <1>6 DEF Leaves, Becomes, Has, tmp
  <2> QED BY <1>2, <1>3, <1>6, <2>1, <2>2 DEF OnlyMoves, Becomes, Handler
<1>9. UpdateInv(u)'
  <2> USE <1>2, <1>3, <1>4, <1>6, <1>7 DEF Becomes, UpdateInv, Handler
  <2>1. FormInv(u)'
    BY DEF FormInv, Form
  <2>2. PermitInv(u)'
    <3>1. \A code : Grants(u, code)' <=> Grants(u, code)
      BY SameGrants
    <3> HIDE DEF Grants
    <3> QED BY <3>1 DEF PermitInv, Has
  <2>3. AnswerInv(u)'
    BY DEF AnswerInv, Final, Has, Faulty
  <2>4. ChatInv(u)'
    BY DEF ChatInv, Final, Form
  <2>5. TmpInv(u)'
    <3>1. tmpBucket' = tmpBucket \cup Deletes(tmp)
      BY <1>1 DEF tmp
    <3> QED BY <1>5, <3>1 DEF TmpInv
  <2> QED BY <2>1, <2>2, <2>3, <2>4, <2>5
<1>10. KeepsForbidden(u)
  BY <1>2, <1>3, <1>4, <1>6, <1>7
     DEF KeepsForbidden, Becomes, Handler, UpdateInv, AnswerInv, Final, Quiet
<1> QED BY <1>8, <1>9, <1>10 DEF ActsOn

\* The deferred QuietClose deletes it, or the deletion failed.
LEMMA CloseTmpActs ==
  ASSUME BotInv, NEW u \in Updates, CloseTmp(u)
  PROVE  ActsOn(u)
<1> USE DEF BotInv
<1>1. PICK ok \in Outcome("delete") :
        /\ tmpBucket' = IF ok THEN tmpBucket \ Deletes(handler[u].tmp) ELSE tmpBucket
        /\ handler' = [handler EXCEPT ![u].step = "reply", ![u].tmp = Close(@)]
        /\ Note("delete", ok)
  BY DEF CloseTmp
<1> DEFINE h == [handler[u] EXCEPT !.step = "reply", !.tmp = Close(@)]
<1>2. /\ handler[u].step = "close"
      /\ UNCHANGED <<phase, dispatching, queue, chat, effects, videoJobs>>
  BY DEF CloseTmp, AtStep
<1>3. handler[u] \in Handler /\ UpdateInv(u)
  BY DEF HandlerType
<1>4. ok \in BOOLEAN /\ broken \subseteq broken' /\ (~ok => "delete" \in broken')
  BY <1>1, OutcomeNoted
<1>5. Close(handler[u].tmp) \in Tmp
  BY <1>3 DEF Handler, Tmp, Close
<1>6. Becomes(u, h)
  <2>1. handler \in [Updates -> Handler] /\ handler[u] \in Handler
    BY DEF HandlerType
  <2>2. h \in Handler
    BY <1>5, <2>1 DEF Handler, BotSteps, Answers
  <2>3. handler' = [handler EXCEPT ![u] = h]
    BY <1>1, <2>1
  <2> QED BY <2>1, <2>2, <2>3 DEF Becomes
<1>7. handler'[u].form = handler[u].form
  BY <1>3, <1>6 DEF Becomes, Handler
<1>8. OnlyMoves(u)
  <2>1. HandlerType'
    BY <1>2, <1>6 DEF HandlerType, Becomes
  <2>2. \A v \in Updates \ {u} : Leaves(v)
    BY <1>1, <1>2, <1>4, <1>6 DEF Leaves, Becomes, Has
  <2> QED BY <1>2, <1>3, <1>6, <2>1, <2>2 DEF OnlyMoves, Becomes, Handler
<1>9. UpdateInv(u)'
  <2> USE <1>2, <1>3, <1>4, <1>6, <1>7 DEF Becomes, UpdateInv, Handler
  <2>1. FormInv(u)'
    BY DEF FormInv, Form
  <2>2. PermitInv(u)'
    <3>1. \A code : Grants(u, code)' <=> Grants(u, code)
      BY SameGrants
    <3> HIDE DEF Grants
    <3> QED BY <3>1 DEF PermitInv, Has
  <2>3. AnswerInv(u)'
    BY DEF AnswerInv, Final, Has, Faulty
  <2>4. ChatInv(u)'
    BY DEF ChatInv, Final, Form
  <2>5. TmpInv(u)'
    <3>1. <<u>> # NoPath
      BY DEF NoPath
    <3> QED BY <1>1, <3>1 DEF TmpInv, Deletes, Located
  <2> QED BY <2>1, <2>2, <2>3, <2>4, <2>5
<1>10. KeepsForbidden(u)
  BY <1>2, <1>3, <1>4, <1>6, <1>7
     DEF KeepsForbidden, Becomes, Handler, UpdateInv, AnswerInv, Final, Quiet
<1> QED BY <1>8, <1>9, <1>10 DEF ActsOn

\* A job of youtube-service is that of a message with a link.
LEMMA DownloadVideoAsyncActs ==
  ASSUME MaxIterations \in Nat, BotInv, NEW u \in Updates, DownloadVideoAsync(u)
  PROVE  ActsOn(u)
<1> USE DEF BotInv
<1>1. PICK ok \in Call("youtube") :
        /\ IF ok THEN GoTo(u, "poll") /\ videoJobs' = [videoJobs EXCEPT ![u] = Submitted]
           ELSE AnswerWith(u, "error") /\ UNCHANGED videoJobs
        /\ Note("youtube", ok)
  BY DEF DownloadVideoAsync
<1>2. /\ handler[u].step = "submit"
      /\ UNCHANGED <<phase, dispatching, queue, chat, effects, tmpBucket>>
  BY DEF DownloadVideoAsync, AtStep
<1>3. ok \in BOOLEAN /\ broken \subseteq broken'
  BY <1>1, <1>2, CallNoted
<1>4. CASE ~ok
  <2>1. Quiet
    BY <1>1, <1>2, <1>3, <1>4 DEF Quiet
  <2> QED BY <1>1, <1>2, <1>4, <2>1, AnswerActs
<1>5. CASE ok
  <2> DEFINE h == [handler[u] EXCEPT !.step = "poll"]
  <2>1. Becomes(u, h)
    BY <1>1, <1>5, GoMoves DEF BotSteps
  <2>2. handler[u] \in Handler /\ UpdateInv(u)
    BY DEF HandlerType
  <2>3. handler'[u].form = handler[u].form
    BY <2>1, <2>2 DEF Becomes, Handler
  <2>4. OnlyMoves(u)
    <3>1. videoJobs' \in [Updates -> DownloadState]
      <4>1. Submitted \in DownloadState
        BY DEF Submitted, DownloadState
      <4> QED BY <1>1, <1>5, <4>1 DEF HandlerType
    <3>2. HandlerType'
      BY <1>2, <2>1, <3>1 DEF HandlerType, Becomes
    <3>3. \A v \in Updates \ {u} : Leaves(v)
      BY <1>1, <1>2, <1>3, <1>5, <2>1 DEF Leaves, Becomes, Has, HandlerType
    <3> QED BY <1>2, <2>1, <2>2, <3>2, <3>3 DEF OnlyMoves, Becomes, Handler
  <2>5. UpdateInv(u)'
    <3> USE <1>1, <1>2, <1>3, <1>5, <2>1, <2>2, <2>3 DEF Becomes, UpdateInv, Handler
    <3>1. FormInv(u)'
      BY DEF FormInv, Form
    <3>2. PermitInv(u)'
      <4>1. \A code : Grants(u, code)' <=> Grants(u, code)
        BY SameGrants
      <4> HIDE DEF Grants
      <4> QED BY <4>1 DEF PermitInv, Has
    <3>3. AnswerInv(u)'
      BY DEF AnswerInv, Final, Has, Faulty
    <3>4. ChatInv(u)'
      BY DEF ChatInv, Final, Form
    <3>5. TmpInv(u)'
      BY DEF TmpInv
    <3> QED BY <3>1, <3>2, <3>3, <3>4, <3>5
  <2>6. KeepsForbidden(u)
    BY <1>2, <1>3, <2>1, <2>2, <2>3
       DEF KeepsForbidden, Becomes, Handler, UpdateInv, AnswerInv, Final
  <2> QED BY <2>4, <2>5, <2>6 DEF ActsOn
<1> QED BY <1>3, <1>4, <1>5

\* Its result is the temporary object of the meme.
LEMMA PollActs ==
  ASSUME BotInv, NEW u \in Updates, Poll(u)
  PROVE  ActsOn(u)
<1> USE DEF BotInv
<1>1. /\ handler[u].step = "poll"
      /\ UNCHANGED <<phase, dispatching, queue, chat, effects, tmpBucket, videoJobs>>
  BY DEF Poll, AtStep
<1>2. broken \subseteq broken'
  BY DEF Poll, Note
<1>3. Quiet
  BY <1>1, <1>2 DEF Quiet
<1>4. CASE AnswerWith(u, "error")
  BY <1>1, <1>3, <1>4, AnswerActs
<1>5. CASE handler' = [handler EXCEPT ![u].step = "create", ![u].tmp = FromPath(<<u>>)]
  <2> DEFINE d == FromPath(<<u>>)
             h == [handler[u] EXCEPT !.step = "create", !.tmp = d]
  <2>1. d \in Tmp /\ d.path = <<u>> /\ ~d.closed
    BY DEF Tmp, FromPath
  <2>2. handler \in [Updates -> Handler] /\ handler[u] \in Handler /\ UpdateInv(u)
    BY DEF HandlerType
  <2> HIDE DEF d
  <2>3. h \in Handler
    BY <2>1, <2>2 DEF Handler, BotSteps
  <2>4. handler' = [handler EXCEPT ![u] = h]
    BY <1>5, <2>2 DEF d
  <2>5. Becomes(u, h)
    BY <2>2, <2>3, <2>4 DEF Becomes
  <2>6. handler'[u].form = handler[u].form
    BY <2>2, <2>5 DEF Becomes, Handler
  <2>7. OnlyMoves(u)
    BY <1>1, <1>3, <2>2, <2>5, QuietMoves DEF Handler
  <2>8. UpdateInv(u)'
    <3> USE <1>1, <1>2, <2>1, <2>2, <2>5, <2>6 DEF Becomes, UpdateInv, Handler
    <3>1. FormInv(u)'
      BY DEF FormInv
    <3>2. PermitInv(u)'
      <4>1. \A code : Grants(u, code)' <=> Grants(u, code)
        BY SameGrants
      <4> HIDE DEF Grants
      <4> QED BY <4>1 DEF PermitInv, Has
    <3>3. AnswerInv(u)'
      BY DEF AnswerInv, Final, Has
    <3>4. ChatInv(u)'
      BY DEF ChatInv, Final
    <3>5. TmpInv(u)'
      BY DEF TmpInv
    <3> QED BY <3>1, <3>2, <3>3, <3>4, <3>5
  <2>9. KeepsForbidden(u)
    BY <1>1, <1>2, <2>2, <2>5, <2>6
       DEF KeepsForbidden, Becomes, Handler, UpdateInv, AnswerInv, Final
  <2> QED BY <2>7, <2>8, <2>9 DEF ActsOn
<1> QED BY <1>4, <1>5 DEF Poll

\* A meme is created for a user who may, and the answer says so or a call failed.
LEMMA CreateMemeActs ==
  ASSUME BotInv, NEW u \in Updates, CreateMeme(u)
  PROVE  ActsOn(u)
<1> USE DEF BotInv
<1>1. PICK call \in Calls, deleted \in Outcome("delete") :
       /\ effects' = IF call \in {"done", "unanswered"}
                       THEN effects \cup {<<u, "CREATE">>} ELSE effects
       /\ tmpBucket' = IF call = "unsent" \/ ~deleted THEN tmpBucket
                       ELSE tmpBucket \ Deletes(handler[u].tmp)
       /\ handler' = [handler EXCEPT
            ![u].step = IF Form(u).kind = "youtube" THEN "reply" ELSE "close",
            ![u].answer = IF call = "done" THEN "created" ELSE "error"]
       /\ broken' = broken \cup {k \in {"storage", "delete"} :
            IF k = "storage" THEN call # "done" /\ MayFail(k) ELSE ~deleted}
  BY DEF CreateMeme
<1> DEFINE h == [handler[u] EXCEPT !.step = IF Form(u).kind = "youtube" THEN "reply" ELSE "close",
                   !.answer = IF call = "done" THEN "created" ELSE "error"]
<1>2. /\ handler[u].step = "create"
      /\ UNCHANGED <<phase, dispatching, queue, chat, videoJobs>>
  BY DEF CreateMeme, AtStep
<1>3. handler[u] \in Handler /\ UpdateInv(u)
  BY DEF HandlerType
<1>4. /\ deleted \in BOOLEAN /\ broken \subseteq broken'
      /\ ~deleted => "delete" \in broken'
      /\ call # "done" => Faulty({"storage"})'
      /\ call \in {"done", "unsent", "refused", "unanswered"}
  <2>1. call # "done" => phase # "running" \/ MayFail("storage")
    BY DEF Calls
  <2> QED BY <1>1, <1>2, <2>1 DEF Faulty, Outcome, Calls
<1>5. Becomes(u, h)
  <2>1. handler \in [Updates -> Handler] /\ handler[u] \in Handler
    BY DEF HandlerType
  <2>2. h \in Handler
    BY <1>1, <2>1 DEF Handler, BotSteps, Answers
  <2>3. handler' = [handler EXCEPT ![u] = h]
    BY <1>1, <2>1
  <2> QED BY <2>1, <2>2, <2>3 DEF Becomes
<1>6. handler'[u].form = handler[u].form
  BY <1>3, <1>5 DEF Becomes, Handler
<1>7. OnlyMoves(u)
  <2>1. HandlerType'
    BY <1>1, <1>2, <1>5 DEF HandlerType, Becomes
  <2>2. \A v \in Updates \ {u} : Leaves(v)
    BY <1>1, <1>2, <1>4, <1>5 DEF Leaves, Becomes, Has
  <2> QED BY <1>2, <1>3, <1>5, <2>1, <2>2 DEF OnlyMoves, Becomes, Handler
<1>8. UpdateInv(u)'
  <2> USE <1>2, <1>3, <1>4, <1>5, <1>6 DEF Becomes, UpdateInv, Handler
  <2>1. FormInv(u)'
    BY DEF FormInv, Form
  <2>2. PermitInv(u)'
    <3>1. \A code : Grants(u, code)' <=> Grants(u, code)
      BY SameGrants
    <3> HIDE DEF Grants
    <3> QED BY <1>1, <3>1 DEF PermitInv, Has
  <2>3. AnswerInv(u)'
    BY <1>1 DEF AnswerInv, Final, Has, Faulty
  <2>4. ChatInv(u)'
    BY DEF ChatInv, Final, Form
  <2>5. TmpInv(u)'
    <3>1. <<u>> # NoPath
      BY DEF NoPath
    <3> QED BY <1>1, <3>1 DEF TmpInv, Deletes, Located, Form
  <2> QED BY <2>1, <2>2, <2>3, <2>4, <2>5
<1>9. KeepsForbidden(u)
  BY <1>2, <1>3, <1>4, <1>5, <1>6
     DEF KeepsForbidden, Becomes, Handler, UpdateInv, AnswerInv, Final, Quiet
<1> QED BY <1>7, <1>8, <1>9 DEF ActsOn

\* Choosing a result has the effect the permission was asked for.
LEMMA ChosenActs ==
  ASSUME BotInv, NEW u \in Updates, DeleteMeme(u) \/ StartRecomputeById(u)
  PROVE  ActsOn(u)
<1> USE DEF BotInv
<1> DEFINE query == Form(u).query
           effect == permissionCodes[query]
<1>1. /\ query \in {"delete", "recompute"} /\ effect \in {"DELETE", "UPDATE"}
      /\ Chosen(u, query, effect)
  BY DEF DeleteMeme, StartRecomputeById, Chosen, permissionCodes
<1>2. PICK call \in Calls :
       /\ effects' = IF call \in {"done", "unanswered"}
                       THEN effects \cup {<<u, effect>>} ELSE effects
       /\ Note("storage", call = "done")
  BY <1>1 DEF Chosen
<1> DEFINE h == [handler[u] EXCEPT !.step = "end"]
<1>3. /\ handler[u].step = "choose"
      /\ UNCHANGED <<phase, dispatching, queue, chat, tmpBucket, videoJobs>>
      /\ GoTo(u, "end")
  BY <1>1 DEF Chosen, AtStep
<1>4. handler[u] \in Handler /\ UpdateInv(u)
  BY DEF HandlerType
<1>5. broken \subseteq broken'
  BY <1>2 DEF Note
<1>6. Becomes(u, h)
  BY <1>3, GoMoves DEF BotSteps
<1>7. handler'[u].form = handler[u].form
  BY <1>4, <1>6 DEF Becomes, Handler
<1>8. Grants(u, effect)
  BY <1>1, <1>3, <1>4 DEF UpdateInv, PermitInv, Form
<1> HIDE DEF query, effect
<1>9. OnlyMoves(u)
  <2>1. HandlerType'
    BY <1>1, <1>2, <1>3, <1>6 DEF HandlerType, Becomes
  <2>2. \A v \in Updates \ {u} : Leaves(v)
    BY <1>2, <1>3, <1>5, <1>6 DEF Leaves, Becomes, Has
  <2> QED BY <1>3, <1>4, <1>6, <2>1, <2>2 DEF OnlyMoves, Becomes, Handler
<1>10. UpdateInv(u)'
  <2> USE <1>1, <1>3, <1>4, <1>5, <1>6, <1>7 DEF Becomes, UpdateInv, Handler
  <2>1. FormInv(u)'
    BY DEF FormInv, Form
  <2>2. PermitInv(u)'
    <3>1. \A code : Grants(u, code)' <=> Grants(u, code)
      BY SameGrants
    <3> HIDE DEF Grants
    <3> QED BY <1>2, <1>8, <3>1 DEF PermitInv, Has
  <2>3. AnswerInv(u)'
    BY <1>2 DEF AnswerInv, Final, Has, Faulty
  <2>4. ChatInv(u)'
    BY DEF ChatInv, Final, Form
  <2>5. TmpInv(u)'
    BY DEF TmpInv
  <2> QED BY <2>1, <2>2, <2>3, <2>4, <2>5
<1>11. KeepsForbidden(u)
  BY <1>3, <1>4, <1>5, <1>6, <1>7
     DEF KeepsForbidden, Becomes, Handler, UpdateInv, AnswerInv, Final, Quiet
<1> QED BY <1>9, <1>10, <1>11 DEF ActsOn

\* Choosing another result has none.
LEMMA ChosenNothingActs ==
  ASSUME BotInv, NEW u \in Updates, ChosenNothing(u)
  PROVE  ActsOn(u)
BY GoActs DEF ChosenNothing, AtStep, Quiet, BotSteps

\* The answer takes the place of the processing message.
LEMMA EditActs ==
  ASSUME BotInv, NEW u \in Updates, Edit(u)
  PROVE  ActsOn(u)
<1> USE DEF BotInv
<1>1. PICK ok \in IF handler[u].noted THEN Outcome("telegram") ELSE {FALSE} :
        /\ chat' = IF ok THEN [chat EXCEPT ![u] = <<handler[u].answer>>] ELSE chat
        /\ GoTo(u, IF ok THEN "end" ELSE "fallback")
        /\ Note("telegram", ok)
  BY DEF Edit
<1> DEFINE next == IF ok THEN "end" ELSE "fallback"
           h == [handler[u] EXCEPT !.step = next]
<1>2. /\ handler[u].step = "reply" /\ Form(u).kind \notin {"inline", "start"}
      /\ UNCHANGED <<phase, dispatching, queue, effects, tmpBucket, videoJobs>>
  BY DEF Edit, AtStep
<1>3. handler[u] \in Handler /\ UpdateInv(u)
  BY DEF HandlerType
<1>4. ok \in BOOLEAN /\ broken \subseteq broken' /\ next \in Final
  BY <1>1 DEF Outcome, Note, Final
<1>5. Becomes(u, h)
  BY <1>1, <1>4, GoMoves DEF BotSteps, Final
<1>6. handler'[u].form = handler[u].form
  BY <1>3, <1>5 DEF Becomes, Handler
<1>7. /\ chat' \in [Updates -> Seq(Messages)]
      /\ chat'[u] = IF ok THEN <<handler[u].answer>> ELSE chat[u]
  <2>1. handler[u].answer \in Messages /\ "error" \in Messages
    BY <1>3 DEF Messages, Handler, Answers
  <2>2. chat \in [Updates -> Seq(Messages)]
    BY DEF HandlerType
  <2> QED BY <1>1, <1>4, <2>1, <2>2
<1>8. OnlyMoves(u)
  <2>1. HandlerType'
    BY <1>2, <1>5, <1>7 DEF HandlerType, Becomes
  <2>2. \A v \in Updates \ {u} : Leaves(v)
    BY <1>1, <1>2, <1>4, <1>5 DEF Leaves, Becomes, Has, HandlerType
  <2> QED BY <1>2, <1>3, <1>4, <1>5, <2>1, <2>2 DEF OnlyMoves, Becomes, Handler, Final
<1>9. UpdateInv(u)'
  <2> USE <1>2, <1>3, <1>4, <1>5, <1>6 DEF Becomes, UpdateInv, Handler
  <2>1. FormInv(u)'
    BY DEF FormInv, Form
  <2>2. PermitInv(u)'
    <3>1. \A code : Grants(u, code)' <=> Grants(u, code)
      BY SameGrants
    <3> HIDE DEF Grants
    <3> QED BY <3>1 DEF PermitInv, Has
  <2>3. AnswerInv(u)'
    BY <1>1 DEF AnswerInv, Final, Has, Faulty
  <2>4. ChatInv(u)'
    <3>1. ~ok => MayFail("telegram") \/ ~handler[u].noted
      BY <1>1, <1>4 DEF Outcome
    <3>2. MayFail("telegram") /\ ~ok => "telegram" \in broken'
      BY <1>1 DEF Note
    <3>3. chat[u] \in Seq(Messages)
      BY DEF HandlerType
    <3>4. \A i \in DOMAIN chat'[u] :
            \/ chat'[u][i] = "processing"
            \/ chat'[u][i] = handler[u].answer
            \/ chat'[u][i] = "error" /\ "telegram" \in broken'
      BY <1>4, <1>7, <3>3 DEF ChatInv
    <3> QED BY <1>4, <1>7, <3>1, <3>2, <3>4 DEF ChatInv, Final, Form
  <2>5. TmpInv(u)'
    BY DEF TmpInv
  <2> QED BY <2>1, <2>2, <2>3, <2>4, <2>5
<1>10. KeepsForbidden(u)
  BY <1>2, <1>3, <1>4, <1>5, <1>6
     DEF KeepsForbidden, Becomes, Handler, UpdateInv, AnswerInv, Final, Quiet
<1> QED BY <1>8, <1>9, <1>10 DEF ActsOn

\* It is sent as a message of its own when Telegram rejected the edit.
LEMMA SendActs ==
  ASSUME BotInv, NEW u \in Updates, Send(u)
  PROVE  ActsOn(u)
<1> USE DEF BotInv
<1>1. PICK ok \in Outcome("telegram") :
        /\ chat' = IF ok THEN [chat EXCEPT ![u] = Append(@, handler[u].answer)] ELSE chat
        /\ GoTo(u, IF ok \/ handler[u].answer # "created" THEN "end" ELSE "apology")
        /\ Note("telegram", ok)
  BY DEF Send
<1> DEFINE next == IF ok \/ handler[u].answer # "created" THEN "end" ELSE "apology"
           h == [handler[u] EXCEPT !.step = next]
<1>2. /\ handler[u].step = "fallback"
      /\ UNCHANGED <<phase, dispatching, queue, effects, tmpBucket, videoJobs>>
  BY DEF Send, AtStep
<1>3. handler[u] \in Handler /\ UpdateInv(u)
  BY DEF HandlerType
<1>4. ok \in BOOLEAN /\ broken \subseteq broken' /\ next \in Final
  BY <1>1 DEF Outcome, Note, Final
<1>5. Becomes(u, h)
  BY <1>1, <1>4, GoMoves DEF BotSteps, Final
<1>6. handler'[u].form = handler[u].form
  BY <1>3, <1>5 DEF Becomes, Handler
<1>7. /\ chat' \in [Updates -> Seq(Messages)]
      /\ chat'[u] = IF ok THEN Append(chat[u], handler[u].answer) ELSE chat[u]
  <2>1. handler[u].answer \in Messages /\ "error" \in Messages
    BY <1>3 DEF Messages, Handler, Answers
  <2>2. chat \in [Updates -> Seq(Messages)]
    BY DEF HandlerType
  <2> QED BY <1>1, <1>4, <2>1, <2>2
<1>8. OnlyMoves(u)
  <2>1. HandlerType'
    BY <1>2, <1>5, <1>7 DEF HandlerType, Becomes
  <2>2. \A v \in Updates \ {u} : Leaves(v)
    BY <1>1, <1>2, <1>4, <1>5 DEF Leaves, Becomes, Has, HandlerType
  <2> QED BY <1>2, <1>3, <1>4, <1>5, <2>1, <2>2 DEF OnlyMoves, Becomes, Handler, Final
<1>9. UpdateInv(u)'
  <2> USE <1>2, <1>3, <1>4, <1>5, <1>6 DEF Becomes, UpdateInv, Handler
  <2>1. FormInv(u)'
    BY DEF FormInv, Form
  <2>2. PermitInv(u)'
    <3>1. \A code : Grants(u, code)' <=> Grants(u, code)
      BY SameGrants
    <3> HIDE DEF Grants
    <3> QED BY <3>1 DEF PermitInv, Has
  <2>3. AnswerInv(u)'
    BY <1>1 DEF AnswerInv, Final, Has, Faulty
  <2>4. ChatInv(u)'
    <3>1. ~ok => MayFail("telegram")
      BY <1>1, <1>4 DEF Outcome
    <3>2. MayFail("telegram") /\ ~ok => "telegram" \in broken'
      BY <1>1 DEF Note
    <3>3. chat[u] \in Seq(Messages)
      BY DEF HandlerType
    <3>4. \A i \in DOMAIN chat'[u] :
            \/ chat'[u][i] = "processing"
            \/ chat'[u][i] = handler[u].answer
            \/ chat'[u][i] = "error" /\ "telegram" \in broken'
      BY <1>4, <1>7, <3>3 DEF ChatInv
    <3> QED BY <1>4, <1>7, <3>1, <3>2, <3>4 DEF ChatInv, Final, Form
  <2>5. TmpInv(u)'
    BY DEF TmpInv
  <2> QED BY <2>1, <2>2, <2>3, <2>4, <2>5
<1>10. KeepsForbidden(u)
  BY <1>2, <1>3, <1>4, <1>5, <1>6
     DEF KeepsForbidden, Becomes, Handler, UpdateInv, AnswerInv, Final, Quiet
<1> QED BY <1>8, <1>9, <1>10 DEF ActsOn

\* The error is sent when Telegram rejected that too.
LEMMA SendCommonErrorActs ==
  ASSUME BotInv, NEW u \in Updates, SendCommonError(u)
  PROVE  ActsOn(u)
<1> USE DEF BotInv
<1>1. PICK ok \in Outcome("telegram") :
        /\ chat' = IF ok THEN [chat EXCEPT ![u] = Append(@, "error")] ELSE chat
        /\ GoTo(u, "end")
        /\ Note("telegram", ok)
  BY DEF SendCommonError
<1> DEFINE next == "end"
           h == [handler[u] EXCEPT !.step = next]
<1>2. /\ handler[u].step = "apology"
      /\ UNCHANGED <<phase, dispatching, queue, effects, tmpBucket, videoJobs>>
  BY DEF SendCommonError, AtStep
<1>3. handler[u] \in Handler /\ UpdateInv(u)
  BY DEF HandlerType
<1>4. ok \in BOOLEAN /\ broken \subseteq broken' /\ next \in Final
  BY <1>1 DEF Outcome, Note, Final
<1>5. Becomes(u, h)
  BY <1>1, <1>4, GoMoves DEF BotSteps, Final
<1>6. handler'[u].form = handler[u].form
  BY <1>3, <1>5 DEF Becomes, Handler
<1>7. /\ chat' \in [Updates -> Seq(Messages)]
      /\ chat'[u] = IF ok THEN Append(chat[u], "error") ELSE chat[u]
  <2>1. handler[u].answer \in Messages /\ "error" \in Messages
    BY <1>3 DEF Messages, Handler, Answers
  <2>2. chat \in [Updates -> Seq(Messages)]
    BY DEF HandlerType
  <2> QED BY <1>1, <1>4, <2>1, <2>2
<1>8. OnlyMoves(u)
  <2>1. HandlerType'
    BY <1>2, <1>5, <1>7 DEF HandlerType, Becomes
  <2>2. \A v \in Updates \ {u} : Leaves(v)
    BY <1>1, <1>2, <1>4, <1>5 DEF Leaves, Becomes, Has, HandlerType
  <2> QED BY <1>2, <1>3, <1>4, <1>5, <2>1, <2>2 DEF OnlyMoves, Becomes, Handler, Final
<1>9. UpdateInv(u)'
  <2> USE <1>2, <1>3, <1>4, <1>5, <1>6 DEF Becomes, UpdateInv, Handler
  <2>1. FormInv(u)'
    BY DEF FormInv, Form
  <2>2. PermitInv(u)'
    <3>1. \A code : Grants(u, code)' <=> Grants(u, code)
      BY SameGrants
    <3> HIDE DEF Grants
    <3> QED BY <3>1 DEF PermitInv, Has
  <2>3. AnswerInv(u)'
    BY <1>1 DEF AnswerInv, Final, Has, Faulty
  <2>4. ChatInv(u)'
    <3>1. ~ok => MayFail("telegram")
      BY <1>1, <1>4 DEF Outcome
    <3>2. MayFail("telegram") /\ ~ok => "telegram" \in broken'
      BY <1>1 DEF Note
    <3>3. chat[u] \in Seq(Messages)
      BY DEF HandlerType
    <3>4. \A i \in DOMAIN chat'[u] :
            \/ chat'[u][i] = "processing"
            \/ chat'[u][i] = handler[u].answer
            \/ chat'[u][i] = "error" /\ "telegram" \in broken'
      BY <1>4, <1>7, <3>3 DEF ChatInv
    <3> QED BY <1>4, <1>7, <3>1, <3>2, <3>4 DEF ChatInv, Final, Form
  <2>5. TmpInv(u)'
    BY DEF TmpInv
  <2> QED BY <2>1, <2>2, <2>3, <2>4, <2>5
<1>10. KeepsForbidden(u)
  BY <1>2, <1>3, <1>4, <1>5, <1>6
     DEF KeepsForbidden, Becomes, Handler, UpdateInv, AnswerInv, Final, Quiet
<1> QED BY <1>8, <1>9, <1>10 DEF ActsOn

\* The answer of an inline query and of /start.
LEMMA AnswerInlineActs ==
  ASSUME BotInv, NEW u \in Updates, AnswerInline(u)
  PROVE  ActsOn(u)
<1> USE DEF BotInv
<1>1. PICK ok \in Outcome("telegram") :
        /\ chat' = IF ok THEN [chat EXCEPT ![u] = <<handler[u].answer>>] ELSE chat
        /\ GoTo(u, "end")
        /\ Note("telegram", ok)
  BY DEF AnswerInline
<1> DEFINE next == "end"
           h == [handler[u] EXCEPT !.step = next]
<1>2. /\ handler[u].step = "reply" /\ Form(u).kind \in {"inline", "start"}
      /\ UNCHANGED <<phase, dispatching, queue, effects, tmpBucket, videoJobs>>
  BY DEF AnswerInline, AtStep
<1>3. handler[u] \in Handler /\ UpdateInv(u)
  BY DEF HandlerType
<1>4. ok \in BOOLEAN /\ broken \subseteq broken' /\ next \in Final
  BY <1>1 DEF Outcome, Note, Final
<1>5. Becomes(u, h)
  BY <1>1, <1>4, GoMoves DEF BotSteps, Final
<1>6. handler'[u].form = handler[u].form
  BY <1>3, <1>5 DEF Becomes, Handler
<1>7. /\ chat' \in [Updates -> Seq(Messages)]
      /\ chat'[u] = IF ok THEN <<handler[u].answer>> ELSE chat[u]
  <2>1. handler[u].answer \in Messages /\ "error" \in Messages
    BY <1>3 DEF Messages, Handler, Answers
  <2>2. chat \in [Updates -> Seq(Messages)]
    BY DEF HandlerType
  <2> QED BY <1>1, <1>4, <2>1, <2>2
<1>8. OnlyMoves(u)
  <2>1. HandlerType'
    BY <1>2, <1>5, <1>7 DEF HandlerType, Becomes
  <2>2. \A v \in Updates \ {u} : Leaves(v)
    BY <1>1, <1>2, <1>4, <1>5 DEF Leaves, Becomes, Has, HandlerType
  <2> QED BY <1>2, <1>3, <1>4, <1>5, <2>1, <2>2 DEF OnlyMoves, Becomes, Handler, Final
<1>9. UpdateInv(u)'
  <2> USE <1>2, <1>3, <1>4, <1>5, <1>6 DEF Becomes, UpdateInv, Handler
  <2>1. FormInv(u)'
    BY DEF FormInv, Form
  <2>2. PermitInv(u)'
    <3>1. \A code : Grants(u, code)' <=> Grants(u, code)
      BY SameGrants
    <3> HIDE DEF Grants
    <3> QED BY <3>1 DEF PermitInv, Has
  <2>3. AnswerInv(u)'
    BY <1>1 DEF AnswerInv, Final, Has, Faulty
  <2>4. ChatInv(u)'
    <3>1. ~ok => MayFail("telegram")
      BY <1>1, <1>4 DEF Outcome
    <3>2. MayFail("telegram") /\ ~ok => "telegram" \in broken'
      BY <1>1 DEF Note
    <3>3. chat[u] \in Seq(Messages)
      BY DEF HandlerType
    <3>4. \A i \in DOMAIN chat'[u] :
            \/ chat'[u][i] = "processing"
            \/ chat'[u][i] = handler[u].answer
            \/ chat'[u][i] = "error" /\ "telegram" \in broken'
      BY <1>4, <1>7, <3>3 DEF ChatInv
    <3> QED BY <1>4, <1>7, <3>1, <3>2, <3>4 DEF ChatInv, Final, Form
  <2>5. TmpInv(u)'
    BY DEF TmpInv
  <2> QED BY <2>1, <2>2, <2>3, <2>4, <2>5
<1>10. KeepsForbidden(u)
  BY <1>2, <1>3, <1>4, <1>5, <1>6
     DEF KeepsForbidden, Becomes, Handler, UpdateInv, AnswerInv, Final, Quiet
<1> QED BY <1>8, <1>9, <1>10 DEF ActsOn

\* /start lists what its user may do.
LEMMA HelpActs ==
  ASSUME RowsAreOrdered, BotInv, NEW u \in Updates, Help(u)
  PROVE  ActsOn(u)
<1> USE DEF BotInv
<1>1. PICK denied \in SUBSET Entries :
       /\ handler' = [handler EXCEPT ![u].step = "reply", ![u].answer = "help",
            ![u].listed = {e \in Entries :
               IsAllowed(Form(u).user, permissionForQuery(e), e \notin denied)}]
       /\ Note("auth", denied = {})
  BY DEF Help
<1> DEFINE listed == {e \in Entries :
                       IsAllowed(Form(u).user, permissionForQuery(e), e \notin denied)}
           h == [handler[u] EXCEPT !.step = "reply", !.answer = "help", !.listed = listed]
<1>2. /\ handler[u].step = "help"
      /\ UNCHANGED <<phase, dispatching, queue, chat, effects, tmpBucket, videoJobs>>
  BY DEF Help, AtStep
<1>3. handler[u] \in Handler /\ UpdateInv(u)
  BY DEF HandlerType
<1>4. broken \subseteq broken' /\ Quiet
  BY <1>1, <1>2 DEF Note, Quiet
<1>5. listed \subseteq Entries
  OBVIOUS
<1>6. \A e \in listed : e \in DOMAIN permissionCodes => Grants(u, permissionCodes[e])
  <2>1. SUFFICES ASSUME NEW e \in Entries, e \in DOMAIN permissionCodes,
                        IsAllowed(Form(u).user, permissionForQuery(e), e \notin denied)
                 PROVE  Grants(u, permissionCodes[e])
    OBVIOUS
  <2>2. permissionForQuery(e) = e
    BY <2>1 DEF Entries, permissionCodes, permissionForQuery
  <2> QED BY <2>1, <2>2, AllowedIsGranted
<1> HIDE DEF listed
<1>7. Becomes(u, h)
  <2>1. handler \in [Updates -> Handler] /\ handler[u] \in Handler
    BY DEF HandlerType
  <2>2. h \in Handler
    BY <1>5, <2>1 DEF Handler, BotSteps, Answers
  <2>3. handler' = [handler EXCEPT ![u] = h]
    BY <1>1, <2>1 DEF listed
  <2> QED BY <2>1, <2>2, <2>3 DEF Becomes
<1>8. handler'[u].form = handler[u].form
  BY <1>3, <1>7 DEF Becomes, Handler
<1>9. OnlyMoves(u)
  BY <1>2, <1>3, <1>4, <1>7, QuietMoves DEF Handler
<1>10. UpdateInv(u)'
  <2> USE <1>2, <1>3, <1>4, <1>7, <1>8 DEF Becomes, UpdateInv, Handler
  <2>1. FormInv(u)'
    BY DEF FormInv, Form
  <2>2. PermitInv(u)'
    <3>1. \A code : Grants(u, code)' <=> Grants(u, code)
      BY SameGrants
    <3> HIDE DEF Grants
    <3> QED BY <1>6, <3>1 DEF PermitInv, Has
  <2>3. AnswerInv(u)'
    BY DEF AnswerInv, Final, Has, Faulty
  <2>4. ChatInv(u)'
    BY DEF ChatInv, Final, Form
  <2>5. TmpInv(u)'
    BY DEF TmpInv
  <2> QED BY <2>1, <2>2, <2>3, <2>4, <2>5
<1>11. KeepsForbidden(u)
  BY <1>2, <1>3, <1>4, <1>7, <1>8
     DEF KeepsForbidden, Becomes, Handler, UpdateInv, AnswerInv, Final, Quiet
<1> QED BY <1>9, <1>10, <1>11 DEF ActsOn

\* What is asked for is in the table of codes, or needs no permission.
LEMMA PermissionType ==
  ASSUME NEW form
  PROVE  /\ Permission(form) \in DOMAIN permissionCodes \cup {"search", form.query}
         /\ form.kind \notin {"inline", "chosen"} => Permission(form) = "create"
         /\ form.kind \in {"inline", "chosen"} /\ form.query \in {"delete", "recompute"} =>
              Permission(form) = form.query
         /\ {"create", "delete", "recompute"} = DOMAIN permissionCodes
BY DEF Permission, permissionForQuery, permissionCodes

\* Whom auth-service lets through, and who is told "forbidden".
LEMMA InvokeActs ==
  ASSUME RowsAreOrdered, BotInv, NEW u \in Updates, InvokeWithPermission(u)
  PROVE  /\ OnlyMoves(u) /\ UpdateInv(u)'
         /\ AccountsLinkedOnce => ForbiddenInv(u)'
<1> USE DEF BotInv
<1> DEFINE form == Form(u)
           permission == Permission(form)
           next == CASE form.kind = "youtube" -> "submit"
                     [] form.kind = "inline" -> "query"
                     [] form.kind = "chosen" -> "choose"
                     [] OTHER -> "fetch"
<1>1. PICK ok \in Asks(permission) :
        /\ Note("auth", ok)
        /\ IF IsAllowed(form.user, permission, ok)
             THEN GoTo(u, next)
           ELSE IF form.kind = "chosen" THEN GoTo(u, "end") ELSE AnswerWith(u, "forbidden")
  BY DEF InvokeWithPermission
<1>2. /\ handler[u].step = "permit"
      /\ UNCHANGED <<phase, dispatching, queue, chat, effects, tmpBucket, videoJobs>>
  BY DEF InvokeWithPermission, AtStep
<1>3. handler[u] \in Handler /\ UpdateInv(u)
  BY DEF HandlerType
<1>4. /\ ok \in BOOLEAN /\ broken \subseteq broken'
      /\ ~ok => Faulty({"auth"})'
  BY <1>1, <1>2 DEF Asks, Call, Outcome, Note, Faulty
<1>5. Quiet
  BY <1>2, <1>4 DEF Quiet
<1>6. CASE IsAllowed(form.user, permission, ok)
  <2> DEFINE h == [handler[u] EXCEPT !.step = next]
  <2>1. next \in {"submit", "query", "choose", "fetch"}
    OBVIOUS
  <2>2. /\ next = "submit" <=> form.kind = "youtube"
        /\ next = "query" <=> form.kind = "inline"
        /\ next = "choose" <=> form.kind = "chosen"
    OBVIOUS
  <2>3. /\ next \in {"submit", "fetch"} => Grants(u, "CREATE")
        /\ next = "choose" /\ form.query \in {"delete", "recompute"} =>
             Grants(u, permissionCodes[form.query])
    <3>1. next \in {"submit", "fetch"} =>
            permission = "create" /\ permissionCodes["create"] = "CREATE"
      BY <2>2, PermissionType DEF permissionCodes
    <3>2. next = "choose" /\ form.query \in {"delete", "recompute"} =>
            permission = form.query
      BY <2>2, PermissionType
    <3>3. permission \in {"create", "delete", "recompute"} =>
            Grants(u, permissionCodes[permission])
      BY <1>6, AllowedIsGranted, PermissionType
    <3> HIDE DEF Grants, permission, next
    <3> QED BY <3>1, <3>2, <3>3
  <2> HIDE DEF next
  <2>4. Becomes(u, h)
    BY <1>1, <1>6, <2>1, GoMoves DEF BotSteps
  <2>5. handler'[u].form = handler[u].form
    BY <1>3, <2>4 DEF Becomes, Handler
  <2>6. OnlyMoves(u)
    BY <1>2, <1>3, <1>5, <2>1, <2>4, QuietMoves DEF Handler
  <2>7. UpdateInv(u)'
    <3> USE <1>2, <1>3, <1>4, <2>1, <2>4, <2>5 DEF Becomes, UpdateInv, Handler
    <3>1. FormInv(u)'
      BY <2>2 DEF FormInv, Form
    <3>2. PermitInv(u)'
      <4>1. \A code : Grants(u, code)' <=> Grants(u, code)
        BY SameGrants
      <4> HIDE DEF Grants
      <4> QED BY <2>3, <4>1 DEF PermitInv, Has, Form
    <3>3. AnswerInv(u)'
      BY DEF AnswerInv, Final, Has
    <3>4. ChatInv(u)'
      BY <2>2 DEF ChatInv, Final, Form
    <3>5. TmpInv(u)'
      BY DEF TmpInv
    <3> QED BY <3>1, <3>2, <3>3, <3>4, <3>5
  <2>8. ForbiddenInv(u)'
    BY <1>2, <1>3, <2>4 DEF ForbiddenInv, UpdateInv, AnswerInv, Becomes, Handler, Final
  <2> QED BY <2>6, <2>7, <2>8
<1>7. CASE ~IsAllowed(form.user, permission, ok)
  <2> DEFINE h == IF form.kind = "chosen" THEN [handler[u] EXCEPT !.step = "end"]
                  ELSE [handler[u] EXCEPT !.step = "reply", !.answer = "forbidden"]
  <2>1. Becomes(u, h)
    BY <1>1, <1>7, GoMoves, AnswerMoves DEF BotSteps, Answers
  <2>2. handler'[u].form = handler[u].form
    BY <1>3, <2>1 DEF Becomes, Handler
  <2>3. OnlyMoves(u)
    BY <1>2, <1>3, <1>5, <2>1, QuietMoves DEF Handler
  <2>4. UpdateInv(u)'
    <3> USE <1>2, <1>3, <1>4, <2>1, <2>2 DEF Becomes, UpdateInv, Handler
    <3>1. FormInv(u)'
      BY DEF FormInv, Form
    <3>2. PermitInv(u)'
      <4>1. \A code : Grants(u, code)' <=> Grants(u, code)
        BY SameGrants
      <4> HIDE DEF Grants
      <4> QED BY <4>1 DEF PermitInv, Has, Form
    <3>3. AnswerInv(u)'
      BY DEF AnswerInv, Final, Has
    <3>4. ChatInv(u)'
      BY DEF ChatInv, Final, Form
    <3>5. TmpInv(u)'
      BY DEF TmpInv
    <3> QED BY <3>1, <3>2, <3>3, <3>4, <3>5
  <2>5. ASSUME AccountsLinkedOnce PROVE ForbiddenInv(u)'
    <3>1. ok => ~Grants(u, permissionCodes[permission])
      BY <1>4, <1>7, <2>5, DeniedIsNotGranted
    <3>2. \A code : Grants(u, code)' <=> Grants(u, code)
      BY <2>2, SameGrants
    <3>3. Form(u)' = Form(u) /\ handler'[u].step \in Final
      BY <1>3, <2>1, <2>2 DEF Form, Becomes, Handler, Final
    <3> HIDE DEF Grants
    <3> QED BY <1>4, <3>1, <3>2, <3>3 DEF ForbiddenInv
  <2> QED BY <2>3, <2>4, <2>5
<1> QED BY <1>6, <1>7

-----------------------------------------------------------------------------
(* The webhook and what goes on beside the handlers *)

\* A form that comes in meets nothing done for its update yet.
LEMMA PostKeeps ==
  ASSUME BotInv, NEW u \in Updates, NEW form \in Forms[u], Post(u, form)
  PROVE  OnlyMoves(u) /\ UpdateInv(u)' /\ handler'[u].answer = "none"
<1> USE DEF BotInv
<1> DEFINE h == [handler[u] EXCEPT !.step = "posting", !.form = form]
<1>1. /\ handler[u].step = "new"
      /\ handler' = [handler EXCEPT ![u].step = "posting", ![u].form = form]
      /\ UNCHANGED <<phase, dispatching, queue, chat, effects, tmpBucket, videoJobs, broken>>
  BY DEF Post
<1>2. handler \in [Updates -> Handler] /\ handler[u] \in Handler /\ UpdateInv(u) /\ Quiet
  BY <1>1 DEF HandlerType, Quiet
<1>3. h \in Handler
  <2>1. form \in {Nobody} \cup UNION {Forms[w] : w \in Updates}
    OBVIOUS
  <2> QED BY <1>2, <2>1 DEF Handler, BotSteps
<1>4. Becomes(u, h)
  <2>1. handler' = [handler EXCEPT ![u] = h]
    BY <1>1, <1>2
  <2> QED BY <1>2, <1>3, <2>1 DEF Becomes
<1>5. OnlyMoves(u)
  BY <1>1, <1>2, <1>4, QuietMoves DEF Handler
<1>6. UpdateInv(u)'
  <2> USE <1>1, <1>2, <1>4 DEF Becomes, UpdateInv, Handler
  <2>1. FormInv(u)'
    BY DEF FormInv, Nobody
  <2>2. PermitInv(u)'
    <3> HIDE DEF Grants
    <3> QED BY DEF PermitInv, Has
  <2>3. AnswerInv(u)'
    BY DEF AnswerInv, Final, Has
  <2>4. ChatInv(u)'
    BY DEF ChatInv, Final
  <2>5. TmpInv(u)'
    BY DEF TmpInv, Nobody, FormInv
  <2> QED BY <2>1, <2>2, <2>3, <2>4, <2>5
<1>7. handler'[u].answer = "none"
  BY <1>1, <1>2, <1>4 DEF Becomes, Handler, UpdateInv, AnswerInv, Final
<1> QED BY <1>5, <1>6, <1>7

\* The steps of an update in the channel change nothing else of it.
LEMMA QueueStepKeeps ==
  ASSUME BotInv, NEW u \in Updates, NEW step \in BotSteps, GoTo(u, step),
         UNCHANGED <<phase, chat, effects, tmpBucket, videoJobs, broken>>,
         \/ handler[u].step = "posting" /\ step = "queued"
         \/ handler[u].step = "queued" /\ step = FirstStep(Form(u))
  PROVE  /\ HandlerType' /\ \A v \in Updates : UpdateInv(v)'
         /\ \A v \in Updates \ {u} : handler'[v] = handler[v] /\ Leaves(v)
         /\ handler'[u].step = step /\ handler'[u].answer = "none"
<1> USE DEF BotInv
<1> DEFINE h == [handler[u] EXCEPT !.step = step]
<1>1. Becomes(u, h)
  BY GoMoves
<1>2. handler[u] \in Handler /\ UpdateInv(u)
  BY DEF HandlerType
<1>3. handler'[u].form = handler[u].form /\ handler'[u].step = step
  BY <1>1, <1>2 DEF Becomes, Handler
<1>4. HandlerType'
  BY <1>1 DEF HandlerType, Becomes
<1>5. \A v \in Updates \ {u} : handler'[v] = handler[v] /\ Leaves(v)
  BY <1>1 DEF Leaves, Becomes, Has
<1>6. step \in {"queued", "help", "end", "permit", "notify"}
  BY DEF FirstStep
<1>7. handler[u].step = "queued" =>
        /\ step # "queued"
        /\ step = "help" => Form(u).kind = "start"
        /\ step = "end" => Form(u).kind = "ignored"
        /\ step = "permit" => Form(u).kind \in {"inline", "chosen"}
        /\ step = "notify" => Form(u).kind \notin {"inline", "chosen", "start", "ignored"}
  BY DEF FirstStep
<1>8. UpdateInv(u)'
  <2> USE <1>1, <1>2, <1>3, <1>6, <1>7 DEF Becomes, UpdateInv, Handler
  <2>1. FormInv(u)'
    BY DEF FormInv, Form
  <2>2. PermitInv(u)'
    <3>1. \A code : Grants(u, code)' <=> Grants(u, code)
      BY SameGrants
    <3> HIDE DEF Grants
    <3> QED BY <3>1 DEF PermitInv, Has
  <2>3. AnswerInv(u)'
    BY DEF AnswerInv, Final, Has
  <2>4. ChatInv(u)'
    BY DEF ChatInv, Final, Form
  <2>5. TmpInv(u)'
    BY DEF TmpInv
  <2> QED BY <2>1, <2>2, <2>3, <2>4, <2>5
<1>9. ASSUME NEW v \in Updates PROVE UpdateInv(v)'
  <2>1. CASE v = u
    BY <1>8, <2>1
  <2>2. CASE v # u
    BY <1>5, <2>2, LeavesUpdate
  <2> QED BY <2>1, <2>2
<1>10. handler'[u].answer = "none"
  BY <1>1, <1>2 DEF Becomes, Handler, UpdateInv, AnswerInv, Final
<1> QED BY <1>3, <1>4, <1>5, <1>9, <1>10

\* The update is in the channel once.
LEMMA EnqueueKeeps ==
  ASSUME BotInv, NEW u \in Updates, Enqueue(u)
  PROVE  BotInv'
<1> USE DEF BotInv
<1>1. /\ handler[u].step = "posting" /\ queue' = Append(queue, u) /\ GoTo(u, "queued")
      /\ UNCHANGED <<phase, dispatching, chat, effects, tmpBucket, videoJobs, broken>>
  BY DEF Enqueue, AtStep
<1>2. /\ HandlerType' /\ \A v \in Updates : UpdateInv(v)'
      /\ \A v \in Updates \ {u} : handler'[v] = handler[v]
      /\ handler'[u].step = "queued"
  BY <1>1, QueueStepKeeps DEF BotSteps
<1>3. QueueInv'
  <2> USE DEF QueueInv
  <2>1. \A i \in DOMAIN queue : queue[i] \in Updates \ {u}
    BY <1>1
  <2>2. /\ queue' \in Seq(Updates) /\ Len(queue') = Len(queue) + 1
        /\ \A i \in 1 .. Len(queue) : queue'[i] = queue[i]
        /\ queue'[Len(queue) + 1] = u
        /\ DOMAIN queue' = 1 .. (Len(queue) + 1) /\ DOMAIN queue = 1 .. Len(queue)
        /\ Len(queue) \in Nat
    BY <1>1
  <2>3. \A i \in DOMAIN queue' : handler'[queue'[i]].step = "queued"
    BY <1>2, <2>1, <2>2
  <2>4. \A i, j \in DOMAIN queue' : queue'[i] = queue'[j] => i = j
    BY <2>1, <2>2
  <2>5. \A v \in Updates : handler'[v].step = "queued" => \E i \in DOMAIN queue' : queue'[i] = v
    BY <1>2, <2>2
  <2> QED BY <2>2, <2>3, <2>4, <2>5
<1> QED BY <1>2, <1>3

\* The first of the channel leaves it.
LEMMA DispatchKeeps ==
  ASSUME BotInv, Dispatch
  PROVE  BotInv'
<1> USE DEF BotInv
<1> DEFINE u == Head(queue)
<1>1. /\ queue # <<>> /\ queue' = Tail(queue) /\ GoTo(u, FirstStep(Form(u)))
      /\ UNCHANGED <<phase, dispatching, chat, effects, tmpBucket, videoJobs, broken>>
  BY DEF Dispatch
<1>2. /\ queue \in Seq(Updates) /\ Len(queue) \in Nat \ {0} /\ u = queue[1]
      /\ DOMAIN queue = 1 .. Len(queue)
      /\ queue' \in Seq(Updates) /\ DOMAIN queue' = 1 .. (Len(queue) - 1)
      /\ \A i \in DOMAIN queue' : queue'[i] = queue[i + 1]
  BY <1>1 DEF QueueInv
<1>3. u \in Updates /\ handler[u].step = "queued"
  BY <1>2 DEF QueueInv
<1>4. FirstStep(Form(u)) \in BotSteps \ {"queued"}
  BY DEF FirstStep, BotSteps
<1> HIDE DEF u
<1>5. /\ HandlerType' /\ \A v \in Updates : UpdateInv(v)'
      /\ \A v \in Updates \ {u} : handler'[v] = handler[v]
      /\ handler'[u].step # "queued"
  BY <1>1, <1>3, <1>4, QueueStepKeeps
<1>6. QueueInv'
  <2> USE DEF QueueInv
  <2>1. \A i \in DOMAIN queue' : i + 1 \in DOMAIN queue /\ i + 1 # 1 /\ i \in Nat
    BY <1>2
  <2>2. \A i \in DOMAIN queue' : queue'[i] \in Updates \ {u}
    BY <1>2, <2>1
  <2>3. \A i \in DOMAIN queue' : handler'[queue'[i]].step = "queued"
    BY <1>2, <1>5, <2>1, <2>2
  <2>4. \A i, j \in DOMAIN queue' : queue'[i] = queue'[j] => i = j
    BY <1>2, <2>1
  <2>5. ASSUME NEW v \in Updates, handler'[v].step = "queued"
        PROVE  \E i \in DOMAIN queue' : queue'[i] = v
    <3>1. v # u /\ handler[v].step = "queued"
      BY <1>5, <2>5
    <3>2. PICK k \in DOMAIN queue : queue[k] = v
      BY <3>1
    <3>3. k - 1 \in DOMAIN queue' /\ queue'[k - 1] = v
      BY <1>2, <3>1, <3>2
    <3> QED BY <3>3
  <2> QED BY <1>2, <2>3, <2>4, <2>5
<1> QED BY <1>5, <1>6

\* A download stays a download.
LEMMA DownloadType ==
  ASSUME MaxIterations \in Nat, NEW d \in DownloadState, NEW e \in RunDownload(d)
  PROVE  e \in DownloadState
<1>1. Failed \in DownloadState /\ Done \in DownloadState
  BY DEF Failed, Done, DownloadState
<1>2. [d EXCEPT !.state = "progress"] \in DownloadState
  BY DEF DownloadState
<1>3. [d EXCEPT !.state = "file", !.polls = 0] \in DownloadState
  <2>1. 0 \in 0 .. MaxIterations
    OBVIOUS
  <2> QED BY <2>1 DEF DownloadState
<1>4. ~(d.polls >= MaxIterations) => [d EXCEPT !.polls = @ + 1] \in DownloadState
  <2>1. ~(d.polls >= MaxIterations) => d.polls + 1 \in 0 .. MaxIterations
    BY DEF DownloadState
  <2> QED BY <2>1 DEF DownloadState
<1>5. CASE d.state = "create"
  BY <1>1, <1>2, <1>5 DEF RunDownload, CreateJob
<1>6. CASE d.state = "progress"
  BY <1>1, <1>3, <1>4, <1>6 DEF RunDownload, PollProgress
<1>7. CASE d.state = "file"
  BY <1>1, <1>7 DEF RunDownload, DownloadFile
<1> QED BY <1>5, <1>6, <1>7 DEF RunDownload

\* What youtube-service does to a download.
LEMMA DownloadKeeps ==
  ASSUME MaxIterations \in Nat, BotInv, NEW u \in Updates, DownloadGoesOn(u) \/ JobForgotten(u)
  PROVE  BotInv' /\ \A v \in Updates : ForbiddenInv(v) => ForbiddenInv(v)'
<1> USE DEF BotInv
<1>1. UNCHANGED <<phase, dispatching, queue, handler, chat, effects, broken>>
  BY DEF DownloadGoesOn, JobForgotten
<1>2. PICK d \in DownloadState :
        /\ videoJobs[u] # NoDownload
        /\ videoJobs' = [videoJobs EXCEPT ![u] = d]
        /\ tmpBucket' \subseteq tmpBucket \cup {<<u>>}
  <2>1. videoJobs[u] \in DownloadState
    BY DEF HandlerType
  <2>2. CASE DownloadGoesOn(u)
    <3>1. PICK d \in RunDownload(videoJobs[u]) :
            /\ videoJobs' = [videoJobs EXCEPT ![u] = d]
            /\ tmpBucket' = IF d = Done THEN tmpBucket \cup {<<u>>} ELSE tmpBucket
      BY <2>2 DEF DownloadGoesOn
    <3>2. Failed \in DownloadState /\ Done \in DownloadState
      BY DEF Failed, Done, DownloadState
    <3>3. d \in DownloadState
      BY <2>1, <3>1, DownloadType
    <3>4. videoJobs[u] # NoDownload
      BY <3>1 DEF RunDownload, NoDownload
    <3> QED BY <3>1, <3>3, <3>4
  <2>3. CASE JobForgotten(u)
    <3>1. Gone \in DownloadState
      BY DEF Gone, DownloadState
    <3>2. videoJobs[u] # NoDownload
      BY <2>3 DEF JobForgotten, NoDownload, Done, Failed
    <3> QED BY <2>3, <3>1, <3>2 DEF JobForgotten
  <2> QED BY <2>2, <2>3
<1>3. HandlerType'
  BY <1>1, <1>2 DEF HandlerType
<1>4. QueueInv'
  BY <1>1 DEF QueueInv
<1>5. \A v \in Updates \ {u} : Leaves(v)
  BY <1>1, <1>2 DEF Leaves, Has, HandlerType
<1>6. UpdateInv(u)'
  <2> USE <1>1 DEF UpdateInv
  <2>1. FormInv(u) /\ PermitInv(u) /\ AnswerInv(u) /\ ChatInv(u) /\ TmpInv(u)
    OBVIOUS
  <2>2. handler[u].form.kind = "youtube"
    BY <1>2, <2>1 DEF FormInv
  <2>3. FormInv(u)'
    BY <2>1, <2>2 DEF FormInv
  <2>4. PermitInv(u)'
    BY <2>1 DEF PermitInv, Has, Grants, Form
  <2>5. AnswerInv(u)'
    BY <2>1 DEF AnswerInv, Has, Faulty
  <2>6. ChatInv(u)'
    BY <2>1 DEF ChatInv
  <2>7. TmpInv(u)'
    BY <2>1, <2>2 DEF TmpInv
  <2> QED BY <2>3, <2>4, <2>5, <2>6, <2>7
<1>7. ASSUME NEW v \in Updates PROVE UpdateInv(v)'
  <2>1. CASE v = u
    BY <1>6, <2>1
  <2>2. CASE v # u
    BY <1>5, <2>2, LeavesUpdate
  <2> QED BY <2>1, <2>2
<1>8. \A v \in Updates : ForbiddenInv(v) => ForbiddenInv(v)'
  BY <1>1 DEF ForbiddenInv, Grants, Form, Faulty
<1> QED BY <1>3, <1>4, <1>7, <1>8

\* The process stops.
LEMMA StopKeeps ==
  ASSUME BotInv, Stop \/ StopDispatching
  PROVE  BotInv' /\ \A v \in Updates : ForbiddenInv(v) => ForbiddenInv(v)'
<1> USE DEF BotInv
<1>1. /\ UNCHANGED <<queue, handler, chat, effects, tmpBucket, videoJobs, broken>>
      /\ phase' = phase \/ phase' \in {"stopping", "closed", "down"}
  BY DEF Stop, StopDispatching, HandlerType
<1>2. HandlerType' /\ QueueInv'
  BY <1>1 DEF HandlerType, QueueInv
<1>3. \A v \in Updates : Leaves(v)
  BY <1>1 DEF Leaves, Has
<1> QED BY <1>2, <1>3, LeavesUpdate, LeavesForbidden

-----------------------------------------------------------------------------
(* The invariant *)

\* Nothing has been posted.
LEMMA InitBot ==
  ASSUME BotInit, MaxIterations \in Nat
  PROVE  BotInv /\ \A u \in Updates : ForbiddenInv(u)
<1> DEFINE fresh == [step |-> "new", form |-> Nobody, noted |-> FALSE, tmp |-> FromLocal,
                     answer |-> "none", listed |-> {}]
<1>1. /\ handler = [u \in Updates |-> fresh] /\ phase = "running" /\ queue = <<>>
      /\ effects = {} /\ chat = [u \in Updates |-> <<>>] /\ tmpBucket = {}
      /\ videoJobs = [u \in Updates |-> NoDownload] /\ broken = {}
  BY DEF BotInit
<1>2. HandlerType
  <2>1. fresh \in Handler
    BY DEF Handler, BotSteps, Answers, Tmp, FromLocal
  <2>2. NoDownload \in DownloadState
    BY DEF NoDownload, DownloadState
  <2>3. <<>> \in Seq(Messages)
    OBVIOUS
  <2> QED BY <1>1, <2>1, <2>2, <2>3 DEF HandlerType
<1>3. QueueInv
  BY <1>1 DEF QueueInv
<1>4. ASSUME NEW u \in Updates PROVE UpdateInv(u) /\ ForbiddenInv(u)
  <2>1. FormInv(u)
    BY <1>1 DEF FormInv
  <2>2. PermitInv(u)
    BY <1>1 DEF PermitInv, Has
  <2>3. AnswerInv(u) /\ ForbiddenInv(u)
    BY <1>1 DEF AnswerInv, ForbiddenInv, Has, Final
  <2>4. ChatInv(u)
    BY <1>1 DEF ChatInv, Nobody
  <2>5. TmpInv(u)
    BY <1>1 DEF TmpInv
  <2> QED BY <2>1, <2>2, <2>3, <2>4, <2>5 DEF UpdateInv
<1> QED BY <1>2, <1>3, <1>4 DEF BotInv

\* What a handler does keeps the invariant, and nobody is told "forbidden" who may.
LEMMA HandleKeeps ==
  ASSUME RowsAreOrdered, MaxIterations \in Nat, BotInv, NEW u \in Updates, Handle(u)
  PROVE  /\ BotInv'
         /\ AccountsLinkedOnce /\ (\A v \in Updates : ForbiddenInv(v)) =>
              \A v \in Updates : ForbiddenInv(v)'
<1>1. CASE InvokeWithPermission(u)
  <2>1. OnlyMoves(u) /\ UpdateInv(u)' /\ (AccountsLinkedOnce => ForbiddenInv(u)')
    BY <1>1, InvokeActs
  <2>2. BotInv'
    BY <2>1, OneMoves
  <2>3. \A v \in Updates \ {u} : ForbiddenInv(v) => ForbiddenInv(v)'
    BY <2>1, LeavesForbidden DEF OnlyMoves
  <2> QED BY <2>1, <2>2, <2>3
<1>2. CASE ActsOn(u)
  <2>1. OnlyMoves(u) /\ UpdateInv(u)' /\ KeepsForbidden(u)
    BY <1>2 DEF ActsOn
  <2>2. BotInv'
    BY <2>1, OneMoves
  <2>3. \A v \in Updates \ {u} : ForbiddenInv(v) => ForbiddenInv(v)'
    BY <2>1, LeavesForbidden DEF OnlyMoves
  <2>4. ForbiddenInv(u) => ForbiddenInv(u)'
    <3>1. \A code : Grants(u, code)' <=> Grants(u, code)
      BY <2>1, SameGrants DEF KeepsForbidden
    <3>2. Faulty({"auth"}) => Faulty({"auth"})'
      BY <2>1 DEF Faulty, KeepsForbidden
    <3> HIDE DEF Grants
    <3> QED BY <2>1, <3>1, <3>2 DEF ForbiddenInv, KeepsForbidden, Form
  <2> QED BY <2>2, <2>3, <2>4
<1>3. CASE ProcessSearchQuery(u) \/ GetRandomMeme(u)
  <2>1. PICK ok \in Call("storage"), found \in BOOLEAN : Process(u, ok, found)
    BY <1>3 DEF ProcessSearchQuery, GetRandomMeme
  <2>2. ActsOn(u)
    BY <1>3, <2>1, ProcessActs DEF ProcessSearchQuery, GetRandomMeme, AtStep
  <2> QED BY <1>2, <2>2
<1> QED
  BY <1>1, <1>2, <1>3, NotifyActs, DownloadActs, UploadActs, CreateMemeActs, CloseTmpActs,
     DownloadVideoAsyncActs, PollActs, EditActs, SendActs, SendCommonErrorActs,
     AnswerInlineActs, HelpActs, ChosenActs, ChosenNothingActs
  DEF Handle

\* Every step keeps the invariant.
LEMMA NextKeeps ==
  ASSUME RowsAreOrdered, MaxIterations \in Nat, BotInv, [BotNext]_botVars
  PROVE  /\ BotInv'
         /\ AccountsLinkedOnce /\ (\A v \in Updates : ForbiddenInv(v)) =>
              \A v \in Updates : ForbiddenInv(v)'
<1>1. ASSUME NEW u \in Updates, NEW form \in Forms[u], Post(u, form)
      PROVE  /\ BotInv'
             /\ (\A v \in Updates : ForbiddenInv(v)) => \A v \in Updates : ForbiddenInv(v)'
  <2>1. OnlyMoves(u) /\ UpdateInv(u)' /\ handler'[u].answer = "none"
    BY <1>1, PostKeeps
  <2>2. BotInv'
    BY <2>1, OneMoves
  <2>3. \A v \in Updates \ {u} : ForbiddenInv(v) => ForbiddenInv(v)'
    BY <2>1, LeavesForbidden DEF OnlyMoves
  <2>4. ForbiddenInv(u)'
    BY <2>1 DEF ForbiddenInv
  <2> QED BY <2>2, <2>3, <2>4
<1>2. ASSUME NEW u \in Updates, Enqueue(u)
      PROVE  /\ BotInv'
             /\ (\A v \in Updates : ForbiddenInv(v)) => \A v \in Updates : ForbiddenInv(v)'
  <2>1. BotInv'
    BY <1>2, EnqueueKeeps
  <2>2. /\ handler'[u].answer = "none"
        /\ \A v \in Updates \ {u} : Leaves(v)
    BY <1>2, QueueStepKeeps DEF Enqueue, AtStep, BotSteps
  <2>3. ForbiddenInv(u)'
    BY <2>2 DEF ForbiddenInv
  <2> QED BY <2>1, <2>2, <2>3, LeavesForbidden
<1>3. CASE Dispatch
  <2>1. BotInv'
    BY <1>3, DispatchKeeps
  <2>2. PICK u : u = Head(queue)
    OBVIOUS
  <2>3. u \in Updates /\ handler[u].step = "queued"
    BY <1>3, <2>2 DEF Dispatch, BotInv, QueueInv
  <2>4. FirstStep(Form(u)) \in BotSteps
    BY DEF FirstStep, BotSteps
  <2>5. /\ handler'[u].answer = "none"
        /\ \A v \in Updates \ {u} : Leaves(v)
    BY <1>3, <2>2, <2>3, <2>4, QueueStepKeeps DEF Dispatch
  <2>6. ForbiddenInv(u)'
    BY <2>5 DEF ForbiddenInv
  <2> QED BY <2>1, <2>5, <2>6, LeavesForbidden
<1>4. CASE UNCHANGED botVars
  <2> USE <1>4 DEF botVars
  <2>1. \A v \in Updates : Leaves(v)
    BY DEF Leaves, Has
  <2>2. HandlerType' /\ QueueInv'
    BY DEF BotInv, HandlerType, QueueInv
  <2> QED BY <2>1, <2>2, LeavesUpdate, LeavesForbidden DEF BotInv
<1> QED
  BY <1>1, <1>2, <1>3, <1>4, HandleKeeps, DownloadKeeps, StopKeeps DEF BotNext, BotStep

\* BotInv holds.
LEMMA BotInvariant ==
  ASSUME RowsAreOrdered, MaxIterations \in Nat
  PROVE  BotSpec => []BotInv
<1>1. BotInit => BotInv
  BY InitBot
<1>2. BotInv /\ [BotNext]_botVars => BotInv'
  BY NextKeeps
<1> QED BY <1>1, <1>2, PTL DEF BotSpec

\* AccountsLinkedOnce makes every "forbidden" true.
LEMMA ForbiddenInvariant ==
  ASSUME RowsAreOrdered, AccountsLinkedOnce, MaxIterations \in Nat
  PROVE  BotSpec => [](\A u \in Updates : ForbiddenInv(u))
<1> DEFINE All == \A u \in Updates : ForbiddenInv(u)
<1>1. BotInit => All
  BY InitBot
<1>2. BotInv /\ All /\ [BotNext]_botVars => All'
  BY NextKeeps
<1> HIDE DEF All
<1>3. BotSpec => []All
  BY <1>1, <1>2, BotInvariant, PTL DEF BotSpec
<1> QED BY <1>3 DEF All

-----------------------------------------------------------------------------
(* What is promised *)

\* Every variable has its type; the channel holds at most QueueSize updates, and those
\* whose request it answered.
THEOREM TypesHold ==
  ASSUME RowsAreOrdered, BoundsAreNaturals
  PROVE  BotSpec => []BotTypeOK
<1> DEFINE Bounded == Len(queue) <= QueueSize /\ dispatching \in BOOLEAN
<1>1. BotInit => Bounded
  BY DEF BotInit, BoundsAreNaturals
<1>2. BotInv /\ Bounded /\ [BotNext]_botVars => Bounded'
  <2> SUFFICES ASSUME BotInv, Bounded, [BotNext]_botVars
               PROVE  Bounded'
    OBVIOUS
  <2>1. queue \in Seq(Updates) /\ QueueSize \in Nat
    BY DEF BotInv, QueueInv, BoundsAreNaturals
  <2>2. ASSUME NEW u \in Updates, Enqueue(u) PROVE Bounded'
    BY <2>1, <2>2 DEF Enqueue
  <2>3. CASE Dispatch
    BY <2>1, <2>3 DEF Dispatch
  <2>4. CASE Stop \/ StopDispatching
    BY <2>4 DEF Stop, StopDispatching
  <2>5. CASE UNCHANGED <<dispatching, queue>>
    BY <2>5
  <2>6. ASSUME NEW u \in Updates, Handle(u) \/ DownloadGoesOn(u) \/ JobForgotten(u)
        PROVE  UNCHANGED <<dispatching, queue>>
    BY <2>6 DEF Handle, InvokeWithPermission, Notify, Download, Upload, CreateMeme, CloseTmp,
       DownloadVideoAsync, Poll, Edit, Send, SendCommonError, AnswerInline, Help,
       ProcessSearchQuery, GetRandomMeme, DeleteMeme, StartRecomputeById, Chosen,
       ChosenNothing, DownloadGoesOn, JobForgotten
  <2>7. ASSUME NEW u \in Updates, NEW form \in Forms[u], Post(u, form)
        PROVE  UNCHANGED <<dispatching, queue>>
    BY <2>7 DEF Post
  <2> QED BY <2>2, <2>3, <2>4, <2>5, <2>6, <2>7 DEF BotNext, BotStep, botVars
<1>3. BotInv /\ Bounded => BotTypeOK
  <2> SUFFICES ASSUME BotInv, Bounded
               PROVE  BotTypeOK
    OBVIOUS
  <2>1. HandlerType /\ QueueInv /\ \A u \in Updates : FormInv(u)
    BY DEF BotInv, UpdateInv
  <2>2. Range(queue) \subseteq Updates
    BY <2>1 DEF QueueInv, Range
  <2>3. \A u \in Updates : (\E i \in DOMAIN queue : queue[i] = u) <=> handler[u].step = "queued"
    BY <2>1 DEF QueueInv
  <2> QED BY <2>1, <2>2, <2>3 DEF BotTypeOK, HandlerType, FormInv
<1> HIDE DEF Bounded
<1>4. BotSpec => []BotInv
  BY BotInvariant DEF BoundsAreNaturals
<1> QED BY <1>1, <1>2, <1>3, <1>4, PTL DEF BotSpec

\* storage-service does nothing for a user that the tables of auth-service do not permit,
\* and /start offers nothing else.
THEOREM BotDoesOnlyPermitted ==
  ASSUME RowsAreOrdered, BoundsAreNaturals
  PROVE  BotSpec => []OnlyPermitted
<1>1. BotInv => OnlyPermitted
  <2> SUFFICES ASSUME BotInv
               PROVE  OnlyPermitted
    OBVIOUS
  <2> HIDE DEF Grants
  <2>1. \A u \in Updates : PermitInv(u)
    BY DEF BotInv, UpdateInv
  <2>2. ASSUME NEW e \in effects PROVE Grants(e[1], e[2])
    <3>1. PICK u \in Updates, code \in {"CREATE", "DELETE", "UPDATE"} : e = <<u, code>>
      BY DEF BotInv, HandlerType
    <3>2. Grants(u, code)
      BY <2>1, <3>1 DEF PermitInv, Has
    <3> QED BY <3>1, <3>2
  <2>3. \A u \in Updates : \A e \in handler[u].listed :
          e \in DOMAIN permissionCodes => Grants(u, permissionCodes[e])
    BY <2>1 DEF PermitInv
  <2> QED BY <2>2, <2>3 DEF OnlyPermitted
<1>2. BotSpec => []BotInv
  BY BotInvariant DEF BoundsAreNaturals
<1> QED BY <1>1, <1>2, PTL

\* What the bot says in a chat is so, and it leaves no temporary object behind that it
\* could delete.
THEOREM BotTellsTruth ==
  ASSUME RowsAreOrdered, AccountsLinkedOnce, BoundsAreNaturals
  PROVE  BotSpec => []RepliesTellTruth
<1> DEFINE All == \A u \in Updates : ForbiddenInv(u)
<1>1. BotInv /\ All => RepliesTellTruth
  <2> SUFFICES ASSUME BotInv, All, NEW u \in Updates
               PROVE  LET said(what) == \E i \in DOMAIN chat[u] : chat[u][i] = what
                          message == Form(u).kind \in {"media", "document", "youtube", "text"}
                      IN /\ said("created") => <<u, "CREATE">> \in effects
                         /\ said("forbidden") =>
                              Faulty({"auth"}) \/ ~Grants(u, permissionCodes[Permission(Form(u))])
                         /\ said("error") /\ <<u, "CREATE">> \in effects =>
                              Faulty({"storage", "telegram"})
                         /\ handler[u].step = "end" /\ message /\ "telegram" \notin broken =>
                              chat[u] = <<handler[u].answer>>
                         /\ /\ handler[u].step = "end" /\ Form(u).kind # "youtube"
                            /\ <<u>> \in tmpBucket
                            => "delete" \in broken
    BY DEF RepliesTellTruth
  <2> DEFINE said(what) == \E i \in DOMAIN chat[u] : chat[u][i] = what
  <2>1. AnswerInv(u) /\ ChatInv(u) /\ TmpInv(u) /\ ForbiddenInv(u)
    BY DEF BotInv, UpdateInv
  <2>2. said("created") => <<u, "CREATE">> \in effects
    BY <2>1 DEF AnswerInv, ChatInv, Has
  <2>3. said("forbidden") =>
          Faulty({"auth"}) \/ ~Grants(u, permissionCodes[Permission(Form(u))])
    <3> HIDE DEF Grants
    <3> QED BY <2>1 DEF ForbiddenInv, ChatInv
  <2>4. said("error") /\ <<u, "CREATE">> \in effects => Faulty({"storage", "telegram"})
    BY <2>1 DEF AnswerInv, ChatInv, Has, Faulty
  <2>5. /\ handler[u].step = "end" /\ Form(u).kind \in {"media", "document", "youtube", "text"}
        /\ "telegram" \notin broken
        => chat[u] = <<handler[u].answer>>
    BY <2>1 DEF ChatInv, Form
  <2>6. handler[u].step = "end" /\ Form(u).kind # "youtube" /\ <<u>> \in tmpBucket =>
          "delete" \in broken
    BY <2>1 DEF TmpInv, Form
  <2> QED BY <2>2, <2>3, <2>4, <2>5, <2>6
<1>2. BotSpec => []BotInv
  BY BotInvariant DEF BoundsAreNaturals
<1>3. BotSpec => []All
  BY ForbiddenInvariant DEF BoundsAreNaturals
<1> HIDE DEF All
<1> QED BY <1>1, <1>2, <1>3, PTL
=============================================================================
