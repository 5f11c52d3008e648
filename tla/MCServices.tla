------------------------------- MODULE MCServices ------------------------------
(* Four machines that share no state, one of them in each behaviour: the    *)
(* extract pipeline, the Telegram bot, the index migrations and the web     *)
(* page.                                                                    *)
EXTENDS IndexMigrator, TelegramBot, VideoExtract, WebApp, TLC

VARIABLE which  \* the machine that runs

Update(kind, user, query) == [kind |-> kind, user |-> user, query |-> query]

TwoUpdates == {1, 2}
TheirForms ==
  1 :> {Update("media", "editor", "search"), Update("document", "guest", "search"),
        Update("document", "editor", "search"), Update("youtube", "editor", "search"),
        Update("text", "guest", "search"), Update("start", "editor", "search"),
        Update("inline", "guest", "recompute"), Update("inline", "guest", "random"),
        Update("chosen", "editor", "recompute"), Update("chosen", "phone", "delete")}
  @@ 2 :> {Update("ignored", "guest", "search"), Update("inline", "reader", "recompute")}
\* The editor has two Telegram accounts, the guest none that is known.
Links == <<[user |-> "anna", ids |-> {"editor", "phone"}], [user |-> "ben", ids |-> {"reader"}]>>
Codes == [anna |-> {"CREATE", "DELETE"}, ben |-> {}]

TwoQueries == {"all", "some"}
\* The first lists memes by creation, the second by how well their text matches.
TheirRankings == [all |-> {<<1, 2, 3>>}, some |-> {<<1, 0, 2>>, <<2, 0, 1>>, <<1, 0, 0>>}]

\* A document as first written, and one the new version saved before 0005.
First == [v1 |-> TRUE, images |-> 0, typed |-> FALSE]
FirstContents == {First, [v1 |-> FALSE, images |-> 1, typed |-> FALSE]}

MachineInit == MigratorInit /\ ExtractInit /\ BotInit /\ WebInit

\* The index begins in one state where it is not what runs.
ServicesInit ==
  /\ which \in {"extract", "bot", "migrate", "web"}
  /\ MachineInit /\ ~historyIndex
  /\ which # "migrate" => \A d \in Docs : content[d] = First

Vars == <<which, migratorVars, extractVars, botVars, webVars>>

ServicesNext ==
  \/ which = "extract" /\ ExtractNext /\ UNCHANGED <<which, migratorVars, botVars, webVars>>
  \/ which = "bot" /\ BotNext /\ UNCHANGED <<which, migratorVars, extractVars, webVars>>
  \/ which = "migrate" /\ MigratorNext /\ UNCHANGED <<which, extractVars, botVars, webVars>>
  \/ which = "web" /\ WebNext /\ UNCHANGED <<which, migratorVars, extractVars, botVars>>

\* The fairness of each machine.
ServicesStep ==
  \/ which = "extract" /\ ExtractStep /\ UNCHANGED <<which, migratorVars, botVars, webVars>>
  \/ which = "bot" /\ BotStep /\ UNCHANGED <<which, migratorVars, extractVars, webVars>>
  \/ which = "web" /\ WebStep /\ UNCHANGED <<which, migratorVars, extractVars, botVars>>

FfmpegStep ==
  /\ which = "extract" /\ UNCHANGED <<which, migratorVars, botVars, webVars>>
  /\ ExpireRest \/ \E j \in Job : JobEnds(j)

Services == ServicesInit /\ [][ServicesNext]_Vars /\ WF_Vars(ServicesStep) /\ WF_Vars(FfmpegStep)

-----------------------------------------------------------------------------
\* Every variable of every machine has its type.
TypesOK == MigratorTypeOK /\ ExtractTypeOK /\ BotTypeOK /\ WebTypeOK

=============================================================================
