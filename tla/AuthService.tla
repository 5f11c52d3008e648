------------------------------ MODULE AuthService ------------------------------
(****************************************************************************)
(* auth-service: who a Telegram account belongs to and what that user may   *)
(* do.  No code writes the tables, so every answer is a function of them.   *)
(****************************************************************************)
EXTENDS FiniteSets, FiniteSetsExt

CONSTANTS
  TelegramLinks,   \* integration_telegram by id: the user and the TelegramIds of each row
  UserPermissions  \* users, and the permission codes of each

NotFoundResult == [status |-> "notFound", permissions |-> {}]

\* A user that is gone by now is an error, which Authorize does not take for "not found".
ErrorResult == [status |-> "error", permissions |-> {}]

GetPermissionCodes(user) == UserPermissions[user]

ResultForUser(user) ==
  IF user \notin DOMAIN UserPermissions THEN ErrorResult
  ELSE [status |-> "ok", permissions |-> GetPermissionCodes(user)]

\* The first row, by id, that has the Telegram id among its own.
FindByTelegramId(id) == {i \in DOMAIN TelegramLinks : id \in TelegramLinks[i].ids}

\* A Telegram id without a row is anonymous.
AuthorizeTelegram(id) ==
  LET rows == FindByTelegramId(id)
  IN IF rows = {} THEN NotFoundResult ELSE ResultForUser(TelegramLinks[Min(rows)].user)

HasPermission(result, code) == result.status = "ok" /\ code \in result.permissions

=============================================================================
