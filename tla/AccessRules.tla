---------------------------- MODULE AccessRules -----------------------------
(***************************************************************************)
(* Who may see and do what: the roles, their permissions and their reach,  *)
(* as rules/rbac.ts of the domain package states them.  Pure operators; a  *)
(* principal is a record of an id, a role, the areas a manager manages and *)
(* the people who report to them.                                          *)
(***************************************************************************)

Roles == {"ADMIN", "DIRECTOR", "MANAGER", "MEMBER", "AUDITOR"}

MemberPermissions ==
  {"MEETING_READ", "MEETING_READ_TRANSCRIPT",
   "ACTION_ITEM_READ", "ACTION_ITEM_CREATE", "ACTION_ITEM_UPDATE"}

ManagerPermissions ==
  MemberPermissions \cup
  {"ACTION_ITEM_REASSIGN", "ACTION_ITEM_APPROVE_COMPLETION", "ACTION_ITEM_CANCEL",
   "AI_REVIEW_RESOLVE", "REPORT_AREA"}

DirectorPermissions ==
  ManagerPermissions \cup
  {"MEETING_REPROCESS", "MEETING_EXCLUDE", "MEETING_SET_CONFIDENTIALITY", "REPORT_GLOBAL",
   "DIGEST_GENERATE", "DIGEST_SEND", "SHEETS_SYNC", "AUDIT_READ"}

Permissions ==
  [r \in Roles |->
     CASE r = "MEMBER" -> MemberPermissions
       [] r = "MANAGER" -> ManagerPermissions
       [] r = "DIRECTOR" -> DirectorPermissions
       [] r = "ADMIN" -> DirectorPermissions \cup
            {"INTEGRATION_MANAGE", "USER_MANAGE", "CATALOG_MANAGE", "CONFIG_MANAGE"}
       [] r = "AUDITOR" ->
            {"MEETING_READ", "ACTION_ITEM_READ", "REPORT_GLOBAL", "REPORT_AREA", "AUDIT_READ"}]

HasPermission(p, permission) == permission \in Permissions[p.role]

HasGlobalScope(p) == p.role \in {"ADMIN", "DIRECTOR", "AUDITOR"}

(* canAccessActionItem: one's own tasks and those one collaborates in; a    *)
(* manager's areas and team besides.                                        *)
CanAccessActionItem(p, item) ==
  /\ HasPermission(p, "ACTION_ITEM_READ")
  /\ \/ HasGlobalScope(p)
     \/ item.owner = p.id
     \/ p.id \in item.collaborators
     \/ p.role = "MANAGER" /\ (item.area \in p.areas \/ item.owner \in p.team)

CanUpdateActionItem(p, item) ==
  HasPermission(p, "ACTION_ITEM_UPDATE") /\ CanAccessActionItem(p, item)

CanApproveCompletion(p, item) ==
  HasPermission(p, "ACTION_ITEM_APPROVE_COMPLETION") /\ CanAccessActionItem(p, item)
=============================================================================
