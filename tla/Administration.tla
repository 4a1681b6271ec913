--------------------------- MODULE Administration ---------------------------
(***************************************************************************)
(* The settings of the platform, its users, areas and projects, and the    *)
(* screens of their administrators (use-cases/admin/commands.ts, pages     *)
(* administracion and configuracion).                                      *)
(*                                                                         *)
(* Who is listened to is kept twice: as a flag of every user, which the    *)
(* jobs go by, and as a list of the settings, which the form shows.  A     *)
(* screen saves all it shows, as it was when it was rendered, and a user's *)
(* save writes the settings back as they were before its transaction.      *)
(***************************************************************************)
EXTENDS FiniteSets, Naturals

CONSTANTS
  Admins,      \* people with an administrator's screen
  People,      \* users
  Options,     \* the settings other than who is listened to
  Words,       \* names of areas and projects
  Loose,       \* the spelling that names are compared by
  AreaIds, ProjectIds,
  MaxSaves,    \* bound: requests saving
  Empty        \* null: not there

FormKinds == {"settings", "user", "area", "project"}

ASSUME AdministrationAssumption ==
  /\ Loose \in [Words -> Words] /\ MaxSaves \in Nat
  /\ Empty \notin Words \cup AreaIds \cup ProjectIds \cup People \cup FormKinds
  /\ Options # {} /\ Words # {} /\ AreaIds # {} /\ ProjectIds # {}

VARIABLES
  platform,    \* the settings
  people,
  areas, projects,
  aliases,     \* normalised name -> project
  pages,       \* what each screen was rendered with
  editing,     \* the form open on it
  saving,      \* its request
  writes,      \* how often the platform, the areas were written
  meant,       \* what was last entered for every field (history)
  crossed      \* where something was written over an older reading (history)

stored == <<platform, people, areas, projects, aliases>>
history == <<writes, meant, crossed>>
adminVars == <<stored, pages, editing, saving, history>>

Platform == [value: Options, heard: SUBSET People]
Person == [role: {"MEMBER", "MANAGER"}, heard: BOOLEAN]
Registers == {"platform", "areas"}
Counts == [Registers -> Nat]
(* What a form of each kind is about, and the body it sends.                *)
IdsOf(kind) ==
  CASE kind = "settings" -> {Empty}
    [] kind = "user" -> People
    [] kind = "area" -> AreaIds
    [] kind = "project" -> ProjectIds

BodyOf(kind) ==
  CASE kind = "settings" -> Platform
    [] kind = "user" -> Person
    [] kind = "area" -> Words
    [] kind = "project" -> [name: Words, aliases: SUBSET Words]

Reading ==
  [platform |-> platform, people |-> people, areas |-> areas, projects |-> projects,
   aliases |-> aliases, at |-> writes, refreshing |-> FALSE]

Closed == [kind |-> Empty]
Idle == [stage |-> "none"]

FormsOf(kind) ==
  [kind: {kind}, id: IdsOf(kind), shown: BodyOf(kind), body: BodyOf(kind), at: Counts]
AdminForm == FormsOf("settings") \cup FormsOf("user") \cup FormsOf("area") \cup FormsOf("project")

AdminRequest ==
  [stage: {"sent", "read", "done", "refused"}, form: AdminForm, got: Platform \cup {Empty},
   at: Counts]

AdminPage ==
  [platform: Platform, people: [People -> Person], areas: [AreaIds -> Words \cup {Empty}],
   projects: [ProjectIds -> Words \cup {Empty}], aliases: [Words -> ProjectIds \cup {Empty}],
   at: Counts, refreshing: BOOLEAN]

AdminTypeOK ==
  /\ Reading \in AdminPage
  /\ pages \in [Admins -> AdminPage]
  /\ editing \in [Admins -> AdminForm \cup {Closed}]
  /\ saving \in [Admins -> AdminRequest \cup {Idle}]
  /\ \A a \in Admins :
       saving[a].stage = "read" /\ saving[a].form.kind \in {"settings", "user"} =>
         saving[a].got \in Platform
  /\ meant \in [platform: Platform, roles: [People -> {"MEMBER", "MANAGER"}]]
  /\ crossed \subseteq Registers

(* The list and the flags agree, as the seed leaves them.                   *)
AdminInit ==
  /\ platform = [value |-> CHOOSE v \in Options : TRUE, heard |-> {}]
  /\ people = [u \in People |-> [role |-> "MEMBER", heard |-> FALSE]]
  /\ LET a == CHOOSE b \in AreaIds : TRUE IN
       \E w \in Words : areas = [b \in AreaIds |-> IF b = a THEN w ELSE Empty]
  /\ LET p == CHOOSE q \in ProjectIds : TRUE
         w == CHOOSE v \in Words : TRUE IN
       /\ projects = [q \in ProjectIds |-> IF q = p THEN w ELSE Empty]
       /\ aliases = [n \in Words |-> IF n = Loose[w] THEN p ELSE Empty]
  /\ writes = [r \in Registers |-> 0]
  /\ pages = [a \in Admins |-> Reading]
  /\ editing = [a \in Admins |-> Closed]
  /\ saving = [a \in Admins |-> Idle]
  /\ meant = [platform |-> platform, roles |-> [u \in People |-> people[u].role]]
  /\ crossed = {}

----------------------------------------------------------------------------
(* The screens.                                                             *)

OpenWith(a, kind, id, body) ==
  /\ editing[a] = Closed
  /\ editing' = [editing EXCEPT ![a] =
       [kind |-> kind, id |-> id, shown |-> body, body |-> body, at |-> pages[a].at]]
  /\ UNCHANGED <<stored, pages, saving, history>>

(* The form of the settings is always there; that it is opened says that    *)
(* somebody turns to it.                                                    *)
OpenSettings(a) == OpenWith(a, "settings", Empty, pages[a].platform)

(* The others are dialogs, opened for a row of the page.                    *)
OpenUser(a, u) == OpenWith(a, "user", u, pages[a].people[u])

(* That of a new area or project starts empty, and asks for a name before   *)
(* it can be sent.                                                          *)
OpenArea(a, k) ==
  \E w \in IF pages[a].areas[k] # Empty THEN {pages[a].areas[k]} ELSE Words :
    OpenWith(a, "area", k, w)

OpenProject(a, p) ==
  IF pages[a].projects[p] # Empty
  THEN OpenWith(a, "project", p, [name |-> pages[a].projects[p],
                                  aliases |-> {n \in Words : pages[a].aliases[n] = p}])
  ELSE \E w \in Words : OpenWith(a, "project", p, [name |-> w, aliases |-> {}])

(* Bound: one field is changed of a form that was not changed yet.          *)
ChangeTo(a, kind, body) ==
  /\ editing[a].kind = kind /\ editing[a].body = editing[a].shown
  /\ body # editing[a].body
  /\ editing' = [editing EXCEPT ![a].body = body]
  /\ UNCHANGED <<stored, pages, saving, history>>

ChangeOneField(a, kind) ==
  /\ editing[a].kind = kind
  /\ \E f \in DOMAIN editing[a].body, body \in BodyOf(kind) :
       ChangeTo(a, kind, [editing[a].body EXCEPT ![f] = body[f]])

ChangeSettings(a) == ChangeOneField(a, "settings")
ChangeUser(a) == ChangeOneField(a, "user")
ChangeArea(a) == \E w \in Words : ChangeTo(a, "area", w)
ChangeProject(a) == ChangeOneField(a, "project")

CloseForm(a) ==
  /\ editing[a] # Closed
  /\ editing' = [editing EXCEPT ![a] = Closed]
  /\ UNCHANGED <<stored, pages, saving, history>>

(* A screen is rendered: after a save, under the dialog that may be open by *)
(* then, or because the page is visited.  The form of the settings starts   *)
(* over with every render.                                                  *)
RenderPage(a) ==
  /\ pages[a] # Reading
  /\ pages' = [pages EXCEPT ![a] = Reading]
  /\ editing' = [editing EXCEPT ![a] =
       IF pages[a].refreshing /\ @.kind # "settings" THEN @ ELSE Closed]
  /\ UNCHANGED <<stored, saving, history>>

(* The settings are sent if they differ from the page, a dialog as it is.   *)
SendForm(a) ==
  /\ editing[a] # Closed /\ saving[a] = Idle
  /\ editing[a].kind = "settings" => editing[a].body # pages[a].platform
  /\ Cardinality({b \in Admins : saving[b] # Idle})
       + writes["platform"] + writes["areas"] < MaxSaves
  /\ saving' = [saving EXCEPT ![a] =
       [stage |-> "sent", form |-> editing[a], got |-> Empty, at |-> writes]]
  /\ UNCHANGED <<stored, pages, editing, history>>

----------------------------------------------------------------------------
(* The API.                                                                 *)

Stage(a, stage) == saving' = [saving EXCEPT ![a].stage = stage]

(* Getting the settings comes before the transaction of either save.        *)
ReadPlatform(a) ==
  /\ saving[a].stage = "sent" /\ saving[a].form.kind \in {"settings", "user"}
  /\ saving' = [saving EXCEPT ![a].stage = "read", ![a].got = platform, ![a].at = writes]
  /\ UNCHANGED <<stored, pages, editing, history>>

Wrote(register) == writes' = [writes EXCEPT ![register] = @ + 1]

(* History: was what a save rests on the latest when it was written?        *)
CrossedBy(a, register) ==
  crossed' = crossed \cup
    {r \in {register} : saving[a].form.at[r] # writes[r] \/ saving[a].at[r] # writes[r]}

(* updateUser.  The dialog sends who is listened to whether it was changed  *)
(* or not, so the settings are written every time.                          *)
UpdateUser(a) ==
  LET u == saving[a].form.id
      body == saving[a].form.body
      shown == saving[a].form.shown
      add(set) == IF body.heard THEN set \cup {u} ELSE set \ {u} IN
  /\ saving[a].stage = "read" /\ saving[a].form.kind = "user"
  /\ people' = [people EXCEPT ![u] = body]
  /\ platform' = [saving[a].got EXCEPT !.heard = add(@)]
  /\ meant' = [meant EXCEPT
       !.roles[u] = IF body.role # shown.role THEN body.role ELSE @,
       !.platform.heard = IF body.heard # shown.heard THEN add(@) ELSE @]
  /\ Stage(a, "done") /\ Wrote("platform") /\ CrossedBy(a, "platform")
  /\ UNCHANGED <<areas, projects, aliases, pages, editing>>

(* Mutant: those taken off the list keep their flag.                        *)
SyncedIfListed(heard) ==
  [u \in People |-> [people[u] EXCEPT !.heard = @ \/ u \in heard]]

(* The flags of the users after the list.                                   *)
Synced(heard) == [u \in People |-> [people[u] EXCEPT !.heard = u \in heard]]

(* updatePlatformSettings, of a body that has every field.                  *)
UpdateSettings(a) ==
  LET body == saving[a].form.body
      shown == saving[a].form.shown IN
  /\ saving[a].stage = "read" /\ saving[a].form.kind = "settings"
  /\ platform' = body
  /\ people' = Synced(body.heard)
  /\ meant' = [meant EXCEPT
       !.platform = [f \in DOMAIN body |-> IF body[f] # shown[f] THEN body[f] ELSE @[f]]]
  /\ Wrote("platform") /\ CrossedBy(a, "platform")
  /\ saving' = [saving EXCEPT ![a].stage = "done", ![a].at = writes']
  /\ UNCHANGED <<areas, projects, aliases, pages, editing>>

(* The areas of a name, and failing that of one in another case: findByName *)
(* returns one of them.                                                     *)
FindByName(name) ==
  LET exact == {k \in AreaIds : areas[k] = name} IN
  IF exact # {} THEN exact
  ELSE {k \in AreaIds : areas[k] # Empty /\ Loose[areas[k]] = Loose[name]}

(* upsertArea: another area of the name, in any case, refuses it; the table *)
(* itself refuses the same spelling only.                                   *)
CheckArea(a) ==
  LET form == saving[a].form
      found == FindByName(form.body) IN
  /\ saving[a].stage = "sent" /\ form.kind = "area"
  /\ \/ found \ {form.id} # {} /\ Stage(a, "refused")
     \/ /\ found = {} \/ form.id \in found
        /\ saving' = [saving EXCEPT ![a].stage = "read", ![a].at = writes]
  /\ UNCHANGED <<stored, pages, editing, history>>

WriteArea(a) ==
  LET form == saving[a].form IN
  /\ saving[a].stage = "read" /\ form.kind = "area"
  /\ IF \E b \in AreaIds \ {form.id} : areas[b] = form.body
     THEN Stage(a, "refused") /\ UNCHANGED <<areas, writes, crossed>>
     ELSE /\ areas' = [areas EXCEPT ![form.id] = form.body]
          /\ Stage(a, "done") /\ Wrote("areas")
          /\ crossed' = crossed \cup {r \in {"areas"} : saving[a].at[r] # writes[r]}
  /\ UNCHANGED <<platform, people, projects, aliases, pages, editing, meant>>

(* addAlias: an upsert by the alias alone.                                  *)
AddAliases(names, p) == [n \in Words |-> IF n \in names THEN p ELSE aliases[n]]

(* upsertProject: an alias another project has is taken from it, one struck *)
(* from the form is kept, and the name is an alias besides.                 *)
UpsertProject(a) ==
  LET form == saving[a].form
      named == {Loose[w] : w \in {form.body.name} \cup form.body.aliases} IN
  /\ saving[a].stage = "sent" /\ form.kind = "project"
  /\ IF \E q \in ProjectIds \ {form.id} : projects[q] = form.body.name
     THEN Stage(a, "refused") /\ UNCHANGED <<projects, aliases, writes>>
     ELSE /\ projects' = [projects EXCEPT ![form.id] = form.body.name]
          /\ aliases' = AddAliases(named, form.id)
          /\ Stage(a, "done") /\ Wrote("areas")
  /\ UNCHANGED <<platform, people, areas, pages, editing, meant, crossed>>

----------------------------------------------------------------------------
(* The answers.  A save that went through closes the dialog of its kind,    *)
(* whichever is open by then, and has the page rendered; the form of the    *)
(* settings goes on from what was stored.                                   *)
AnswerForm(a) ==
  LET form == saving[a].form
      onward == [form EXCEPT !.shown = form.body, !.at = saving[a].at] IN
  /\ saving[a].stage = "done"
  /\ editing' = [editing EXCEPT ![a] =
       IF @.kind # form.kind THEN @ ELSE IF form.kind = "settings" THEN onward ELSE Closed]
  /\ pages' = [pages EXCEPT ![a].refreshing = TRUE]
  /\ saving' = [saving EXCEPT ![a] = Idle]
  /\ UNCHANGED <<stored, history>>

RefuseForm(a) ==
  /\ saving[a].stage = "refused"
  /\ saving' = [saving EXCEPT ![a] = Idle]
  /\ UNCHANGED <<stored, pages, editing, history>>

(* The settings with the users, the areas, and the projects have nothing in *)
(* common: kinds are the forms in use, working the administrators at work.  *)
AdminNext(working, kinds) ==
  \E a \in working :
    \/ "settings" \in kinds /\ OpenSettings(a)
    \/ "user" \in kinds /\ \E u \in People : OpenUser(a, u)
    \/ "area" \in kinds /\ \E k \in AreaIds : OpenArea(a, k)
    \/ "project" \in kinds /\ \E p \in ProjectIds : OpenProject(a, p)
    \/ ChangeSettings(a) \/ ChangeUser(a) \/ ChangeArea(a) \/ ChangeProject(a)
    \/ CloseForm(a) \/ RenderPage(a) \/ SendForm(a)
    \/ ReadPlatform(a) \/ UpdateUser(a) \/ UpdateSettings(a)
    \/ CheckArea(a) \/ WriteArea(a) \/ UpsertProject(a)
    \/ AnswerForm(a) \/ RefuseForm(a)

AdminSpec == AdminInit /\ [][AdminNext(Admins, FormKinds)]_adminVars

----------------------------------------------------------------------------
(* As long as every save rested on the latest, a page rendered before the   *)
(* last write or a transaction begun before it being the ways not to, what  *)
(* is stored is what somebody last entered in each field: no save changes   *)
(* what nobody touched, and the jobs listen to exactly those the settings   *)
(* list.  Likewise no two areas have names that differ in case only.  Every *)
(* name of a project leads to a project, however aliases are moved.         *)
SavesAreKept ==
  /\ "platform" \notin crossed =>
       /\ platform = meant.platform
       /\ people = [u \in People |-> [role |-> meant.roles[u], heard |-> u \in platform.heard]]
  /\ "areas" \notin crossed =>
       \A b, c \in AreaIds :
         b # c /\ areas[b] # Empty /\ areas[c] # Empty => Loose[areas[b]] # Loose[areas[c]]
  /\ \A p \in ProjectIds : projects[p] # Empty => aliases[Loose[projects[p]]] # Empty
=============================================================================
