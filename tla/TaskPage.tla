------------------------------ MODULE TaskPage ------------------------------
(***************************************************************************)
(* The task as a person has it on screen: the detail page                  *)
(* (pendientes/[id]/detail.tsx) or a row of the board, the quick actions   *)
(* and forms both offer, and the requests they send (use-api-mutation.ts). *)
(* What is on screen was read some time ago; the offers are worked out     *)
(* from it in the browser, and judged again by the commands of the API     *)
(* over the row as it has become.                                          *)
(***************************************************************************)
EXTENDS AccessRules, ActionItemStateMachine, FiniteSets, Naturals

CONSTANTS
  Visitors,    \* principals who may have the page open
  Owners,      \* people a task can be given to
  Beginnings,  \* the rows a task may have when the page is opened
  Moves,       \* bound: the statuses people move tasks to
  MaxVersion,  \* bound: changes of the task
  MaxSent,     \* bound: requests of the page waited for at once
  Absent

(* A task as the page tells it; who collaborates and its area never change. *)
Circles == {r.collaborators : r \in Beginnings}
Sections == {r.area : r \in Beginnings}
PageRow ==
  [version: 0..MaxVersion, status: Status, owner: Owners, proposal: 0..MaxVersion,
   collaborators: Circles, area: Sections]

ASSUME PageAssumption ==
  MaxVersion \in Nat /\ Moves \subseteq Status /\ Beginnings \subseteq PageRow

VARIABLES
  row,      \* the task in the database; version counts its changes
  visitor,  \* whose page it is
  place,    \* the detail page or the board
  screen,   \* the row as the page has it
  reading,  \* the read of it that is under way
  dialog,   \* the dialog that is open, and what has been chosen in it
  sent,     \* mutation -> the request it waits for
  acked,    \* version of the last change of the visitor that was acknowledged
  blind     \* the last read failed

pageVars == <<row, visitor, place, screen, reading, dialog, sent, acked, blind>>
viewVars == <<visitor, place>>

Mutations == {"patch", "propose", "update", "reopen", "review"}
Kinds == {"move", "hand", "touch", "propose", "edit", "reopen", "approve", "reject"}

Body == [kind: Kinds, to: Status, owner: Owners \cup {Absent}, proposal: 0..MaxVersion]

Request == [stage: {"travelling", "accepted", "refused", "settling"}, body: Body,
            read: 0..MaxVersion, version: 0..MaxVersion]

NotReading == [stage |-> "none", got |-> Absent, again |-> FALSE]
Asking == [stage |-> "asked", got |-> Absent, again |-> FALSE]

PageTypeOK ==
  /\ row \in PageRow /\ screen \in PageRow
  /\ visitor \in Visitors /\ place \in {"detail", "board"}
  /\ screen.version <= row.version
  /\ reading \in [stage: {"none", "asked", "answered"}, got: PageRow \cup {Absent},
                  again: BOOLEAN]
  /\ dialog \in [body: Body, read: 0..MaxVersion] \cup {Absent}
  /\ sent \in [Mutations -> Request \cup {Absent}]
  /\ acked \in 0..MaxVersion /\ blind \in BOOLEAN

PageInit ==
  /\ row \in Beginnings
  /\ visitor \in {p \in Visitors : CanAccessActionItem(p, row)}
  /\ place \in {"detail", "board"}
  /\ screen = row
  /\ reading = NotReading
  /\ dialog = Absent
  /\ sent = [m \in Mutations |-> Absent]
  /\ acked = 0
  /\ blind = FALSE

----------------------------------------------------------------------------
(* What a change makes of the row.                                          *)

Changed(r) == [r EXCEPT !.version = @ + 1]
Moved(r, to) == [Changed(r) EXCEPT !.status = to]
Handed(r, owner) == [Changed(r) EXCEPT !.owner = owner]
ProposedFor(r) == [Moved(r, "COMPLETION_PROPOSED") EXCEPT !.proposal = r.version + 1]
Reviewed(r, to) == [Moved(r, to) EXCEPT !.proposal = 0]

(* A move by PATCH takes a task out of COMPLETION_PROPOSED and leaves its   *)
(* proposal pending.                                                        *)
Orphaned(r) == r.proposal # 0 /\ r.status # "COMPLETION_PROPOSED"

(* Somebody else works on the task.                                         *)
ColleagueActs ==
  /\ row.version < MaxVersion
  /\ \/ \E to \in Moves : CanTransition(row.status, to, "USER", FALSE) /\ row' = Moved(row, to)
     \/ \E o \in Owners \ {row.owner} : row' = Handed(row, o)
     \/ /\ CanProposeCompletion(row.status) /\ row.proposal = 0
        /\ row' = ProposedFor(row)
     \/ /\ row.status = "COMPLETION_PROPOSED" /\ row.proposal # 0
        /\ \E to \in {"COMPLETED", "IN_PROGRESS"} : row' = Reviewed(row, to)
  /\ UNCHANGED <<viewVars, screen, reading, dialog, sent, acked, blind>>

----------------------------------------------------------------------------
(* What the page offers.                                                    *)

May(permission) == HasPermission(visitor, permission)

Bare(kind) == [kind |-> kind, to |-> screen.status, owner |-> Absent, proposal |-> 0]
To(kind, s) == [Bare(kind) EXCEPT !.to = s]
For(kind, o) == [Bare(kind) EXCEPT !.owner = o]

If(condition, body) == {b \in {body} : condition}

IsClosed(s) == s \in {"COMPLETED", "CANCELLED"}

(* The detail brings its transitions with it (toActionItemDetailDto); the   *)
(* board works them out of the table of the domain.                         *)
Transitions ==
  IF place = "board" THEN HumanTransitions[screen.status]
  ELSE {s \in HumanTransitions[screen.status] :
          s # "COMPLETED" /\ (s = "CANCELLED" => May("ACTION_ITEM_CANCEL"))}

(* "Cambiar estado", "Marcar bloqueado" and "Cancelar pendiente".           *)
MoveOffers ==
  {To("move", s) : s \in {t \in (Transitions \cap Moves) \ {"COMPLETED", "COMPLETION_PROPOSED"} :
                            t = "CANCELLED" => May("ACTION_ITEM_CANCEL")}}

(* Mutant: a closure is proposed from wherever the task is not closed.      *)
QuickOffersUnlessClosed ==
  IF ~May("ACTION_ITEM_UPDATE") \/ IsClosed(screen.status) THEN {}
  ELSE MoveOffers \cup {Bare("touch"), Bare("propose")}
       \cup If(May("ACTION_ITEM_REASSIGN"), For("hand", screen.owner))

(* ActionItemQuickActions: nothing on a closed task.                        *)
QuickOffers ==
  IF ~May("ACTION_ITEM_UPDATE") \/ IsClosed(screen.status) THEN {}
  ELSE MoveOffers \cup {Bare("touch")}
       \cup If(May("ACTION_ITEM_REASSIGN"), For("hand", screen.owner))
       \cup If(CanProposeCompletion(screen.status), Bare("propose"))

(* The buttons of the header and the panel of the pending proposal, on the  *)
(* detail page only.  The form is filled in with the row as it is shown.    *)
DetailOffers ==
  {b \in {For("edit", screen.owner), Bare("reopen"), Bare("approve"),
          To("reject", "PENDING"), To("reject", "IN_PROGRESS")} :
     CASE b.kind = "edit" -> May("ACTION_ITEM_UPDATE") /\ ~IsClosed(screen.status)
       [] b.kind = "reopen" -> May("ACTION_ITEM_UPDATE") /\ screen.status = "COMPLETED"
       [] OTHER -> screen.proposal # 0 /\ CanApproveCompletion(visitor, screen)}

Offers == QuickOffers \cup (IF place = "detail" THEN DetailOffers ELSE {})

----------------------------------------------------------------------------
(* The dialogs.                                                             *)

OpenDialog(b) ==
  /\ dialog = Absent
  /\ b \in Offers
  /\ dialog' = [body |-> b, read |-> screen.version]
  /\ UNCHANGED <<row, viewVars, screen, reading, sent, acked, blind>>

(* Another owner is picked, in the form or the dialog.                      *)
PickOwner(o) ==
  /\ dialog # Absent
  /\ dialog.body.kind \in {"hand", "edit"} /\ o # dialog.body.owner
  /\ dialog' = [dialog EXCEPT !.body.owner = o]
  /\ UNCHANGED <<row, viewVars, screen, reading, sent, acked, blind>>

(* Escape closes a dialog whose request is travelling, too.                 *)
DismissDialog ==
  /\ dialog # Absent
  /\ dialog' = Absent
  /\ UNCHANGED <<row, viewVars, screen, reading, sent, acked, blind>>

MutationOf(kind) ==
  CASE kind \in {"move", "hand", "touch"} -> "patch"
    [] kind = "propose" -> "propose"
    [] kind = "edit" -> "update"
    [] kind = "reopen" -> "reopen"
    [] kind \in {"approve", "reject"} -> "review"

(* The success of a mutation closes the dialog of its own kind: the quick   *)
(* actions share one.                                                       *)
ClosedBy(m, kind) ==
  \/ MutationOf(kind) = m
  \/ {m, MutationOf(kind)} = {"patch", "propose"}

AfterSuccessOf(done) ==
  IF dialog # Absent /\ \E m \in done : ClosedBy(m, dialog.body.kind)
  THEN Absent ELSE dialog

(* The decision on a proposal is about the one on screen when it is         *)
(* confirmed, whichever it was when the dialog was opened.                  *)
Confirm ==
  /\ dialog # Absent
  /\ LET m == MutationOf(dialog.body.kind) IN
     /\ sent[m] = Absent
     /\ Cardinality({n \in Mutations : sent[n] # Absent}) < MaxSent
     /\ m = "review" => screen.proposal # 0
     /\ sent' = [sent EXCEPT ![m] =
          [stage |-> "travelling", read |-> dialog.read, version |-> 0,
           body |-> IF m = "review" THEN [dialog.body EXCEPT !.proposal = screen.proposal]
                                    ELSE dialog.body]]
  /\ UNCHANGED <<row, viewVars, screen, reading, dialog, acked, blind>>

----------------------------------------------------------------------------
(* The API.                                                                 *)

Reassigns(b) == b.owner \notin {row.owner, visitor.id}

Accepts(b) ==
  CASE b.kind = "move" ->
         /\ CanUpdateActionItem(visitor, row)
         /\ \/ b.to = row.status
            \/ /\ CanTransition(row.status, b.to, "USER", FALSE)
               /\ b.to = "CANCELLED" => May("ACTION_ITEM_CANCEL")
    [] b.kind \in {"hand", "edit"} ->
         CanUpdateActionItem(visitor, row) /\ (Reassigns(b) => May("ACTION_ITEM_REASSIGN"))
    [] b.kind = "touch" -> CanUpdateActionItem(visitor, row)
    [] b.kind = "propose" ->
         /\ CanUpdateActionItem(visitor, row)
         /\ CanProposeCompletion(row.status) /\ row.proposal = 0
    [] b.kind = "reopen" ->
         /\ CanUpdateActionItem(visitor, row)
         /\ CanTransition(row.status, "IN_PROGRESS", "USER", FALSE)
    [] OTHER ->
         /\ CanApproveCompletion(visitor, row)
         /\ b.proposal = row.proposal
         /\ IF b.kind = "approve" THEN CanTransition(row.status, "COMPLETED", "USER", TRUE)
                                  ELSE CanTransition(row.status, b.to, "USER", FALSE)

Outcome(b) ==
  CASE b.kind = "move" -> Moved(row, b.to)
    [] b.kind \in {"hand", "edit"} -> Handed(row, b.owner)
    [] b.kind = "touch" -> Changed(row)
    [] b.kind = "propose" -> ProposedFor(row)
    [] b.kind = "reopen" -> Moved(row, "IN_PROGRESS")
    [] b.kind = "approve" -> Reviewed(row, "COMPLETED")
    [] b.kind = "reject" -> Reviewed(row, b.to)

(* A request is served.  The answer is the detail of the task as it has     *)
(* become, so a change that puts it beyond the visitor's reach is made and  *)
(* answered with an error.                                                  *)
ServeRequest(m) ==
  /\ sent[m] # Absent
  /\ sent[m].stage = "travelling"
  /\ row.version < MaxVersion
  /\ IF Accepts(sent[m].body)
     THEN /\ row' = Outcome(sent[m].body)
          /\ sent' = [sent EXCEPT ![m].version = row'.version,
                                  ![m].stage = IF CanAccessActionItem(visitor, row')
                                               THEN "accepted" ELSE "refused"]
     ELSE /\ sent' = [sent EXCEPT ![m].stage = "refused"]
          /\ UNCHANGED row
  /\ UNCHANGED <<viewVars, screen, reading, dialog, acked, blind>>

----------------------------------------------------------------------------
(* The answers.                                                             *)

(* Mutant: a read under way is taken for the one the change asks for.       *)
RereadUnlessReading ==
  IF reading.stage # "none" THEN reading ELSE Asking

(* invalidateQueries drops the read under way and asks again; a refresh of  *)
(* the board waits for the one before it.                                   *)
Reread ==
  IF place = "board" /\ reading.stage # "none"
  THEN [reading EXCEPT !.again = TRUE] ELSE Asking

Settling == {m \in Mutations : sent[m] # Absent /\ sent[m].stage = "settling"}

(* onSuccess: the detail page waits for the new read before it closes the   *)
(* dialog; the board does not.  A mutation whose read is dropped is done.   *)
Succeed(m) ==
  /\ sent[m] # Absent
  /\ sent[m].stage = "accepted"
  /\ acked' = IF sent[m].version > acked THEN sent[m].version ELSE acked
  /\ reading' = Reread
  /\ blind' = FALSE
  /\ LET done == IF place = "board" THEN {m} ELSE Settling IN
     /\ sent' = [n \in Mutations |->
                   CASE n \in done -> Absent
                     [] n \notin done /\ n = m -> [sent[m] EXCEPT !.stage = "settling"]
                     [] OTHER -> sent[n]]
     /\ dialog' = AfterSuccessOf(done)
  /\ UNCHANGED <<row, viewVars, screen>>

(* onError: a toast; the dialog stays, and so does what is shown.           *)
Fail(m) ==
  /\ sent[m] # Absent
  /\ sent[m].stage = "refused"
  /\ sent' = [sent EXCEPT ![m] = Absent]
  /\ UNCHANGED <<row, viewVars, screen, reading, dialog, acked, blind>>

(* A read of its own: a comment was added, the network is back.             *)
StartReading ==
  /\ place = "detail"
  /\ reading = NotReading
  /\ reading' = Asking
  /\ UNCHANGED <<row, viewVars, screen, dialog, sent, acked, blind>>

ServeReading ==
  /\ reading.stage = "asked"
  /\ CanAccessActionItem(visitor, row)
  /\ reading' = [reading EXCEPT !.stage = "answered", !.got = row]
  /\ UNCHANGED <<row, viewVars, screen, dialog, sent, acked, blind>>

EndReading ==
  /\ reading' = IF reading.again THEN Asking ELSE NotReading
  /\ sent' = [m \in Mutations |-> IF m \in Settling THEN Absent ELSE sent[m]]
  /\ UNCHANGED <<row, viewVars, acked>>

(* The read arrives.  The owner dialog takes the value it is given anew,    *)
(* over what had been picked in it; the form does not.                      *)
Land ==
  /\ reading.stage = "answered"
  /\ screen' = reading.got
  /\ blind' = FALSE
  /\ dialog' = LET open == AfterSuccessOf(Settling) IN
               IF open # Absent /\ open.body.kind = "hand" /\ screen'.owner # screen.owner
               THEN [open EXCEPT !.body.owner = screen'.owner] ELSE open
  /\ EndReading

(* It fails, or the task is out of reach: the page keeps what it had.       *)
LoseReading ==
  /\ reading.stage # "none"
  /\ blind' = TRUE
  /\ dialog' = AfterSuccessOf(Settling)
  /\ UNCHANGED screen
  /\ EndReading

PageNext ==
  \/ ColleagueActs
  \/ \E b \in Offers : OpenDialog(b)
  \/ \E o \in Owners : PickOwner(o)
  \/ DismissDialog
  \/ Confirm
  \/ \E m \in Mutations : ServeRequest(m) \/ Succeed(m) \/ Fail(m)
  \/ StartReading \/ ServeReading \/ Land \/ LoseReading

PageSpec == PageInit /\ [][PageNext]_pageVars

----------------------------------------------------------------------------
(* What the page promises.                                                  *)

HandsOver(b) == b.kind \in {"hand", "edit"} /\ b.owner # row.owner

(* The browser decides what to offer by rules of its own; the commands      *)
(* judge by theirs.  What was offered for a task that nobody has changed    *)
(* since it was read is never refused, but for a task whose proposal was    *)
(* left behind by a move, and for one handed to somebody else: the form     *)
(* lets anybody pick an owner, and a manager may hand a task out of reach.  *)
FreshOffersStand ==
  [][\A m \in Mutations :
       sent[m] # Absent /\ sent[m].stage = "travelling"
         /\ sent'[m] # Absent /\ sent'[m].stage = "refused" =>
       \/ row.version # sent[m].read
       \/ Orphaned(row)
       \/ HandsOver(sent[m].body)]_pageVars

(* Once a change of the visitor was acknowledged the page shows it, or is   *)
(* about to, unless the read that was to bring it failed: a read begun      *)
(* before the change never hides it.                                        *)
OwnWorkIsShown ==
  acked > screen.version =>
    \/ blind
    \/ reading.stage = "asked" \/ reading.again
    \/ reading.stage = "answered" /\ reading.got.version >= acked
=============================================================================
