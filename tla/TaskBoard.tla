------------------------------ MODULE TaskBoard ------------------------------
(***************************************************************************)
(* The task tables of the platform (action_items, completion_proposals and *)
(* action_item_status_history) and the body of every human command of      *)
(* use-cases/action-items/commands.ts: what its transaction writes, given  *)
(* the rows it read.                                                       *)
(*                                                                         *)
(* BoardSpec runs each command as one indivisible step, reading the rows   *)
(* it writes.  It is what commands.ts promises to a client who is alone;   *)
(* ActionItems runs the same bodies under READ COMMITTED, where the rows   *)
(* read may be stale by the time they are written back.                    *)
(***************************************************************************)
EXTENDS ActionItemStateMachine, Sequences, Naturals

CONSTANTS
  Items,        \* ids of tasks
  Manual,       \* the ids createActionItem may hand out (the others are left
                \* to the instances a recurrence spawns)
  Proposals,    \* ids of completion proposals
  Dates,        \* due dates
  Requestable,  \* the statuses clients ask for in PATCH bodies
  MaxChanges,   \* bound: rows of the status history in one behaviour
  None          \* "null" or "undefined" in the code

ASSUME BoardAssumption ==
  /\ Manual \subseteq Items
  /\ Requestable \subseteq Status
  /\ MaxChanges \in Nat
  /\ None \notin Status \cup Dates \cup Items \cup Proposals

VARIABLES
  items,      \* action_items: id -> row, or None
  proposals,  \* completion_proposals: id -> row, or None
  history     \* action_item_status_history, in the order it was committed

board == <<items, proposals, history>>

Row == [status: Status, dueDate: Dates, completedAt: BOOLEAN,
        cancelledAt: BOOLEAN, recurring: BOOLEAN, parent: Items \cup {None}]

Proposal == [item: Items, status: {"PENDING", "APPROVED", "REJECTED"}]

Entry == [item: Items, from: Status \cup {None}, to: Status,
          by: {"USER", "SYSTEM"}]

ASSUME NoneIsNoRow == None \notin Row \cup Proposal

BoardTypeOK ==
  /\ items \in [Items -> Row \cup {None}]
  /\ proposals \in [Proposals -> Proposal \cup {None}]
  /\ history \in Seq(Entry)

BoardInit ==
  /\ items = [i \in Items |-> None]
  /\ proposals = [p \in Proposals |-> None]
  /\ history = <<>>

----------------------------------------------------------------------------
(* Reading the tables.                                                      *)

Exists(i) == items[i] # None

PendingProposals(i) ==
  {p \in Proposals : proposals[p] # None /\ proposals[p].item = i
                                         /\ proposals[p].status = "PENDING"}

(* The last time i was proposed for closure it came from status s.          *)
LastProposedFrom(i, s) ==
  \E k \in DOMAIN history :
    /\ history[k].item = i /\ history[k].to = "COMPLETION_PROPOSED"
    /\ history[k].from = s
    /\ \A l \in DOMAIN history :
         history[l].item = i /\ history[l].to = "COMPLETION_PROPOSED" => l <= k

(* The status rejectCompletion goes back to: the one asked for, else the    *)
(* one the task was proposed from when that is PENDING or IN_PROGRESS.      *)
ReturnStatus(i, wanted) ==
  CASE wanted # None -> wanted
    [] wanted = None /\ LastProposedFrom(i, "IN_PROGRESS") -> "IN_PROGRESS"
    [] OTHER -> "PENDING"

(* Mutant: reopening leaves the completion date.                            *)
StatusChangedKeepingDate(r, s) ==
  [r EXCEPT !.status = s, !.completedAt = @ \/ s = "COMPLETED",
            !.cancelledAt = @ \/ s = "CANCELLED"]

(* Row r after applyStatusChange to status s: the timestamps follow it,     *)
(* except that cancelledAt is never cleared.                                *)
StatusChanged(r, s) ==
  [r EXCEPT !.status = s,
            !.completedAt = \/ s = "COMPLETED"
                            \/ @ /\ ~(s = "IN_PROGRESS" /\ r.status = "COMPLETED"),
            !.cancelledAt = @ \/ s = "CANCELLED"]

(* Mutants: the next instance hangs from the one before; it has no date.    *)
SuccessorOfInstance(i, r, due) ==
  [r EXCEPT !.status = "PENDING", !.dueDate = due, !.completedAt = FALSE,
            !.cancelledAt = FALSE, !.parent = i]

SuccessorUndated(i, r, due) ==
  [r EXCEPT !.status = "PENDING", !.dueDate = None, !.completedAt = FALSE,
            !.cancelledAt = FALSE,
            !.parent = IF r.parent = None THEN i ELSE r.parent]

(* The instance that follows a recurring task: a copy of the row that was   *)
(* read, hanging from the first of the series.                              *)
Successor(i, r, due) ==
  [r EXCEPT !.status = "PENDING", !.dueDate = due, !.completedAt = FALSE,
            !.cancelledAt = FALSE,
            !.parent = IF r.parent = None THEN i ELSE r.parent]

HasRoom(n) == Len(history) + n <= MaxChanges

Log(i, from, to, by) == [item |-> i, from |-> from, to |-> to, by |-> by]

----------------------------------------------------------------------------
(* The transactions.  r is the row of task i the transaction read: each of  *)
(* them writes the whole row back.                                          *)

(* createActionItem *)
CreateTx(i, due, recurring) ==
  /\ ~Exists(i)
  /\ HasRoom(1)
  /\ items' = [items EXCEPT ![i] =
       [status |-> "PENDING", dueDate |-> due, completedAt |-> FALSE,
        cancelledAt |-> FALSE, recurring |-> recurring, parent |-> None]]
  /\ history' = Append(history, Log(i, None, "PENDING", "USER"))
  /\ UNCHANGED proposals

(* applyStatusChange, called by the commands below: assertTransition, the   *)
(* CANCEL permission, the row and its history.                              *)
StatusTx(i, r, to, canCancel) ==
  /\ CanTransition(r.status, to, "USER", FALSE)
  /\ to = "CANCELLED" => canCancel
  /\ HasRoom(1)
  /\ items' = [items EXCEPT ![i] = StatusChanged(r, to)]
  /\ history' = Append(history, Log(i, r.status, to, "USER"))

(* changeActionItemStatus and reopenActionItem *)
ChangeTx(i, r, to, canCancel) ==
  /\ StatusTx(i, r, to, canCancel)
  /\ UNCHANGED proposals

(* Mutant: the status of the body is merged with the other fields.          *)
UpdateTxUnlogged(i, r, due, to, canCancel) ==
  /\ items' = [items EXCEPT ![i] =
       [r EXCEPT !.dueDate = due, !.status = IF to = None THEN @ ELSE to]]
  /\ UNCHANGED <<proposals, history>>

(* updateActionItem: the merged row goes through applyStatusChange only     *)
(* when a different status came in the body.                                *)
UpdateTx(i, r, due, to, canCancel) ==
  LET next == [r EXCEPT !.dueDate = due] IN
  /\ \/ /\ to \in {None, r.status}
        /\ items' = [items EXCEPT ![i] = next]
        /\ UNCHANGED history
     \/ /\ to \notin {None, r.status}
        /\ StatusTx(i, next, to, canCancel)
  /\ UNCHANGED proposals

(* proposeCompletion *)
ProposeTx(i, r, p) ==
  /\ proposals[p] = None
  /\ proposals' = [proposals EXCEPT ![p] = [item |-> i, status |-> "PENDING"]]
  /\ StatusTx(i, r, "COMPLETION_PROPOSED", FALSE)

(* Mutant: the proposal is not saved as APPROVED.                           *)
ApproveTxUnmarked(i, r, p) ==
  /\ CanTransition(r.status, "COMPLETED", "USER", TRUE)
  /\ UNCHANGED proposals
  /\ HasRoom(2)
  /\ r.recurring
  /\ \E n \in Items, due \in Dates :
       /\ ~Exists(n)
       /\ items' = [items EXCEPT ![i] = StatusChanged(r, "COMPLETED"),
                                 ![n] = Successor(i, r, due)]
       /\ history' = history \o <<Log(i, r.status, "COMPLETED", "USER"),
                                  Log(n, None, "PENDING", "SYSTEM")>>

(* approveCompletion: the only transition to COMPLETED.  A recurring task   *)
(* spawns its next instance in the same transaction.                        *)
ApproveTx(i, r, p) ==
  /\ CanTransition(r.status, "COMPLETED", "USER", TRUE)
  /\ proposals' = [proposals EXCEPT ![p] = [item |-> i, status |-> "APPROVED"]]
  /\ \/ /\ ~r.recurring
        /\ HasRoom(1)
        /\ items' = [items EXCEPT ![i] = StatusChanged(r, "COMPLETED")]
        /\ history' = Append(history, Log(i, r.status, "COMPLETED", "USER"))
     \/ /\ r.recurring
        /\ HasRoom(2)
        /\ \E n \in Items, due \in Dates :
             /\ ~Exists(n)
             /\ items' = [items EXCEPT ![i] = StatusChanged(r, "COMPLETED"),
                                       ![n] = Successor(i, r, due)]
             /\ history' = history \o <<Log(i, r.status, "COMPLETED", "USER"),
                                        Log(n, None, "PENDING", "SYSTEM")>>

(* rejectCompletion *)
RejectTx(i, r, p, wanted) ==
  /\ proposals' = [proposals EXCEPT ![p] = [item |-> i, status |-> "REJECTED"]]
  /\ StatusTx(i, r, ReturnStatus(i, wanted), FALSE)

----------------------------------------------------------------------------
(* Each command as one step.                                                *)

Create(i) ==
  \E due \in Dates, recurring \in BOOLEAN : CreateTx(i, due, recurring)

Update(i) ==
  /\ Exists(i)
  /\ \E due \in Dates, to \in Requestable \cup {None}, canCancel \in BOOLEAN :
       UpdateTx(i, items[i], due, to, canCancel)

Change(i) ==
  /\ Exists(i)
  /\ \E to \in Requestable, canCancel \in BOOLEAN :
       ChangeTx(i, items[i], to, canCancel)

Propose(i) ==
  /\ Exists(i)
  /\ PendingProposals(i) = {}
  /\ \E p \in Proposals : ProposeTx(i, items[i], p)

Approve(i) ==
  /\ Exists(i)
  /\ \E p \in PendingProposals(i) : ApproveTx(i, items[i], p)

Reject(i) ==
  /\ Exists(i)
  /\ \E p \in PendingProposals(i), wanted \in {None, "PENDING", "IN_PROGRESS"} :
       RejectTx(i, items[i], p, wanted)

BoardNext ==
  \/ \E i \in Manual : Create(i)
  \/ \E i \in Items : Update(i) \/ Change(i) \/ Propose(i) \/ Approve(i) \/ Reject(i)

BoardSpec == BoardInit /\ [][BoardNext]_board
=============================================================================
