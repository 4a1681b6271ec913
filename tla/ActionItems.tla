----------------------------- MODULE ActionItems -----------------------------
(***************************************************************************)
(* The human commands on tasks as the API really runs them: each HTTP      *)
(* request is a session that reads, checks and writes in separate SQL      *)
(* statements.  PrismaUnitOfWork opens the transaction without an          *)
(* isolation level, so PostgreSQL gives it READ COMMITTED; the repositories*)
(* lock no row and write back every column of the row they were given.     *)
(* What a session read may therefore be stale when it commits.             *)
(*                                                                         *)
(* The transaction bodies come from TaskBoard; here is when their inputs   *)
(* are read.                                                               *)
(***************************************************************************)
EXTENDS TaskBoard, FiniteSets

CONSTANTS
  Sessions,   \* requests in flight
  Managers    \* those whose principal may cancel and review closures

ASSUME SessionAssumption == Managers \subseteq Sessions

VARIABLES
  pc,     \* how far each session's command has got
  req,    \* the command a session runs, None when it runs none
  row     \* the row its transaction read, None before that

sessionVars == <<pc, req, row>>
vars == <<items, proposals, history, pc, req, row>>

Request ==
  [op: {"update", "change", "propose", "approve", "reject"}, item: Items,
   due: Dates \cup {None}, to: Status \cup {None},
   proposal: Proposals \cup {None}]

Steps == {"idle", "requested", "read", "checked"}

TypeOK ==
  /\ BoardTypeOK
  /\ pc \in [Sessions -> Steps]
  /\ req \in [Sessions -> Request \cup {None}]
  /\ row \in [Sessions -> Row \cup {None}]

Init ==
  /\ BoardInit
  /\ pc = [s \in Sessions |-> "idle"]
  /\ req = [s \in Sessions |-> None]
  /\ row = [s \in Sessions |-> None]

----------------------------------------------------------------------------
(* A command starts.                                                        *)

Command(op, i, due, to, p) ==
  [op |-> op, item |-> i, due |-> due, to |-> to, proposal |-> p]

(* The transaction opens and reads its task.                                *)
Read(s, r) ==
  /\ pc' = [pc EXCEPT ![s] = "read"]
  /\ row' = [row EXCEPT ![s] = r]
  /\ UNCHANGED board

Start(s, i, c) ==
  /\ pc[s] = "idle"
  /\ Exists(i)
  /\ req' = [req EXCEPT ![s] = c]
  /\ Read(s, items[i])

(* updateActionItem settles the due date it will write on a first read,     *)
(* outside the transaction: without one in the body, the date it saw there. *)
BeginUpdate(s, i) ==
  /\ pc[s] = "idle"
  /\ Exists(i)
  /\ \E due \in Dates \cup {items[i].dueDate}, to \in Requestable \cup {None} :
       req' = [req EXCEPT ![s] = Command("update", i, due, to, None)]
  /\ pc' = [pc EXCEPT ![s] = "requested"]
  /\ UNCHANGED <<items, proposals, history, row>>

ReadForUpdate(s) ==
  /\ pc[s] = "requested"
  /\ Read(s, items[req[s].item])
  /\ UNCHANGED req

(* changeActionItemStatus refuses COMPLETED; reopenActionItem is the same   *)
(* command towards IN_PROGRESS.                                             *)
BeginChange(s, i) ==
  \E to \in Requestable \ {"COMPLETED"} :
    Start(s, i, Command("change", i, None, to, None))

(* proposeCompletion also refuses on its first read.                        *)
BeginPropose(s, i) ==
  /\ Start(s, i, Command("propose", i, None, None, None))
  /\ CanProposeCompletion(items[i].status)

BeginApprove(s, i) ==
  /\ s \in Managers
  /\ \E p \in Proposals : Start(s, i, Command("approve", i, None, None, p))

BeginReject(s, i) ==
  /\ s \in Managers
  /\ \E p \in Proposals, wanted \in {None, "PENDING", "IN_PROGRESS"} :
       Start(s, i, Command("reject", i, None, wanted, p))

----------------------------------------------------------------------------
(* Mutants: proposeCompletion does not look for a pending proposal; the     *)
(* proposal under review only has to be the task's.                         *)
CheckProposalBlindly(s) ==
  /\ pc[s] = "read"
  /\ \/ req[s].op = "propose"
     \/ /\ req[s].op \in {"approve", "reject"}
        /\ req[s].proposal \in PendingProposals(req[s].item)
  /\ pc' = [pc EXCEPT ![s] = "checked"]
  /\ UNCHANGED <<items, proposals, history, req, row>>

CheckProposalTwice(s) ==
  /\ pc[s] = "read"
  /\ \/ /\ req[s].op = "propose"
        /\ PendingProposals(req[s].item) = {}
     \/ /\ req[s].op \in {"approve", "reject"}
        /\ proposals[req[s].proposal] # None
        /\ proposals[req[s].proposal].item = req[s].item
  /\ pc' = [pc EXCEPT ![s] = "checked"]
  /\ UNCHANGED <<items, proposals, history, req, row>>

(* The second statement of the commands about closures: no proposal may be  *)
(* pending, or the one named must be.                                       *)

CheckProposal(s) ==
  /\ pc[s] = "read"
  /\ \/ /\ req[s].op = "propose"
        /\ PendingProposals(req[s].item) = {}
     \/ /\ req[s].op \in {"approve", "reject"}
        /\ req[s].proposal \in PendingProposals(req[s].item)
  /\ pc' = [pc EXCEPT ![s] = "checked"]
  /\ UNCHANGED <<items, proposals, history, req, row>>

----------------------------------------------------------------------------
(* The writes become visible, computed from the row read earlier.           *)

Finish(s) ==
  /\ pc' = [pc EXCEPT ![s] = "idle"]
  /\ req' = [req EXCEPT ![s] = None]
  /\ row' = [row EXCEPT ![s] = None]

CommitUpdate(s) ==
  /\ pc[s] = "read" /\ req[s].op = "update"
  /\ UpdateTx(req[s].item, row[s], req[s].due, req[s].to, s \in Managers)
  /\ Finish(s)

CommitChange(s) ==
  /\ pc[s] = "read" /\ req[s].op = "change"
  /\ ChangeTx(req[s].item, row[s], req[s].to, s \in Managers)
  /\ Finish(s)

CommitPropose(s) ==
  /\ pc[s] = "checked" /\ req[s].op = "propose"
  /\ \E p \in Proposals : ProposeTx(req[s].item, row[s], p)
  /\ Finish(s)

CommitApprove(s) ==
  /\ pc[s] = "checked" /\ req[s].op = "approve"
  /\ ApproveTx(req[s].item, row[s], req[s].proposal)
  /\ Finish(s)

CommitReject(s) ==
  /\ pc[s] = "checked" /\ req[s].op = "reject"
  /\ RejectTx(req[s].item, row[s], req[s].proposal, req[s].to)
  /\ Finish(s)

(* Mutant: the proposal is saved outside the transaction.                   *)
RollbackHalfway(s) ==
  /\ pc[s] # "idle"
  /\ Finish(s)
  /\ \/ UNCHANGED proposals
     \/ /\ pc[s] = "checked" /\ req[s].op = "approve"
        /\ proposals' = [proposals EXCEPT ![req[s].proposal].status = "APPROVED"]
  /\ UNCHANGED <<items, history>>

(* A guard that fails throws, the transaction times out or the process      *)
(* dies: the database rolls everything back.                                *)
Rollback(s) ==
  /\ pc[s] # "idle"
  /\ Finish(s)
  /\ UNCHANGED board

CreateItem(i) == Create(i) /\ UNCHANGED sessionVars

Begin(s, i) ==
  \/ BeginUpdate(s, i)
  \/ BeginChange(s, i)
  \/ BeginPropose(s, i)
  \/ BeginApprove(s, i)
  \/ BeginReject(s, i)

Commit(s) ==
  \/ CommitUpdate(s)
  \/ CommitChange(s)
  \/ CommitPropose(s)
  \/ CommitApprove(s)
  \/ CommitReject(s)

Next ==
  \/ \E i \in Manual : CreateItem(i)
  \/ \E s \in Sessions, i \in Items : Begin(s, i)
  \/ \E s \in Sessions :
       ReadForUpdate(s) \/ CheckProposal(s) \/ Commit(s) \/ Rollback(s)

Spec == Init /\ [][Next]_vars

----------------------------------------------------------------------------
(* What holds whatever the sessions do to each other.                       *)

(* The approval of task i is in the history, signed by a person.            *)
ApprovalLogged(i) ==
  \E k \in DOMAIN history :
    /\ history[k].item = i /\ history[k].by = "USER"
    /\ history[k].from = "COMPLETION_PROPOSED" /\ history[k].to = "COMPLETED"

(* A proposal to close task i has been reviewed.                            *)
ClosureReviewed(i) ==
  \E p \in Proposals :
    /\ proposals[p] # None
    /\ proposals[p].item = i /\ proposals[p].status # "PENDING"

Audited(i) == ApprovalLogged(i) /\ ClosureReviewed(i)

(* A task shown as completed was once closed by a person who reviewed a     *)
(* proposal, even when the row that says so was written back from a stale   *)
(* read.  (approveCompletion is the only caller of applyStatusChange that   *)
(* passes viaApprovedCompletionProposal.)  The reviewed proposal need not   *)
(* be APPROVED any more: a rejection that raced with the approval may have  *)
(* overwritten it.                                                          *)
CompletedIsAudited ==
  \A i \in Items : Exists(i) /\ items[i].status = "COMPLETED" => Audited(i)

(* The timestamps of a row agree with its status.                           *)
Coherent(r) ==
  /\ r.completedAt <=> r.status = "COMPLETED"
  /\ r.status = "CANCELLED" => r.cancelledAt

(* completedAt is set exactly while the task is completed and a cancelled   *)
(* task has its date: racing requests overwrite each other's rows but never *)
(* mix the columns of two of them (the repository writes whole rows).       *)
RowsCoherent == \A i \in Items : Exists(i) => Coherent(items[i])

(* The instances of a recurring task all hang from the first one: the       *)
(* parent of a row exists and has no parent itself, however deep the series *)
(* and whichever instance was closed (parentActionItemId ?? id).            *)
SeriesIsFlat ==
  \A i \in Items :
    Exists(i) /\ items[i].parent # None =>
      /\ Exists(items[i].parent)
      /\ items[items[i].parent].parent = None
      /\ items[items[i].parent].recurring

----------------------------------------------------------------------------
(* What a client who is alone is promised.                                  *)

(* Two closures of a task are never open for review at once (the CONFLICT   *)
(* of proposeCompletion): no unique index backs the check.                  *)
OnePendingProposal ==
  \A i \in Items : \A p, q \in PendingProposals(i) : p = q

(* The history of a task tells its whole life: every entry starts where the *)
(* one before ended and the last one ends at the status of the row.         *)
HistoryIsAChain ==
  /\ \A k, l \in DOMAIN history :
       /\ k < l /\ history[k].item = history[l].item
       /\ \A m \in (k + 1)..(l - 1) : history[m].item # history[k].item
       => history[l].from = history[k].to
  /\ \A k \in DOMAIN history :
       (\A m \in DOMAIN history : history[m].item = history[k].item => k <= m)
       => history[k].item \in Items /\ history[k].from = None
  /\ \A k \in DOMAIN history :
       (\A m \in DOMAIN history : history[m].item = history[k].item => m <= k)
       => items[history[k].item].status = history[k].to

(* A recurring task gets one next instance for each approved closure, never *)
(* two for the same one.                                                    *)
InstancesArePaid ==
  Cardinality({i \in Items : Exists(i) /\ items[i].parent # None})
    <= Cardinality({p \in Proposals :
                      proposals[p] # None /\ proposals[p].status = "APPROVED"})

(* The commands of one session after another are the atomic commands of     *)
(* TaskBoard: splitting them in statements adds no behaviour.               *)
AtomicCommands == BoardSpec

----------------------------------------------------------------------------
(* What the documents promise and concurrent or plain use breaks.           *)

(* Every change of a task's status that becomes visible is a transition of  *)
(* the state machine (commands.ts:35 says every transition goes through it).*)
EveryChangeIsATransition ==
  [][\A i \in Items :
       Exists(i) /\ items'[i].status # items[i].status =>
         \E approved \in BOOLEAN :
           CanTransition(items[i].status, items'[i].status, "USER", approved)]_vars

(* A closure waits for review only while its task does: leaving             *)
(* COMPLETION_PROPOSED for PENDING, IN_PROGRESS or CANCELLED is a rejection *)
(* (ADR-010).                                                               *)
PendingOnlyWhileProposed ==
  \A p \in Proposals :
    proposals[p] # None /\ proposals[p].status = "PENDING" =>
      items[proposals[p].item].status = "COMPLETION_PROPOSED"
=============================================================================
