--------------------------- MODULE LoneClientProofs ---------------------------
(***************************************************************************)
(* What a client who is alone is promised, for any sets of tasks, proposals*)
(* and dates and any bound on the history: the split commands of           *)
(* ActionItems implement the atomic ones of TaskBoard, and these implement *)
(* the completion contract, keep one review open per task, tell the whole  *)
(* life of a task in its history and pay every instance with an approval.  *)
(*                                                                         *)
(* Alone, a session's snapshot is the row of the table and what it checked *)
(* still holds when it commits (LoneOK); the creation of a task, which is  *)
(* a command of its own, touches only rows nobody has read.                *)
(***************************************************************************)
EXTENDS ActionItemsProofs, ActionItemsContract, FiniteSetTheorems

Alone == \A s, t \in Sessions : s = t

(* The parameters of a command are those its route lets through.            *)
Admitted(c) ==
  /\ c.op = "update" => c.to \in Requestable \cup {None}
  /\ c.op = "change" => c.to \in Requestable
  /\ c.op = "reject" => c.to \in {None, "PENDING", "IN_PROGRESS"}

ProposalChecked(c) ==
  /\ c.op = "propose" => PendingProposals(c.item) = {}
  /\ c.op \in {"approve", "reject"} => c.proposal \in PendingProposals(c.item)

(* What session s read is what the tables say.                              *)
LoneOK(s) ==
  /\ pc[s] # "idle" => Exists(req[s].item) /\ Admitted(req[s])
  /\ pc[s] \in {"read", "checked"} => row[s] = items[req[s].item]
  /\ pc[s] = "checked" => ProposalChecked(req[s])

LoneInv == \A s \in Sessions : LoneOK(s)

----------------------------------------------------------------------------
(* The split commands implement the atomic ones.                            *)

(* Each commit of a fresh session is the command itself.                    *)
LEMMA CommitIsCommand ==
  ASSUME IInv, NEW s \in Sessions, LoneOK(s), Commit(s)
  PROVE  BoardNext
<1>1. PICK i \in Items : i = req[s].item
  BY DEF IInv, SessionOK, RequestOK, Request, Commit, CommitUpdate, CommitChange,
         CommitPropose, CommitApprove, CommitReject
<1>2. /\ pc[s] \in {"read", "checked"} /\ row[s] = items[i] /\ Exists(i) /\ Admitted(req[s])
      /\ RequestOK(req[s]) /\ (s \in Managers) \in BOOLEAN
  BY <1>1 DEF IInv, SessionOK, LoneOK, Commit, CommitUpdate, CommitChange, CommitPropose,
              CommitApprove, CommitReject
<1>3. CASE CommitUpdate(s)
  <2>1. /\ req[s].due \in Dates /\ req[s].to \in Requestable \cup {None}
        /\ UpdateTx(i, items[i], req[s].due, req[s].to, s \in Managers)
    BY <1>1, <1>2, <1>3 DEF CommitUpdate, Admitted, RequestOK
  <2>2. Update(i)
    BY <1>2, <2>1 DEF Update
  <2> QED BY <2>2 DEF BoardNext
<1>4. CASE CommitChange(s)
  <2>1. req[s].to \in Requestable /\ ChangeTx(i, items[i], req[s].to, s \in Managers)
    BY <1>1, <1>2, <1>4 DEF CommitChange, Admitted
  <2>2. Change(i)
    BY <1>2, <2>1 DEF Change
  <2> QED BY <2>2 DEF BoardNext
<1>5. CASE CommitPropose(s)
  <2>1. PICK p \in Proposals : ProposeTx(i, items[i], p)
    BY <1>1, <1>2, <1>5 DEF CommitPropose
  <2>2. PendingProposals(i) = {}
    BY <1>1, <1>5 DEF CommitPropose, LoneOK, ProposalChecked
  <2>3. Propose(i)
    BY <1>2, <2>1, <2>2 DEF Propose
  <2> QED BY <2>3 DEF BoardNext
<1>6. CASE CommitApprove(s)
  <2>1. ApproveTx(i, items[i], req[s].proposal)
    BY <1>1, <1>2, <1>6 DEF CommitApprove
  <2>2. req[s].proposal \in PendingProposals(i)
    BY <1>1, <1>6 DEF CommitApprove, LoneOK, ProposalChecked
  <2>3. Approve(i)
    BY <1>2, <2>1, <2>2 DEF Approve
  <2> QED BY <2>3 DEF BoardNext
<1>7. CASE CommitReject(s)
  <2>1. /\ req[s].to \in {None, "PENDING", "IN_PROGRESS"}
        /\ RejectTx(i, items[i], req[s].proposal, req[s].to)
    BY <1>1, <1>2, <1>7 DEF CommitReject, Admitted
  <2>2. req[s].proposal \in PendingProposals(i)
    BY <1>1, <1>7 DEF CommitReject, LoneOK, ProposalChecked
  <2>3. Reject(i)
    BY <1>2, <2>1, <2>2 DEF Reject
  <2> QED BY <2>3 DEF BoardNext
<1> QED BY <1>3, <1>4, <1>5, <1>6, <1>7 DEF Commit

LEMMA StepIsCommand ==
  ASSUME IInv, LoneInv, Next
  PROVE  BoardNext \/ UNCHANGED board
<1>1. ASSUME NEW i \in Manual, CreateItem(i) PROVE BoardNext
  BY <1>1 DEF CreateItem, BoardNext
<1>2. ASSUME NEW s \in Sessions, NEW i \in Items, Begin(s, i) PROVE UNCHANGED board
  BY <1>2 DEF Begin, BeginUpdate, BeginChange, BeginPropose, BeginApprove, BeginReject,
              Start, Read, board
<1>3. ASSUME NEW s \in Sessions, ReadForUpdate(s) \/ CheckProposal(s) \/ Rollback(s)
      PROVE  UNCHANGED board
  BY <1>3 DEF ReadForUpdate, CheckProposal, Rollback, Read, board
<1>4. ASSUME NEW s \in Sessions, Commit(s) PROVE BoardNext
  BY <1>4, CommitIsCommand DEF LoneInv
<1> QED BY <1>1, <1>2, <1>3, <1>4 DEF Next

(* A new task is none that the session has read.                            *)
LEMMA CreateKeepsLone ==
  ASSUME IInv, LoneInv, NEW i \in Manual, CreateItem(i)
  PROVE  LoneInv'
<1>1. i \in Items /\ ~Exists(i) /\ UNCHANGED sessionVars /\ proposals' = proposals
  BY BoardAssumption DEF CreateItem, Create, CreateTx
<1>2. items \in [Items -> Row \cup {None}]
  BY DEF IInv, TablesOK, BoardTypeOK
<1>3. \A j \in Items : Exists(j) => items'[j] = items[j]
  BY <1>1, <1>2 DEF CreateItem, Create, CreateTx, Exists
<1>4. \A j : PendingProposals(j)' = PendingProposals(j)
  BY <1>1 DEF PendingProposals
<1>5. ASSUME NEW s \in Sessions PROVE LoneOK(s)'
  <2>1. LoneOK(s) /\ pc'[s] = pc[s] /\ req'[s] = req[s] /\ row'[s] = row[s]
    BY <1>1 DEF sessionVars, LoneInv
  <2>2. pc[s] # "idle" => req[s].item \in Items
    BY DEF IInv, SessionOK, RequestOK, Request
  <2>3. pc[s] # "idle" =>
          /\ Exists(req[s].item)'
          /\ items'[req[s].item] = items[req[s].item]
          /\ Admitted(req[s])'
    BY <1>3, <2>1, <2>2 DEF LoneOK, Exists, Admitted
  <2>4. pc[s] = "checked" => ProposalChecked(req[s])'
    BY <1>4, <2>1 DEF LoneOK, ProposalChecked
  <2> QED BY <2>1, <2>3, <2>4 DEF LoneOK
<1> QED BY <1>5 DEF LoneInv

LEMMA StepKeepsLone ==
  ASSUME Alone, IInv, LoneInv, Next
  PROVE  LoneInv'
<1>1. TypeOK
  BY DEF IInv
<1>2. ASSUME NEW s \in Sessions, LoneOK(s)' PROVE LoneInv'
  BY <1>2 DEF Alone, LoneInv
<1>3. ASSUME NEW s \in Sessions, Finish(s) PROVE LoneInv'
  BY <1>1, <1>2, <1>3 DEF Finish, TypeOK, LoneOK
<1>4. ASSUME NEW s \in Sessions, NEW i \in Items, Begin(s, i) PROVE LoneInv'
  <2>1. CASE BeginUpdate(s, i)
    <3>1. PICK due \in Dates \cup {items[i].dueDate}, to \in Requestable \cup {None} :
            req' = [req EXCEPT ![s] = Command("update", i, due, to, None)]
      BY <2>1 DEF BeginUpdate
    <3>2. pc'[s] = "requested" /\ req'[s] = Command("update", i, due, to, None)
      BY <1>1, <2>1, <3>1 DEF BeginUpdate, TypeOK
    <3>3. Exists(i)'
      BY <2>1 DEF BeginUpdate, Exists
    <3> QED BY <1>2, <3>2, <3>3 DEF LoneOK, Command, Admitted
  <2>2. ASSUME NEW c, c.item = i, Start(s, i, c), Admitted(c) PROVE LoneInv'
    <3>1. /\ pc'[s] = "read" /\ req'[s] = c /\ row'[s] = items[i]
          /\ items' = items /\ Exists(i)
      BY <1>1, <2>2 DEF Start, Read, TypeOK, board
    <3> QED BY <1>2, <2>2, <3>1 DEF LoneOK, Admitted, Exists
  <2>3. CASE BeginChange(s, i)
    BY <2>2, <2>3 DEF BeginChange, Command, Admitted
  <2>4. CASE BeginPropose(s, i)
    BY <2>2, <2>4 DEF BeginPropose, Command, Admitted
  <2>5. CASE BeginApprove(s, i)
    BY <2>2, <2>5 DEF BeginApprove, Command, Admitted
  <2>6. CASE BeginReject(s, i)
    BY <2>2, <2>6 DEF BeginReject, Command, Admitted
  <2> QED BY <1>4, <2>1, <2>3, <2>4, <2>5, <2>6 DEF Begin
<1>5. ASSUME NEW s \in Sessions, ReadForUpdate(s) PROVE LoneInv'
  <2>1. /\ pc[s] = "requested" /\ pc'[s] = "read" /\ req' = req /\ items' = items
        /\ row'[s] = items[req[s].item] /\ LoneOK(s)
    BY <1>1, <1>5 DEF ReadForUpdate, Read, TypeOK, board, LoneInv
  <2> QED BY <1>2, <2>1 DEF LoneOK, Admitted, Exists
<1>6. ASSUME NEW s \in Sessions, CheckProposal(s) PROVE LoneInv'
  <2>1. /\ pc[s] = "read" /\ pc'[s] = "checked" /\ req' = req /\ row' = row
        /\ items' = items /\ proposals' = proposals /\ LoneOK(s)
    BY <1>1, <1>6 DEF CheckProposal, TypeOK, LoneInv
  <2>2. ProposalChecked(req[s])'
    BY <1>6, <2>1 DEF CheckProposal, ProposalChecked, PendingProposals
  <2> QED BY <1>2, <2>1, <2>2 DEF LoneOK, Admitted, Exists
<1>7. ASSUME NEW s \in Sessions, Commit(s) \/ Rollback(s) PROVE LoneInv'
  BY <1>3, <1>7 DEF Commit, CommitUpdate, CommitChange, CommitPropose, CommitApprove,
                    CommitReject, Rollback
<1> QED BY <1>4, <1>5, <1>6, <1>7, CreateKeepsLone DEF Next

(* A client who sends one command after another gets the atomic commands of *)
(* TaskBoard: that each is split in statements adds no behaviour, aborted   *)
(* transactions included.                                                   *)
THEOREM LoneClientIsAtomic ==
  ASSUME Alone
  PROVE  Spec => AtomicCommands
<1>1. Init => BoardInit /\ LoneInv
  BY DEF Init, LoneInv, LoneOK
<1>2. IInv /\ LoneInv /\ [Next]_vars => LoneInv' /\ [BoardNext]_board
  <2>1. ASSUME IInv, LoneInv, UNCHANGED vars PROVE LoneInv' /\ UNCHANGED board
    BY <2>1 DEF vars, board, LoneInv, LoneOK, Exists, Admitted, ProposalChecked,
                PendingProposals
  <2> QED BY <2>1, StepKeepsLone, StepIsCommand
<1> QED BY <1>1, <1>2, Invariance, PTL DEF Spec, AtomicCommands, BoardSpec

----------------------------------------------------------------------------
(* The atomic commands keep the tables in order.                            *)

LEMMA BoardInitSafe == BoardInit => TablesOK
<1> SUFFICES ASSUME BoardInit PROVE TablesOK
  OBVIOUS
<1> QED BY DEF BoardInit, TablesOK, BoardTypeOK, RowsCoherent, CompletedIsAudited,
               SeriesIsFlat, Exists

LEMMA BoardStepSafe ==
  ASSUME TablesOK, BoardNext
  PROVE  TablesOK' /\ Monotone
<1>1. ASSUME NEW i \in Items, Exists(i) PROVE Snapshot(i, items[i]) /\ items[i] \in Row
  BY <1>1, ReadIsSnapshot DEF Snapshot
<1>2. ASSUME NEW i \in Items, NEW p \in PendingProposals(i)
      PROVE  p \in Proposals /\ proposals[p] # None /\ proposals[p].item = i
  BY <1>2 DEF PendingProposals
<1>3. ASSUME NEW i \in Manual, Create(i) PROVE TablesOK' /\ Monotone
  BY <1>3, BoardAssumption, CreateTxSafe DEF Create
<1>4. ASSUME NEW i \in Items, Update(i) PROVE TablesOK' /\ Monotone
  BY <1>1, <1>4, BoardAssumption, UpdateTxSafe DEF Update
<1>5. ASSUME NEW i \in Items, Change(i) PROVE TablesOK' /\ Monotone
  BY <1>1, <1>5, BoardAssumption, ChangeTxSafe DEF Change
<1>6. ASSUME NEW i \in Items, Propose(i) PROVE TablesOK' /\ Monotone
  BY <1>1, <1>6, ProposeTxSafe DEF Propose
<1>7. ASSUME NEW i \in Items, Approve(i) PROVE TablesOK' /\ Monotone
  BY <1>1, <1>2, <1>7, ApproveTxSafe DEF Approve
<1>8. ASSUME NEW i \in Items, Reject(i) PROVE TablesOK' /\ Monotone
  <2>1. {None, "PENDING", "IN_PROGRESS"} \subseteq Status \cup {None}
    BY DEF Status
  <2> QED BY <1>1, <1>2, <1>8, <2>1, RejectTxSafe DEF Reject
<1> QED BY <1>3, <1>4, <1>5, <1>6, <1>7, <1>8 DEF BoardNext

LEMMA UnchangedBoardSafe ==
  ASSUME TablesOK, UNCHANGED board
  PROVE  TablesOK'
BY UnchangedBoard

(* The atomic commands keep types, coherence, audit and series too.         *)
THEOREM BoardInvariance == BoardSpec => []TablesOK
BY BoardInitSafe, BoardStepSafe, UnchangedBoardSafe, PTL DEF BoardSpec

----------------------------------------------------------------------------
(* The shape of a board step: one row is written, or one and the instance   *)
(* that follows it, with the entries of the history that tell of it.        *)

StatusOf(i) == IF Exists(i) THEN items[i].status ELSE None
Statuses == [i \in Items |-> StatusOf(i)]

Kept == Statuses' = Statuses /\ history' = history

(* Task i goes to status `to' by a person's hand.                           *)
Moved(i, to, approved) ==
  /\ IF Exists(i) THEN CanTransition(StatusOf(i), to, "USER", approved) ELSE to = "PENDING"
  /\ Statuses' = [Statuses EXCEPT ![i] = to]
  /\ history' = Append(history, Log(i, StatusOf(i), to, "USER"))

ClosedAndSpawned(i, n) ==
  /\ StatusOf(i) = "COMPLETION_PROPOSED" /\ Exists(i) /\ ~Exists(n)
  /\ Statuses' = [Statuses EXCEPT ![i] = "COMPLETED", ![n] = "PENDING"]
  /\ history' = history \o <<Log(i, StatusOf(i), "COMPLETED", "USER"),
                             Log(n, None, "PENDING", "SYSTEM")>>

(* A row written back shows in the statuses only by its own.                *)
LEMMA RowShows ==
  ASSUME BoardTypeOK, NEW i \in Items, NEW r \in Row, items' = [items EXCEPT ![i] = r]
  PROVE  Statuses' = [Statuses EXCEPT ![i] = r.status]
<1>1. \A j \in Items : items'[j] = IF j = i THEN r ELSE items[j]
  BY DEF BoardTypeOK
<1>2. r # None
  BY NoneIsNoRow
<1>3. \A j \in Items : StatusOf(j)' = IF j = i THEN r.status ELSE StatusOf(j)
  BY <1>1, <1>2 DEF StatusOf, Exists
<1>4. Statuses' = [j \in Items |-> StatusOf(j)']
  BY DEF Statuses
<1> QED BY <1>3, <1>4 DEF Statuses

LEMMA StatusTxMoves ==
  ASSUME BoardTypeOK, NEW i \in Items, Exists(i), NEW r \in Row, r.status = items[i].status,
         NEW to \in Status, NEW canCancel \in BOOLEAN, StatusTx(i, r, to, canCancel)
  PROVE  Moved(i, to, FALSE)
<1>1. StatusChanged(r, to) \in Row /\ StatusChanged(r, to).status = to
  BY DEF StatusChanged, Row
<1>2. Statuses' = [Statuses EXCEPT ![i] = to]
  BY <1>1, RowShows DEF StatusTx
<1> QED BY <1>2 DEF Moved, StatusOf, StatusTx

(* What each command does to the statuses, the history and the proposals.   *)
CreateShape(i) ==
  /\ Moved(i, "PENDING", FALSE) /\ ~Exists(i)
  /\ items'[i].parent = None
  /\ UNCHANGED proposals
PlainShape(i) ==
  /\ Kept \/ \E to \in Status : Moved(i, to, FALSE) /\ Exists(i)
  /\ UNCHANGED proposals
ProposeShape(i) ==
  /\ PendingProposals(i) = {} /\ Exists(i)
  /\ Moved(i, "COMPLETION_PROPOSED", FALSE)
  /\ \E p \in Proposals :
       /\ proposals[p] = None
       /\ proposals' = [proposals EXCEPT ![p] = [item |-> i, status |-> "PENDING"]]
Reviewed(i, verdict) ==
  \E p \in PendingProposals(i) :
    proposals' = [proposals EXCEPT ![p] = [item |-> i, status |-> verdict]]
ApproveShape(i) ==
  /\ Reviewed(i, "APPROVED") /\ Exists(i)
  /\ Moved(i, "COMPLETED", TRUE) \/ \E n \in Items : ClosedAndSpawned(i, n)
RejectShape(i) ==
  /\ Reviewed(i, "REJECTED") /\ Exists(i)
  /\ \E to \in Status : Moved(i, to, FALSE)

BoardShape ==
  \E i \in Items :
    \/ CreateShape(i) \/ PlainShape(i) \/ ProposeShape(i) \/ ApproveShape(i) \/ RejectShape(i)

LEMMA ApproveMoves ==
  ASSUME TablesOK, NEW i \in Items, Approve(i)
  PROVE  ApproveShape(i)
<1>1. PICK p \in PendingProposals(i) : ApproveTx(i, items[i], p)
  BY DEF Approve
<1>2. Exists(i) /\ items[i] \in Row /\ BoardTypeOK
  BY DEF Approve, Exists, TablesOK, BoardTypeOK
<1>3. Reviewed(i, "APPROVED")
  BY <1>1 DEF ApproveTx, Reviewed
<1> DEFINE closed == StatusChanged(items[i], "COMPLETED")
<1>4. closed \in Row /\ closed.status = "COMPLETED"
  BY <1>2 DEF StatusChanged, Row, Status
<1>5. CanTransition(items[i].status, "COMPLETED", "USER", TRUE)
  BY <1>1 DEF ApproveTx
<1>6. CASE /\ items' = [items EXCEPT ![i] = closed]
           /\ history' = Append(history, Log(i, items[i].status, "COMPLETED", "USER"))
  <2>1. Statuses' = [Statuses EXCEPT ![i] = "COMPLETED"]
    BY <1>2, <1>4, <1>6, RowShows
  <2> QED BY <1>2, <1>3, <1>5, <1>6, <2>1 DEF ApproveShape, Moved, StatusOf
<1>7. ASSUME NEW n \in Items, NEW due \in Dates, ~Exists(n),
             items' = [items EXCEPT ![i] = closed, ![n] = Successor(i, items[i], due)],
             history' = history \o <<Log(i, items[i].status, "COMPLETED", "USER"),
                                     Log(n, None, "PENDING", "SYSTEM")>>
      PROVE  ApproveShape(i)
  <2>1. /\ Successor(i, items[i], due) \in Row
        /\ Successor(i, items[i], due).status = "PENDING"
    BY <1>2, SuccessorFacts DEF TablesOK
  <2>2. n # i /\ closed # None /\ Successor(i, items[i], due) # None
    BY <1>2, <1>4, <1>7, <2>1, NoneIsNoRow
  <2>3. \A j \in Items : items'[j] = IF j = n THEN Successor(i, items[i], due)
                                     ELSE IF j = i THEN closed ELSE items[j]
    BY <1>2, <1>7, <2>2 DEF BoardTypeOK
  <2>4. \A j \in Items : StatusOf(j)' = IF j = n THEN "PENDING"
                                        ELSE IF j = i THEN "COMPLETED" ELSE StatusOf(j)
    BY <1>4, <2>1, <2>2, <2>3 DEF StatusOf, Exists
  <2>5. Statuses' = [j \in Items |-> StatusOf(j)']
    BY DEF Statuses
  <2>6. Statuses' = [Statuses EXCEPT ![i] = "COMPLETED", ![n] = "PENDING"]
    BY <2>2, <2>4, <2>5 DEF Statuses
  <2>7. StatusOf(i) = "COMPLETION_PROPOSED"
    BY <1>2, <1>5 DEF StatusOf, CanTransition
  <2>8. ClosedAndSpawned(i, n)
    BY <1>2, <1>7, <2>6, <2>7 DEF ClosedAndSpawned, StatusOf
  <2> QED BY <1>2, <1>3, <2>8 DEF ApproveShape
<1> QED BY <1>1, <1>6, <1>7 DEF ApproveTx

LEMMA StepHasShape ==
  ASSUME TablesOK, BoardNext
  PROVE  BoardShape
<1>1. BoardTypeOK /\ \A i \in Items : Exists(i) => items[i] \in Row
  BY DEF TablesOK, BoardTypeOK, Exists
<1>2. ASSUME NEW i \in Manual, Create(i) PROVE BoardShape
  <2>1. PICK due \in Dates, recurring \in BOOLEAN : CreateTx(i, due, recurring)
    BY <1>2 DEF Create
  <2> DEFINE new == [status |-> "PENDING", dueDate |-> due, completedAt |-> FALSE,
                     cancelledAt |-> FALSE, recurring |-> recurring, parent |-> None]
  <2>2. i \in Items /\ new \in Row /\ new.status = "PENDING"
    BY BoardAssumption DEF Row, Status
  <2>3. Statuses' = [Statuses EXCEPT ![i] = "PENDING"]
    BY <1>1, <2>1, <2>2, RowShows DEF CreateTx
  <2>4. items'[i].parent = None
    BY <1>1, <2>1, <2>2 DEF CreateTx, BoardTypeOK
  <2>5. CreateShape(i)
    BY <2>1, <2>3, <2>4 DEF CreateTx, CreateShape, Moved, StatusOf
  <2> QED BY <2>2, <2>5 DEF BoardShape
<1>3. ASSUME NEW i \in Items, Update(i) PROVE BoardShape
  <2>1. PICK due \in Dates, to \in Requestable \cup {None}, canCancel \in BOOLEAN :
          UpdateTx(i, items[i], due, to, canCancel)
    BY <1>3 DEF Update
  <2> DEFINE next == [items[i] EXCEPT !.dueDate = due]
  <2>2. Exists(i) /\ next \in Row /\ next.status = items[i].status
    BY <1>1, <1>3 DEF Update, Row
  <2>3. CASE items' = [items EXCEPT ![i] = next] /\ UNCHANGED history
    <3>1. Statuses' = [Statuses EXCEPT ![i] = StatusOf(i)]
      BY <1>1, <2>2, <2>3, RowShows DEF StatusOf
    <3>2. Kept
      BY <2>3, <3>1 DEF Kept, Statuses
    <3> QED BY <2>1, <3>2 DEF UpdateTx, PlainShape, BoardShape
  <2>4. CASE to \notin {None, items[i].status} /\ StatusTx(i, next, to, canCancel)
    <3>1. to \in Status
      BY <2>4, BoardAssumption
    <3>2. Moved(i, to, FALSE)
      BY <1>1, <2>2, <2>4, <3>1, StatusTxMoves
    <3> QED BY <2>1, <2>2, <3>1, <3>2 DEF UpdateTx, PlainShape, BoardShape
  <2> QED BY <2>1, <2>3, <2>4 DEF UpdateTx
<1>4. ASSUME NEW i \in Items, Change(i) PROVE BoardShape
  <2>1. PICK to \in Requestable, canCancel \in BOOLEAN : ChangeTx(i, items[i], to, canCancel)
    BY <1>4 DEF Change
  <2>2. to \in Status /\ Exists(i)
    BY <1>4, BoardAssumption DEF Change
  <2>3. Moved(i, to, FALSE)
    BY <1>1, <2>1, <2>2, StatusTxMoves DEF ChangeTx
  <2> QED BY <2>1, <2>2, <2>3 DEF ChangeTx, PlainShape, BoardShape
<1>5. ASSUME NEW i \in Items, Propose(i) PROVE BoardShape
  <2>1. PICK p \in Proposals : ProposeTx(i, items[i], p)
    BY <1>5 DEF Propose
  <2>2. "COMPLETION_PROPOSED" \in Status /\ Exists(i) /\ PendingProposals(i) = {}
    BY <1>5 DEF Status, Propose
  <2>3. Moved(i, "COMPLETION_PROPOSED", FALSE)
    BY <1>1, <2>1, <2>2, StatusTxMoves DEF ProposeTx
  <2>4. ProposeShape(i)
    BY <2>1, <2>2, <2>3 DEF ProposeTx, ProposeShape
  <2> QED BY <2>4 DEF BoardShape
<1>6. ASSUME NEW i \in Items, Approve(i) PROVE BoardShape
  BY <1>6, ApproveMoves DEF BoardShape
<1>7. ASSUME NEW i \in Items, Reject(i) PROVE BoardShape
  <2>1. PICK p \in PendingProposals(i), wanted \in {None, "PENDING", "IN_PROGRESS"} :
          RejectTx(i, items[i], p, wanted)
    BY <1>7 DEF Reject
  <2>2. PICK to \in Status : to = ReturnStatus(i, wanted)
    BY DEF ReturnStatus, Status
  <2>3. Moved(i, to, FALSE) /\ Exists(i)
    BY <1>1, <1>7, <2>1, <2>2, StatusTxMoves DEF RejectTx, Reject
  <2>4. RejectShape(i)
    BY <2>1, <2>3 DEF RejectTx, RejectShape, Reviewed
  <2> QED BY <2>4 DEF BoardShape
<1> QED BY <1>2, <1>3, <1>4, <1>5, <1>6, <1>7 DEF BoardNext

----------------------------------------------------------------------------
(* The atomic commands implement the completion contract.                   *)

StatusPhase(s) ==
  CASE s = None -> "absent" [] s = "COMPLETED" -> "closed" [] s = "CANCELLED" -> "dropped"
    [] s = "COMPLETION_PROPOSED" -> "awaiting" [] OTHER -> "open"

LEMMA PhaseOfRow ==
  ASSUME NEW r \in Row \cup {None}
  PROVE  (IF r = None THEN "absent"
          ELSE CASE r.status = "COMPLETED" -> "closed" [] r.status = "CANCELLED" -> "dropped"
                 [] r.status = "COMPLETION_PROPOSED" -> "awaiting" [] OTHER -> "open")
           = StatusPhase(IF r # None THEN r.status ELSE None)
<1>1. CASE r = None
  BY <1>1, BoardAssumption DEF StatusPhase, Status
<1>2. CASE r # None
  <2>1. r.status \in Status /\ r.status # None
    BY <1>2, BoardAssumption DEF Row
  <2>2. CASE r.status \in {"COMPLETED", "CANCELLED", "COMPLETION_PROPOSED"}
    BY <1>2, <2>1, <2>2 DEF StatusPhase
  <2>3. CASE r.status \notin {"COMPLETED", "CANCELLED", "COMPLETION_PROPOSED"}
    BY <1>2, <2>1, <2>3 DEF StatusPhase
  <2> QED BY <2>2, <2>3
<1> QED BY <1>1, <1>2

LEMMA PhaseIsOfStatus ==
  /\ BoardTypeOK => Phase = [i \in Items |-> StatusPhase(Statuses[i])]
  /\ BoardTypeOK' => Phase' = [i \in Items |-> StatusPhase(Statuses'[i])]
<1>1. ASSUME BoardTypeOK PROVE Phase = [i \in Items |-> StatusPhase(Statuses[i])]
  <2>1. \A i \in Items : items[i] \in Row \cup {None}
    BY <1>1 DEF BoardTypeOK
  <2>2. \A i \in Items : PhaseOf(i) = StatusPhase(Statuses[i])
    BY <2>1, PhaseOfRow DEF PhaseOf, Statuses, StatusOf, Exists
  <2> QED BY <2>2 DEF Phase
<1>2. ASSUME BoardTypeOK' PROVE Phase' = [i \in Items |-> StatusPhase(Statuses'[i])]
  <2>1. \A i \in Items : items'[i] \in Row \cup {None}
    BY <1>2 DEF BoardTypeOK
  <2>2. \A i \in Items : PhaseOf(i)' = StatusPhase(Statuses'[i])
    BY <2>1, PhaseOfRow DEF PhaseOf, Statuses, StatusOf, Exists
  <2> QED BY <2>2 DEF Phase
<1> QED BY <1>1, <1>2

(* A transition of a person is a move of the contract, or stays in a phase. *)
LEMMA TransitionIsMove ==
  ASSUME NEW from \in Status, NEW to \in Status, CanTransition(from, to, "USER", FALSE)
  PROVE  \/ StatusPhase(from) = StatusPhase(to)
         \/ <<StatusPhase(from), StatusPhase(to)>> \in Contract!Moves
<1>1. to # "COMPLETED" /\ to \in HumanTransitions[from]
  BY DEF CanTransition
<1> QED BY <1>1, BoardAssumption
        DEF HumanTransitions, OpenForProposal, Status, StatusPhase, Contract!Moves

LEMMA InitKeepsContract == BoardInit => Contract!ContractInit
<1> SUFFICES ASSUME BoardInit PROVE Contract!ContractInit
  OBVIOUS
<1>1. Phase = [i \in Items |-> "absent"]
  BY DEF BoardInit, Phase, PhaseOf, Exists
<1>2. Granted = {}
  BY DEF BoardInit, Granted
<1> QED BY <1>1, <1>2 DEF Contract!ContractInit

(* A move of one task shows as one move of its phase.                       *)
LEMMA MovedPhase ==
  ASSUME BoardTypeOK, BoardTypeOK', NEW i \in Items, NEW to \in Status,
         Statuses' = [Statuses EXCEPT ![i] = to]
  PROVE  Phase' = [Phase EXCEPT ![i] = StatusPhase(to)]
<1>1. /\ Phase = [j \in Items |-> StatusPhase(Statuses[j])]
      /\ Phase' = [j \in Items |-> StatusPhase(Statuses'[j])]
  BY PhaseIsOfStatus
<1>2. \A j \in Items : Statuses'[j] = IF j = i THEN to ELSE Statuses[j]
  BY DEF Statuses
<1> QED BY <1>1, <1>2

LEMMA StatusesTyped ==
  ASSUME BoardTypeOK, NEW i \in Items
  PROVE  /\ Statuses[i] = StatusOf(i) /\ StatusOf(i) \in Status \cup {None}
         /\ Exists(i) => StatusOf(i) \in Status
         /\ Phase[i] = StatusPhase(StatusOf(i))
<1>1. StatusOf(i) \in Status \cup {None} /\ (Exists(i) => StatusOf(i) \in Status)
  BY DEF BoardTypeOK, Exists, StatusOf, Row
<1> QED BY <1>1, PhaseIsOfStatus DEF Statuses

(* Reviews only show in the contract when they are granted.                 *)
LEMMA GrantedShows ==
  ASSUME BoardTypeOK
  PROVE  /\ UNCHANGED proposals => Granted' = Granted
         /\ \A i \in Items, p \in Proposals :
              /\ proposals[p] = None
              /\ proposals' = [proposals EXCEPT ![p] = [item |-> i, status |-> "PENDING"]]
              => Granted' = Granted
         /\ \A i \in Items : Reviewed(i, "REJECTED") => Granted' = Granted
         /\ \A i \in Items : Reviewed(i, "APPROVED") =>
              \E p \in Proposals \ Granted : Granted' = Granted \cup {p}
<1>1. UNCHANGED proposals => Granted' = Granted
  BY DEF Granted
<1>2. ASSUME NEW i \in Items, NEW p \in Proposals, NEW verdict \in {"PENDING", "REJECTED"},
             proposals' = [proposals EXCEPT ![p] = [item |-> i, status |-> verdict]],
             proposals[p] = None \/ p \in PendingProposals(i)
      PROVE  Granted' = Granted
  <2>1. \A q \in Proposals : proposals'[q] = IF q = p THEN [item |-> i, status |-> verdict]
                                                    ELSE proposals[q]
    BY <1>2 DEF BoardTypeOK
  <2> QED BY <1>2, <2>1 DEF Granted, PendingProposals
<1>3. ASSUME NEW i \in Items, NEW p \in PendingProposals(i),
             proposals' = [proposals EXCEPT ![p] = [item |-> i, status |-> "APPROVED"]]
      PROVE  p \in Proposals \ Granted /\ Granted' = Granted \cup {p}
  <2>1. p \in Proposals \ Granted
    BY DEF PendingProposals, Granted
  <2>2. \A q \in Proposals : proposals'[q] = IF q = p THEN [item |-> i, status |-> "APPROVED"]
                                                    ELSE proposals[q]
    BY <1>3, <2>1 DEF BoardTypeOK
  <2>3. [item |-> i, status |-> "APPROVED"] # None
    BY NoneIsNoRow DEF Proposal
  <2> QED BY <2>1, <2>2, <2>3 DEF Granted
<1>4. \A i \in Items : PendingProposals(i) \subseteq Proposals
  BY DEF PendingProposals
<1> QED BY <1>1, <1>2, <1>3, <1>4 DEF Reviewed

LEMMA StepKeepsContract ==
  ASSUME TablesOK, BoardNext
  PROVE  [Contract!ContractNext]_(Contract!contract)
<1>1. BoardTypeOK /\ BoardTypeOK'
  BY BoardStepSafe DEF TablesOK
<1>2. PICK i \in Items :
        CreateShape(i) \/ PlainShape(i) \/ ProposeShape(i) \/ ApproveShape(i) \/ RejectShape(i)
  BY StepHasShape DEF BoardShape
<1>3. StatusPhase(None) = "absent" /\ StatusPhase("PENDING") = "open"
      /\ StatusPhase("COMPLETED") = "closed" /\ StatusPhase("COMPLETION_PROPOSED") = "awaiting"
  BY BoardAssumption DEF StatusPhase, Status
<1>4. \A j \in Items : /\ Phase[j] = StatusPhase(StatusOf(j))
                       /\ Exists(j) => StatusOf(j) \in Status
                       /\ ~Exists(j) => StatusOf(j) = None
  BY <1>1, StatusesTyped DEF StatusOf
<1>5. ASSUME NEW to \in Status, Moved(i, to, FALSE), Granted' = Granted, Exists(i) \/ to = "PENDING"
      PROVE  [Contract!ContractNext]_(Contract!contract)
  <2>1. Phase' = [Phase EXCEPT ![i] = StatusPhase(to)]
    BY <1>1, <1>5, MovedPhase DEF Moved
  <2>2. CASE Phase[i] = StatusPhase(to)
    <3>1. Phase' = Phase
      BY <2>1, <2>2 DEF Phase
    <3> QED BY <1>5, <3>1 DEF Contract!contract
  <2>3. CASE Phase[i] # StatusPhase(to)
    <3>1. <<Phase[i], StatusPhase(to)>> \in Contract!Moves
      <4>1. CASE Exists(i)
        BY <1>4, <1>5, <2>3, <4>1, TransitionIsMove DEF Moved
      <4>2. CASE ~Exists(i)
        BY <1>3, <1>4, <1>5, <4>2 DEF Moved, Contract!Moves
      <4> QED BY <4>1, <4>2
    <3>2. Contract!Move(i)
      BY <1>5, <2>1, <3>1 DEF Contract!Move
    <3> QED BY <3>2 DEF Contract!ContractNext
  <2> QED BY <2>2, <2>3
<1>6. CASE CreateShape(i)
  <2>1. Granted' = Granted /\ "PENDING" \in Status
    BY <1>1, <1>6, GrantedShows DEF CreateShape, Status
  <2> QED BY <1>5, <1>6, <2>1 DEF CreateShape
<1>7. CASE PlainShape(i)
  <2>1. Granted' = Granted
    BY <1>1, <1>7, GrantedShows DEF PlainShape
  <2>2. CASE Kept
    <3>1. Phase' = Phase
      BY <1>1, <2>2, PhaseIsOfStatus DEF Kept
    <3> QED BY <2>1, <3>1 DEF Contract!contract
  <2>3. CASE \E to \in Status : Moved(i, to, FALSE) /\ Exists(i)
    BY <1>5, <2>1, <2>3
  <2> QED BY <1>7, <2>2, <2>3 DEF PlainShape
<1>8. CASE ProposeShape(i)
  <2>1. Granted' = Granted /\ "COMPLETION_PROPOSED" \in Status
    BY <1>1, <1>8, GrantedShows DEF ProposeShape, Status
  <2> QED BY <1>5, <1>8, <2>1 DEF ProposeShape
<1>9. CASE RejectShape(i)
  <2>1. Granted' = Granted
    BY <1>1, <1>9, GrantedShows DEF RejectShape
  <2> QED BY <1>5, <1>9, <2>1 DEF RejectShape
<1>10. CASE ApproveShape(i)
  <2>1. PICK p \in Proposals \ Granted : Granted' = Granted \cup {p}
    BY <1>1, <1>10, GrantedShows DEF ApproveShape
  <2>2. CASE Moved(i, "COMPLETED", TRUE)
    <3>1. StatusOf(i) = "COMPLETION_PROPOSED"
      BY <1>10, <2>2 DEF ApproveShape, Moved, CanTransition
    <3>2. Phase[i] = "awaiting"
      BY <1>3, <1>4, <3>1
    <3>3. Phase' = [Phase EXCEPT ![i] = "closed"]
      BY <1>1, <1>3, <2>2, MovedPhase DEF Moved, Status
    <3>4. Contract!Close(i)
      BY <2>1, <3>2, <3>3 DEF Contract!Close
    <3> QED BY <3>4 DEF Contract!ContractNext
  <2>3. ASSUME NEW n \in Items, ClosedAndSpawned(i, n)
        PROVE  [Contract!ContractNext]_(Contract!contract)
    <3>1. Phase[i] = "awaiting" /\ Phase[n] = "absent" /\ n # i
      BY <1>3, <1>4, <2>3 DEF ClosedAndSpawned
    <3>2. \A j \in Items : Statuses'[j] = IF j = n THEN "PENDING"
                                         ELSE IF j = i THEN "COMPLETED" ELSE Statuses[j]
      BY <2>3, <3>1 DEF ClosedAndSpawned, Statuses
    <3>3. Phase' = [Phase EXCEPT ![i] = "closed", ![n] = "open"]
      <4>1. /\ Phase = [j \in Items |-> StatusPhase(Statuses[j])]
            /\ Phase' = [j \in Items |-> StatusPhase(Statuses'[j])]
        BY <1>1, PhaseIsOfStatus
      <4> QED BY <1>3, <3>1, <3>2, <4>1
    <3>4. Contract!Close(i)
      BY <2>1, <3>1, <3>3 DEF Contract!Close
    <3> QED BY <3>4 DEF Contract!ContractNext
  <2> QED BY <1>10, <2>2, <2>3 DEF ApproveShape
<1> QED BY <1>2, <1>6, <1>7, <1>8, <1>9, <1>10

(* The atomic commands implement the contract of ADR-010: closing a task    *)
(* takes an approval of its own, and nothing else closes it.                *)
THEOREM BoardKeepsContract == BoardSpec => KeepsContract
<1>1. BoardInit => Contract!ContractInit
  BY InitKeepsContract
<1>2. TablesOK /\ [BoardNext]_board => [Contract!ContractNext]_(Contract!contract)
  <2>1. UNCHANGED board => UNCHANGED Contract!contract
    BY DEF board, Contract!contract, Phase, PhaseOf, Exists, Granted
  <2> QED BY <2>1, StepKeepsContract
<1> QED BY <1>1, <1>2, BoardInvariance, PTL DEF BoardSpec, KeepsContract, Contract!ContractSpec

(* So does a client who is alone, through commands split in statements.     *)
THEOREM LoneClientKeepsContract ==
  ASSUME Alone
  PROVE  Spec => KeepsContract
BY LoneClientIsAtomic, BoardKeepsContract, PTL DEF AtomicCommands

----------------------------------------------------------------------------
(* One review open per task.                                                *)

LEMMA StepKeepsOnePending ==
  ASSUME TablesOK, OnePendingProposal, BoardNext
  PROVE  OnePendingProposal'
<1>1. PICK i \in Items :
        CreateShape(i) \/ PlainShape(i) \/ ProposeShape(i) \/ ApproveShape(i) \/ RejectShape(i)
  BY StepHasShape DEF BoardShape
<1>2. proposals \in [Proposals -> Proposal \cup {None}]
  BY DEF TablesOK, BoardTypeOK
<1>3. CASE UNCHANGED proposals
  BY <1>3 DEF OnePendingProposal, PendingProposals
<1>4. ASSUME NEW p \in Proposals, NEW verdict \in {"APPROVED", "REJECTED"},
             proposals' = [proposals EXCEPT ![p] = [item |-> i, status |-> verdict]]
      PROVE  OnePendingProposal'
  <2>1. \A j \in Items : PendingProposals(j)' \subseteq PendingProposals(j)
    BY <1>2, <1>4 DEF PendingProposals
  <2> QED BY <2>1 DEF OnePendingProposal
<1>5. CASE ProposeShape(i)
  <2>1. PICK p \in Proposals :
          proposals' = [proposals EXCEPT ![p] = [item |-> i, status |-> "PENDING"]]
    BY <1>5 DEF ProposeShape
  <2>2. /\ \A j \in Items \ {i} : PendingProposals(j)' \subseteq PendingProposals(j)
        /\ PendingProposals(i)' \subseteq PendingProposals(i) \cup {p}
    BY <1>2, <2>1 DEF PendingProposals
  <2>3. PendingProposals(i) = {}
    BY <1>5 DEF ProposeShape
  <2> QED BY <2>2, <2>3 DEF OnePendingProposal
<1>6. \A j \in Items : PendingProposals(j) \subseteq Proposals
  BY DEF PendingProposals
<1> QED BY <1>1, <1>3, <1>4, <1>5, <1>6
        DEF CreateShape, PlainShape, ApproveShape, RejectShape, Reviewed

(* Two closures of a task are never open for review at once.                *)
THEOREM LoneClientReviewsOnce ==
  ASSUME Alone
  PROVE  Spec => []OnePendingProposal
<1>1. BoardInit => OnePendingProposal
  BY DEF BoardInit, OnePendingProposal, PendingProposals
<1>2. TablesOK /\ OnePendingProposal /\ [BoardNext]_board => OnePendingProposal'
  <2>1. OnePendingProposal /\ UNCHANGED board => OnePendingProposal'
    BY DEF OnePendingProposal, PendingProposals, board
  <2> QED BY <2>1, StepKeepsOnePending
<1> QED BY <1>1, <1>2, LoneClientIsAtomic, BoardInvariance, PTL DEF BoardSpec, AtomicCommands

----------------------------------------------------------------------------
(* The history of a task tells its whole life.                              *)

(* History h leads every task from nothing to its status in st.             *)
Chain(st, h) ==
  /\ \A k, l \in DOMAIN h :
       /\ k < l /\ h[k].item = h[l].item
       /\ \A m \in (k + 1)..(l - 1) : h[m].item # h[k].item
       => h[l].from = h[k].to
  /\ \A k \in DOMAIN h :
       (\A m \in DOMAIN h : h[m].item = h[k].item => k <= m) => h[k].from = None
  /\ \A k \in DOMAIN h :
       (\A m \in DOMAIN h : h[m].item = h[k].item => m <= k) => st[h[k].item] = h[k].to
  /\ \A i \in Items : (\A k \in DOMAIN h : h[k].item # i) => st[i] = None

(* One more entry, from the status the task has to the one it gets.         *)
LEMMA ChainExtends ==
  ASSUME NEW h \in Seq(Entry), NEW st \in [Items -> Status \cup {None}], NEW e \in Entry,
         Chain(st, h), e.from = st[e.item]
  PROVE  Chain([st EXCEPT ![e.item] = e.to], Append(h, e))
<1> DEFINE n == Len(h)
           g == Append(h, e)
           after == [st EXCEPT ![e.item] = e.to]
<1>1. /\ n \in Nat /\ DOMAIN h = 1..n /\ DOMAIN g = 1..(n + 1)
      /\ g[n + 1] = e /\ \A k \in 1..n : g[k] = h[k]
  OBVIOUS
<1>2. /\ e.item \in Items /\ \A k \in 1..n : h[k].item \in Items
      /\ \A i \in Items : after[i] = IF i = e.item THEN e.to ELSE st[i]
  <2>1. \A k \in 1..n : h[k] \in Entry
    BY <1>1
  <2>2. e.item \in Items /\ \A k \in 1..n : h[k].item \in Items
    BY <2>1 DEF Entry
  <2> QED BY <2>2
<1> HIDE DEF n, g, after
<1>3. ASSUME NEW k \in 1..(n + 1), NEW l \in 1..(n + 1), k < l, g[k].item = g[l].item,
             \A m \in (k + 1)..(l - 1) : g[m].item # g[k].item
      PROVE  g[l].from = g[k].to
  <2>1. k \in 1..n /\ g[k] = h[k]
    BY <1>1, <1>3
  <2>2. CASE l \in 1..n
    <3>1. g[l] = h[l] /\ \A m \in (k + 1)..(l - 1) : g[m] = h[m]
      BY <1>1, <2>1, <2>2
    <3>2. \A m \in (k + 1)..(l - 1) : h[m].item # h[k].item
      BY <1>3, <2>1, <3>1
    <3> QED BY <1>1, <1>3, <2>1, <2>2, <3>1, <3>2 DEF Chain
  <2>3. CASE l = n + 1
    <3>1. \A m \in (k + 1)..n : h[m].item # h[k].item
      <4>1. \A m \in (k + 1)..n : g[m] = h[m] /\ m \in (k + 1)..(l - 1)
        BY <1>1, <2>1, <2>3
      <4> QED BY <1>3, <2>1, <4>1
    <3>2. \A m \in DOMAIN h : h[m].item = h[k].item => m <= k
      BY <1>1, <2>1, <3>1
    <3>3. st[h[k].item] = h[k].to
      BY <1>1, <2>1, <3>2 DEF Chain
    <3> QED BY <1>1, <1>3, <2>1, <2>3, <3>3
  <2> QED BY <1>1, <2>2, <2>3
<1>4. ASSUME NEW k \in 1..(n + 1),
             \A m \in 1..(n + 1) : g[m].item = g[k].item => k <= m
      PROVE  g[k].from = None
  <2>1. CASE k \in 1..n
    <3>1. \A m \in 1..n : h[m].item = h[k].item => k <= m
      BY <1>1, <1>4, <2>1
    <3> QED BY <1>1, <2>1, <3>1 DEF Chain
  <2>2. CASE k = n + 1
    <3>1. \A m \in 1..n : h[m].item # e.item
      BY <1>1, <1>4, <2>2
    <3>2. st[e.item] = None
      BY <1>1, <1>2, <3>1 DEF Chain
    <3> QED BY <1>1, <2>2, <3>2
  <2> QED BY <1>1, <2>1, <2>2
<1>5. ASSUME NEW k \in 1..(n + 1),
             \A m \in 1..(n + 1) : g[m].item = g[k].item => m <= k
      PROVE  after[g[k].item] = g[k].to
  <2>1. CASE k \in 1..n
    <3>1. h[k].item # e.item /\ \A m \in 1..n : h[m].item = h[k].item => m <= k
      BY <1>1, <1>5, <2>1
    <3>2. st[h[k].item] = h[k].to
      BY <1>1, <2>1, <3>1 DEF Chain
    <3> QED BY <1>1, <1>2, <2>1, <3>1, <3>2
  <2>2. CASE k = n + 1
    BY <1>1, <1>2, <2>2
  <2> QED BY <1>1, <2>1, <2>2
<1>6. ASSUME NEW i \in Items, \A k \in 1..(n + 1) : g[k].item # i PROVE after[i] = None
  <2>1. i # e.item /\ \A k \in 1..n : h[k].item # i
    BY <1>1, <1>6
  <2> QED BY <1>1, <1>2, <2>1 DEF Chain
<1>7. Chain(after, g)
  BY <1>1, <1>3, <1>4, <1>5, <1>6 DEF Chain
<1> QED BY <1>7 DEF after, g

ChainInv == Chain(Statuses, history)

LEMMA StepKeepsChain ==
  ASSUME TablesOK, ChainInv, BoardNext
  PROVE  ChainInv'
<1>1. PICK i \in Items :
        CreateShape(i) \/ PlainShape(i) \/ ProposeShape(i) \/ ApproveShape(i) \/ RejectShape(i)
  BY StepHasShape DEF BoardShape
<1>2. /\ history \in Seq(Entry) /\ Statuses \in [Items -> Status \cup {None}]
      /\ \A j \in Items : Statuses[j] = StatusOf(j) /\ StatusOf(j) \in Status \cup {None}
  BY StatusesTyped DEF TablesOK, BoardTypeOK, Statuses
<1>3. ASSUME NEW to \in Status, NEW approved, Moved(i, to, approved) PROVE ChainInv'
  <2>1. PICK e \in Entry : /\ e = Log(i, StatusOf(i), to, "USER")
                          /\ e.item = i /\ e.from = StatusOf(i) /\ e.to = to
    BY <1>2, LogFacts
  <2> QED BY <1>2, <1>3, <2>1, ChainExtends DEF Moved, ChainInv
<1>4. CASE Kept
  BY <1>4 DEF Kept, ChainInv
<1>5. ASSUME NEW n \in Items, ClosedAndSpawned(i, n) PROVE ChainInv'
  <2>1. {"COMPLETED", "PENDING"} \subseteq Status
    BY DEF Status
  <2>2. PICK e \in Entry : /\ e = Log(i, StatusOf(i), "COMPLETED", "USER")
                          /\ e.item = i /\ e.from = StatusOf(i) /\ e.to = "COMPLETED"
    BY <1>2, <2>1, LogFacts
  <2>3. PICK f \in Entry : /\ f = Log(n, None, "PENDING", "SYSTEM")
                          /\ f.item = n /\ f.from = None /\ f.to = "PENDING"
    BY <2>1, LogFacts
  <2> DEFINE between == [Statuses EXCEPT ![i] = "COMPLETED"]
  <2>4. Chain(between, Append(history, e))
    BY <1>2, <2>2, ChainExtends DEF ChainInv
  <2>5. /\ between \in [Items -> Status \cup {None}] /\ Append(history, e) \in Seq(Entry)
        /\ n # i /\ between[n] = None
    BY <1>2, <1>5, <2>1, <2>2 DEF ClosedAndSpawned, StatusOf
  <2> HIDE DEF between
  <2>6. Chain([between EXCEPT ![n] = "PENDING"], Append(Append(history, e), f))
    BY <2>3, <2>4, <2>5, ChainExtends
  <2>7. Append(Append(history, e), f) = history \o <<e, f>>
    BY <1>2, <2>2, <2>3
  <2>8. Statuses' = [between EXCEPT ![n] = "PENDING"]
    BY <1>2, <1>5, <2>5 DEF ClosedAndSpawned, between
  <2>9. history' = history \o <<e, f>>
    BY <1>5, <2>2, <2>3 DEF ClosedAndSpawned
  <2> QED BY <2>6, <2>7, <2>8, <2>9 DEF ChainInv
<1>6. {"PENDING", "COMPLETION_PROPOSED", "COMPLETED"} \subseteq Status
  BY DEF Status
<1> QED BY <1>1, <1>3, <1>4, <1>5, <1>6
        DEF CreateShape, PlainShape, ProposeShape, ApproveShape, RejectShape

LEMMA ChainIsHistory ==
  ASSUME TablesOK, ChainInv
  PROVE  HistoryIsAChain
<1>1. \A k \in DOMAIN history : history[k].item \in Items /\ history[k].to \in Status
  <2>1. \A k \in DOMAIN history : history[k] \in Entry
    BY DEF TablesOK, BoardTypeOK
  <2> QED BY <2>1 DEF Entry
<1>2. ASSUME NEW k \in DOMAIN history,
             \A m \in DOMAIN history : history[m].item = history[k].item => m <= k
      PROVE  items[history[k].item].status = history[k].to
  <2>1. StatusOf(history[k].item) = history[k].to
    BY <1>1, <1>2 DEF ChainInv, Chain, Statuses
  <2>2. Exists(history[k].item)
    BY <1>1, <2>1, BoardAssumption DEF StatusOf
  <2> QED BY <2>1, <2>2 DEF StatusOf
<1> QED BY <1>1, <1>2 DEF ChainInv, Chain, HistoryIsAChain

(* Every entry of a task starts where the one before ended, and the last    *)
(* one ends at the status of the row.                                       *)
THEOREM LoneClientIsTold ==
  ASSUME Alone
  PROVE  Spec => []HistoryIsAChain
<1>1. BoardInit => ChainInv
  BY DEF BoardInit, ChainInv, Chain, Statuses, StatusOf, Exists
<1>2. TablesOK /\ ChainInv /\ [BoardNext]_board => ChainInv'
  <2>1. ChainInv /\ UNCHANGED board => ChainInv'
    BY DEF ChainInv, Statuses, StatusOf, Exists, board
  <2> QED BY <2>1, StepKeepsChain
<1>3. TablesOK /\ ChainInv => HistoryIsAChain
  BY ChainIsHistory
<1> QED BY <1>1, <1>2, <1>3, LoneClientIsAtomic, BoardInvariance, PTL
        DEF BoardSpec, AtomicCommands

----------------------------------------------------------------------------
(* Every instance of a recurring task is paid by an approval.               *)

Instances == {i \in Items : Exists(i) /\ items[i].parent # None}

(* Only the approval of a recurring task adds an instance, and it grants a  *)
(* review that was not granted before.                                      *)
LEMMA InstancesGrow ==
  ASSUME TablesOK, BoardNext
  PROVE  \/ Instances' \subseteq Instances /\ Granted \subseteq Granted'
         \/ \E n \in Items, p \in Proposals \ Granted :
              Instances' \subseteq Instances \cup {n} /\ Granted' = Granted \cup {p}
<1>1. PICK i \in Items :
        CreateShape(i) \/ PlainShape(i) \/ ProposeShape(i) \/ ApproveShape(i) \/ RejectShape(i)
  BY StepHasShape DEF BoardShape
<1>2. BoardTypeOK /\ BoardTypeOK' /\ Monotone
  BY BoardStepSafe DEF TablesOK
<1>3. \A j \in Items : Exists(j) => (j \in Instances' <=> j \in Instances)
  BY <1>2 DEF Instances, Monotone
<1>4. /\ \A j \in Items : Exists(j) <=> Statuses[j] # None
      /\ \A j \in Items : Exists(j)' <=> Statuses'[j] # None
  <2>1. ASSUME NEW j \in Items PROVE Exists(j) <=> Statuses[j] # None
    BY <1>2, BoardAssumption DEF Statuses, StatusOf, Exists, BoardTypeOK, Row
  <2>2. ASSUME NEW j \in Items PROVE Exists(j)' <=> Statuses'[j] # None
    BY <1>2, BoardAssumption DEF Statuses, StatusOf, Exists, BoardTypeOK, Row
  <2> QED BY <2>1, <2>2
<1>5. ASSUME \A j \in Items : Exists(j)' => Exists(j) PROVE Instances' \subseteq Instances
  BY <1>3, <1>5 DEF Instances
<1>6. ASSUME NEW to, NEW approved, Moved(i, to, approved), Exists(i)
      PROVE  Instances' \subseteq Instances
  <2>1. \A j \in Items : j # i => Statuses'[j] = Statuses[j]
    BY <1>6 DEF Moved, Statuses
  <2> QED BY <1>4, <1>5, <1>6, <2>1
<1>7. CASE CreateShape(i)
  <2>1. Granted' = Granted
    BY <1>2, <1>7, GrantedShows DEF CreateShape
  <2>2. \A j \in Items : j # i => (Exists(j)' <=> Exists(j))
    <3>1. \A j \in Items : j # i => Statuses'[j] = Statuses[j]
      BY <1>7 DEF CreateShape, Moved, Statuses
    <3> QED BY <1>4, <3>1
  <2>3. i \notin Instances'
    BY <1>7 DEF CreateShape, Instances
  <2>4. Instances' \subseteq Instances
    BY <1>3, <2>2, <2>3 DEF Instances
  <2> QED BY <2>1, <2>4
<1>8. CASE PlainShape(i)
  <2>1. Granted' = Granted
    BY <1>2, <1>8, GrantedShows DEF PlainShape
  <2>2. Kept => Instances' \subseteq Instances
    BY <1>4, <1>5 DEF Kept
  <2> QED BY <1>6, <1>8, <2>1, <2>2 DEF PlainShape
<1>9. CASE ProposeShape(i)
  <2>1. Granted' = Granted
    BY <1>2, <1>9, GrantedShows DEF ProposeShape
  <2> QED BY <1>6, <1>9, <2>1 DEF ProposeShape
<1>10. CASE RejectShape(i)
  <2>1. Granted' = Granted
    BY <1>2, <1>10, GrantedShows DEF RejectShape
  <2> QED BY <1>6, <1>10, <2>1 DEF RejectShape
<1>11. CASE ApproveShape(i)
  <2>1. PICK p \in Proposals \ Granted : Granted' = Granted \cup {p}
    BY <1>2, <1>11, GrantedShows DEF ApproveShape
  <2>2. CASE Moved(i, "COMPLETED", TRUE)
    BY <1>6, <1>11, <2>1, <2>2 DEF ApproveShape
  <2>3. ASSUME NEW n \in Items, ClosedAndSpawned(i, n)
        PROVE  Instances' \subseteq Instances \cup {n}
    <3>1. \A j \in Items : j \notin {i, n} => Statuses'[j] = Statuses[j]
      BY <2>3 DEF ClosedAndSpawned, Statuses
    <3>2. \A j \in Items : j # n => (Exists(j)' => Exists(j))
      BY <1>4, <2>3, <3>1 DEF ClosedAndSpawned
    <3> QED BY <1>3, <3>2 DEF Instances
  <2> QED BY <1>11, <2>1, <2>2, <2>3 DEF ApproveShape
<1> QED BY <1>1, <1>7, <1>8, <1>9, <1>10, <1>11

Paid == Cardinality(Instances) <= Cardinality(Granted)

LEMMA StepPays ==
  ASSUME IsFiniteSet(Items), IsFiniteSet(Proposals), TablesOK, Paid, BoardNext
  PROVE  Paid'
<1>1. /\ Instances \in SUBSET Items /\ Instances' \in SUBSET Items
      /\ Granted \in SUBSET Proposals /\ Granted' \in SUBSET Proposals
  BY DEF Instances, Granted
<1>2. /\ IsFiniteSet(Instances) /\ IsFiniteSet(Instances')
      /\ IsFiniteSet(Granted) /\ IsFiniteSet(Granted')
  BY <1>1, FS_Subset
<1>3. /\ Cardinality(Instances) \in Nat /\ Cardinality(Instances') \in Nat
      /\ Cardinality(Granted) \in Nat /\ Cardinality(Granted') \in Nat
  BY <1>2, FS_CardinalityType
<1>4. CASE Instances' \subseteq Instances /\ Granted \subseteq Granted'
  <2>1. Cardinality(Instances') <= Cardinality(Instances)
    BY <1>2, <1>4, FS_Subset
  <2>2. Cardinality(Granted) <= Cardinality(Granted')
    BY <1>2, <1>4, FS_Subset
  <2>3. Cardinality(Instances') <= Cardinality(Granted')
    BY <1>3, <2>1, <2>2 DEF Paid
  <2> QED BY <2>3 DEF Paid
<1>5. ASSUME NEW n \in Items, NEW p \in Proposals \ Granted,
             Instances' \subseteq Instances \cup {n}, Granted' = Granted \cup {p}
      PROVE  Paid'
  <2>1. /\ IsFiniteSet(Instances \cup {n})
        /\ Cardinality(Instances \cup {n}) <= Cardinality(Instances) + 1
    <3>1. /\ IsFiniteSet(Instances \cup {n})
          /\ Cardinality(Instances \cup {n})
               = IF n \in Instances THEN Cardinality(Instances) ELSE Cardinality(Instances) + 1
      BY <1>2, FS_AddElement
    <3> QED BY <1>3, <3>1
  <2>2. Cardinality(Instances') <= Cardinality(Instances \cup {n})
    BY <1>5, <2>1, FS_Subset
  <2>3. Cardinality(Granted') = Cardinality(Granted) + 1
    BY <1>2, <1>5, FS_AddElement
  <2>4. Cardinality(Instances \cup {n}) \in Nat
    BY <2>1, FS_CardinalityType
  <2>5. Cardinality(Instances') <= Cardinality(Granted')
    BY <1>3, <2>1, <2>2, <2>3, <2>4 DEF Paid
  <2> QED BY <2>5 DEF Paid
<1> QED BY <1>4, <1>5, InstancesGrow

(* A recurring task gets at most one next instance for each approval.       *)
THEOREM LoneClientPays ==
  ASSUME Alone, IsFiniteSet(Items), IsFiniteSet(Proposals)
  PROVE  Spec => []InstancesArePaid
<1>1. BoardInit => Paid
  <2> SUFFICES ASSUME BoardInit PROVE Paid
    OBVIOUS
  <2>1. Instances = {} /\ Granted = {}
    BY DEF BoardInit, Instances, Granted, Exists
  <2>2. Cardinality({}) <= Cardinality({})
    BY FS_EmptySet
  <2> QED BY <2>1, <2>2 DEF Paid
<1>2. TablesOK /\ Paid /\ [BoardNext]_board => Paid'
  <2>1. ASSUME Paid, UNCHANGED board PROVE Paid'
    <3>1. Instances' = Instances /\ Granted' = Granted
      BY <2>1 DEF Instances, Granted, Exists, board
    <3> QED BY <2>1, <3>1 DEF Paid
  <2> QED BY <2>1, StepPays
<1>3. Paid => InstancesArePaid
  BY DEF Paid, Instances, Granted, InstancesArePaid
<1> QED BY <1>1, <1>2, <1>3, LoneClientIsAtomic, BoardInvariance, PTL
        DEF BoardSpec, AtomicCommands
=============================================================================
