-------------------------- MODULE ActionItemsProofs --------------------------
(***************************************************************************)
(* For any number of sessions, tasks and proposals: the rows of the task   *)
(* tables stay well typed and coherent, a series of recurring tasks stays  *)
(* flat, and a completed task has its audited approval.                    *)
(*                                                                         *)
(* None of these is inductive over the tables alone, because a commit      *)
(* writes back a row read several steps before.  The inductive invariant   *)
(* says of every row a session holds what is claimed of the row in the     *)
(* table; it survives the other sessions' commits because each transaction *)
(* only adds to what the claims rest on (Monotone).                        *)
(***************************************************************************)
EXTENDS ActionItems, TLAPS

(* Row r is one that task i has, or had when it was read.                   *)
Snapshot(i, r) ==
  /\ i \in Items
  /\ Exists(i)
  /\ r \in Row
  /\ Coherent(r)
  /\ r.status = "COMPLETED" => Audited(i)
  /\ r.parent = items[i].parent
  /\ r.recurring = items[i].recurring

(* The command of a session has the parameters its commit uses.             *)
RequestOK(c) ==
  /\ c \in Request
  /\ c.op = "update" => c.due \in Dates
  /\ c.op = "change" => c.to \in Status
  /\ c.op \in {"approve", "reject"} => c.proposal \in Proposals

(* The proposal under review is one of the task, reviewed meanwhile or not. *)
ReviewsOwn(c) ==
  c.op \in {"approve", "reject"} =>
    proposals[c.proposal] # None /\ proposals[c.proposal].item = c.item

SessionOK(s) ==
  /\ pc[s] # "idle" => RequestOK(req[s])
  /\ pc[s] = "requested" => Exists(req[s].item) /\ req[s].op = "update"
  /\ pc[s] \in {"read", "checked"} => Snapshot(req[s].item, row[s])
  /\ pc[s] = "checked" => ReviewsOwn(req[s])

TablesOK == BoardTypeOK /\ RowsCoherent /\ CompletedIsAudited /\ SeriesIsFlat

IInv == TypeOK /\ TablesOK /\ \A s \in Sessions : SessionOK(s)

(* What a step never takes away from the tables.                            *)
Monotone ==
  /\ \A i \in Items :
       Exists(i) => /\ Exists(i)'
                    /\ items'[i].parent = items[i].parent
                    /\ items'[i].recurring = items[i].recurring
  /\ \A i \in Items : Audited(i) => Audited(i)'
  /\ \A p \in Proposals :
       proposals[p] # None =>
         proposals'[p] # None /\ proposals'[p].item = proposals[p].item

----------------------------------------------------------------------------
(* The state machine and the rows.                                          *)

(* What canTransition lets a person do about COMPLETED.                     *)
LEMMA TransitionFacts ==
  ASSUME NEW from \in Status, NEW to \in Status, NEW approved \in BOOLEAN,
         CanTransition(from, to, "USER", approved)
  PROVE  /\ to = "COMPLETED" => from = "COMPLETION_PROPOSED" /\ approved
         /\ from = "COMPLETED" => to = "IN_PROGRESS"
<1>1. CASE to = "COMPLETED"
  BY <1>1 DEF CanTransition
<1>2. CASE to # "COMPLETED"
  <2>1. to \in HumanTransitions[from]
    BY <1>2 DEF CanTransition
  <2>2. HumanTransitions["COMPLETED"] = {"IN_PROGRESS"}
    BY DEF HumanTransitions, OpenForProposal, Status
  <2> QED  BY <1>2, <2>1, <2>2
<1> QED  BY <1>1, <1>2

(* applyStatusChange keeps a row a coherent row of the same series.         *)
LEMMA StatusChangedFacts ==
  ASSUME NEW r \in Row, Coherent(r), NEW s \in Status, NEW approved \in BOOLEAN,
         CanTransition(r.status, s, "USER", approved)
  PROVE  /\ StatusChanged(r, s) \in Row
         /\ Coherent(StatusChanged(r, s))
         /\ StatusChanged(r, s).status = s
         /\ StatusChanged(r, s).parent = r.parent
         /\ StatusChanged(r, s).recurring = r.recurring
<1>1. r.status \in Status
  BY DEF Row
<1>2. r.status = "COMPLETED" => s = "IN_PROGRESS"
  BY <1>1, TransitionFacts
<1>3. s # r.status
  BY DEF CanTransition
<1> QED  BY <1>1, <1>2, <1>3 DEF Row, StatusChanged, Coherent

(* The next instance is open, coherent and in the series of its source.     *)
LEMMA SuccessorFacts ==
  ASSUME NEW i \in Items, NEW r \in Row, NEW due \in Dates
  PROVE  /\ Successor(i, r, due) \in Row
         /\ Coherent(Successor(i, r, due))
         /\ Successor(i, r, due).status = "PENDING"
         /\ Successor(i, r, due).parent = IF r.parent = None THEN i ELSE r.parent
         /\ Successor(i, r, due).recurring = r.recurring
<1>1. r.completedAt \in BOOLEAN /\ r.cancelledAt \in BOOLEAN
  BY DEF Row
<1> QED  BY <1>1 DEF Row, Successor, Coherent, Status

----------------------------------------------------------------------------
(* The history and the proposals only grow.                                 *)

HistoryGrows ==
  /\ history \in Seq(Entry)
  /\ history' \in Seq(Entry)
  /\ Len(history) <= Len(history')
  /\ \A k \in 1..Len(history) : history'[k] = history[k]

ProposalsGrow ==
  \A p \in Proposals :
    proposals[p] # None =>
      /\ proposals'[p] # None
      /\ proposals'[p].item = proposals[p].item
      /\ proposals[p].status # "PENDING" => proposals'[p].status # "PENDING"

(* What was audited stays audited.                                          *)
LEMMA AuditedSurvives ==
  ASSUME HistoryGrows, ProposalsGrow
  PROVE  \A i \in Items : Audited(i) => Audited(i)'
<1> TAKE i \in Items
<1> HAVE Audited(i)
<1>1. ApprovalLogged(i)'
  <2>1. PICK k \in DOMAIN history :
          /\ history[k].item = i /\ history[k].by = "USER"
          /\ history[k].from = "COMPLETION_PROPOSED" /\ history[k].to = "COMPLETED"
    BY DEF Audited, ApprovalLogged
  <2>2. k \in 1..Len(history) /\ k \in DOMAIN history'
    BY DEF HistoryGrows
  <2>3. history'[k] = history[k]
    BY <2>2 DEF HistoryGrows
  <2> QED  BY <2>1, <2>2, <2>3 DEF ApprovalLogged
<1>2. ClosureReviewed(i)'
  BY DEF Audited, ClosureReviewed, ProposalsGrow
<1> QED  BY <1>1, <1>2 DEF Audited

(* One more entry, or two, keep the ones there.                             *)
LEMMA AppendGrows ==
  ASSUME history \in Seq(Entry), NEW e \in Entry, history' = Append(history, e)
  PROVE  /\ HistoryGrows
         /\ Len(history) + 1 \in DOMAIN history'
         /\ history'[Len(history) + 1] = e
BY DEF HistoryGrows

LEMMA AppendTwoGrows ==
  ASSUME history \in Seq(Entry), NEW e \in Entry, NEW f \in Entry,
         history' = history \o <<e, f>>
  PROVE  /\ HistoryGrows
         /\ Len(history) + 1 \in DOMAIN history'
         /\ history'[Len(history) + 1] = e
<1>1. <<e, f>> \in Seq(Entry) /\ Len(<<e, f>>) = 2 /\ <<e, f>>[1] = e
  OBVIOUS
<1>2. history' \in Seq(Entry) /\ Len(history') = Len(history) + 2
  BY <1>1
<1>3. \A k \in 1..Len(history) : history'[k] = history[k]
  BY <1>1
<1>4. history'[Len(history) + 1] = e
  BY <1>1
<1> QED  BY <1>2, <1>3, <1>4 DEF HistoryGrows

----------------------------------------------------------------------------
(* Writing rows.                                                            *)

(* Writing back a coherent row of the same series keeps the tables in       *)
(* order, provided a completed row is audited by the time it is visible.    *)
LEMMA WriteRow ==
  ASSUME NEW i \in Items, Exists(i), NEW r \in Row, Coherent(r),
         r.parent = items[i].parent, r.recurring = items[i].recurring,
         items' = [items EXCEPT ![i] = r],
         r.status = "COMPLETED" => Audited(i)',
         TablesOK, HistoryGrows, ProposalsGrow,
         proposals' \in [Proposals -> Proposal \cup {None}]
  PROVE  TablesOK' /\ Monotone
<1>1. \A j \in Items : Audited(j) => Audited(j)'
  BY AuditedSurvives
<1>2. items \in [Items -> Row \cup {None}]
  BY DEF TablesOK, BoardTypeOK
<1>3. /\ items' \in [Items -> Row \cup {None}]
      /\ items'[i] = r
      /\ \A j \in Items \ {i} : items'[j] = items[j]
  BY <1>2
<1>4. r # None
  BY NoneIsNoRow
<1>5. \A j \in Items : Exists(j) <=> Exists(j)'
  BY <1>3, <1>4 DEF Exists
<1>6. \A j \in Items : Exists(j) => /\ items'[j].parent = items[j].parent
                                    /\ items'[j].recurring = items[j].recurring
  BY <1>3
<1>7. BoardTypeOK'
  BY <1>3 DEF BoardTypeOK, HistoryGrows
<1>8. RowsCoherent'
  BY <1>3, <1>5 DEF TablesOK, RowsCoherent, Coherent
<1>9. CompletedIsAudited'
  BY <1>1, <1>3, <1>5 DEF TablesOK, CompletedIsAudited
<1>10. SeriesIsFlat'
  <2> SUFFICES ASSUME NEW j \in Items, Exists(j)', items'[j].parent # None
               PROVE  /\ Exists(items[j].parent)'
                      /\ items'[items'[j].parent].parent = None
                      /\ items'[items'[j].parent].recurring
    BY DEF SeriesIsFlat
  <2>1. items'[j].parent = items[j].parent /\ Exists(j)
    BY <1>5, <1>6
  <2>2. items[j].parent \in Items
    BY <1>2, <2>1 DEF Exists, Row
  <2>3. /\ Exists(items[j].parent)
        /\ items[items[j].parent].parent = None
        /\ items[items[j].parent].recurring
    BY <2>1 DEF TablesOK, SeriesIsFlat
  <2> QED  BY <2>1, <2>2, <2>3, <1>5, <1>6
<1> QED  BY <1>1, <1>5, <1>6, <1>7, <1>8, <1>9, <1>10
         DEF TablesOK, Monotone, ProposalsGrow

----------------------------------------------------------------------------
(* Each transaction, given a row that was once the task's.                  *)

LEMMA LogFacts ==
  ASSUME NEW i \in Items, NEW from \in Status \cup {None}, NEW to \in Status,
         NEW by \in {"USER", "SYSTEM"}
  PROVE  /\ Log(i, from, to, by) \in Entry
         /\ Log(i, from, to, by).item = i /\ Log(i, from, to, by).from = from
         /\ Log(i, from, to, by).to = to /\ Log(i, from, to, by).by = by
BY DEF Log, Entry

LEMMA UnchangedProposalsGrow ==
  ASSUME UNCHANGED proposals
  PROVE  ProposalsGrow
BY DEF ProposalsGrow

(* An open transition leaves the tables in order whatever it does, within   *)
(* ProposalsGrow, to the proposals.                                         *)
LEMMA StatusTxSafe ==
  ASSUME TablesOK, NEW i \in Items, NEW r \in Row, Snapshot(i, r),
         NEW to \in Status, NEW canCancel \in BOOLEAN,
         StatusTx(i, r, to, canCancel), ProposalsGrow,
         proposals' \in [Proposals -> Proposal \cup {None}]
  PROVE  TablesOK' /\ Monotone
<1>1. CanTransition(r.status, to, "USER", FALSE)
  BY DEF StatusTx
<1>2. /\ StatusChanged(r, to) \in Row
      /\ Coherent(StatusChanged(r, to))
      /\ StatusChanged(r, to).status = to
      /\ StatusChanged(r, to).parent = items[i].parent
      /\ StatusChanged(r, to).recurring = items[i].recurring
  BY <1>1, StatusChangedFacts DEF Snapshot
<1>3. r.status \in Status
  BY DEF Row
<1>4. to # "COMPLETED"
  BY <1>1, <1>3, TransitionFacts
<1>5. Log(i, r.status, to, "USER") \in Entry
  BY <1>3, LogFacts
<1>6. HistoryGrows
  BY <1>5, AppendGrows DEF StatusTx, TablesOK, BoardTypeOK
<1>7. Exists(i) /\ items' = [items EXCEPT ![i] = StatusChanged(r, to)]
  BY DEF StatusTx, Snapshot
<1> QED  BY <1>2, <1>4, <1>6, <1>7, WriteRow

LEMMA UpdateTxSafe ==
  ASSUME TablesOK, NEW i \in Items, NEW r \in Row, Snapshot(i, r),
         NEW due \in Dates, NEW to \in Status \cup {None},
         NEW canCancel \in BOOLEAN, UpdateTx(i, r, due, to, canCancel)
  PROVE  TablesOK' /\ Monotone
<1> DEFINE next == [r EXCEPT !.dueDate = due]
<1>1. /\ next \in Row /\ Coherent(next) /\ next.status = r.status
      /\ next.parent = r.parent /\ next.recurring = r.recurring
  BY DEF Row, Snapshot, Coherent
<1>2. Snapshot(i, next)
  BY <1>1 DEF Snapshot
<1>3. ProposalsGrow /\ proposals' \in [Proposals -> Proposal \cup {None}]
  BY UnchangedProposalsGrow DEF UpdateTx, TablesOK, BoardTypeOK
<1> HIDE DEF next
<1>4. CASE to \in {None, r.status} /\ items' = [items EXCEPT ![i] = next]
           /\ UNCHANGED history
  <2>1. HistoryGrows
    BY <1>4 DEF HistoryGrows, TablesOK, BoardTypeOK
  <2>2. next.status = "COMPLETED" => Audited(i)'
    BY <1>2, <1>3, <2>1, AuditedSurvives DEF Snapshot
  <2>3. Exists(i) /\ next.parent = items[i].parent
                  /\ next.recurring = items[i].recurring
    BY <1>2 DEF Snapshot
  <2> QED  BY <1>1, <1>3, <1>4, <2>1, <2>2, <2>3, WriteRow
<1>5. CASE to \notin {None, r.status} /\ StatusTx(i, next, to, canCancel)
  <2>1. to \in Status
    BY <1>5
  <2> QED  BY <1>1, <1>2, <1>3, <1>5, <2>1, StatusTxSafe
<1> QED  BY <1>4, <1>5 DEF UpdateTx, next

LEMMA ChangeTxSafe ==
  ASSUME TablesOK, NEW i \in Items, NEW r \in Row, Snapshot(i, r),
         NEW to \in Status, NEW canCancel \in BOOLEAN,
         ChangeTx(i, r, to, canCancel)
  PROVE  TablesOK' /\ Monotone
<1>1. ProposalsGrow /\ proposals' \in [Proposals -> Proposal \cup {None}]
  BY UnchangedProposalsGrow DEF ChangeTx, TablesOK, BoardTypeOK
<1> QED  BY <1>1, StatusTxSafe DEF ChangeTx

LEMMA ProposeTxSafe ==
  ASSUME TablesOK, NEW i \in Items, NEW r \in Row, Snapshot(i, r),
         NEW p \in Proposals, ProposeTx(i, r, p)
  PROVE  TablesOK' /\ Monotone
<1>1. [item |-> i, status |-> "PENDING"] \in Proposal
  BY DEF Proposal
<1>2. ProposalsGrow
  BY DEF ProposeTx, ProposalsGrow, TablesOK, BoardTypeOK
<1>3. proposals' \in [Proposals -> Proposal \cup {None}]
  BY <1>1 DEF ProposeTx, TablesOK, BoardTypeOK
<1>4. "COMPLETION_PROPOSED" \in Status
  BY DEF Status
<1> QED  BY <1>2, <1>3, <1>4, StatusTxSafe DEF ProposeTx

(* Writing the verdict on a proposal of the task itself.                    *)
LEMMA VerdictGrows ==
  ASSUME TablesOK, NEW i \in Items, NEW p \in Proposals,
         proposals[p] # None, proposals[p].item = i,
         NEW verdict \in {"APPROVED", "REJECTED"},
         proposals' = [proposals EXCEPT ![p] = [item |-> i, status |-> verdict]]
  PROVE  /\ ProposalsGrow
         /\ proposals' \in [Proposals -> Proposal \cup {None}]
         /\ proposals'[p] = [item |-> i, status |-> verdict]
         /\ proposals'[p] # None
<1>1. [item |-> i, status |-> verdict] \in Proposal
  BY DEF Proposal
<1>2. [item |-> i, status |-> verdict] # None
  BY <1>1, NoneIsNoRow
<1>3. proposals \in [Proposals -> Proposal \cup {None}]
  BY DEF TablesOK, BoardTypeOK
<1> QED  BY <1>1, <1>2, <1>3 DEF ProposalsGrow

LEMMA RejectTxSafe ==
  ASSUME TablesOK, NEW i \in Items, NEW r \in Row, Snapshot(i, r),
         NEW p \in Proposals, proposals[p] # None, proposals[p].item = i,
         NEW wanted \in Status \cup {None}, RejectTx(i, r, p, wanted)
  PROVE  TablesOK' /\ Monotone
<1>1. ProposalsGrow /\ proposals' \in [Proposals -> Proposal \cup {None}]
  BY VerdictGrows DEF RejectTx
<1>2. ReturnStatus(i, wanted) \in Status
  BY DEF ReturnStatus, Status
<1> QED  BY <1>1, <1>2, StatusTxSafe DEF RejectTx

(* Closing task i with a row of its own, the approval written with it.      *)
LEMMA ClosureAudited ==
  ASSUME TablesOK, HistoryGrows, NEW i \in Items, NEW p \in Proposals,
         NEW e \in Entry, e = Log(i, "COMPLETION_PROPOSED", "COMPLETED", "USER"),
         Len(history) + 1 \in DOMAIN history',
         history'[Len(history) + 1] = e,
         proposals'[p] = [item |-> i, status |-> "APPROVED"],
         proposals'[p] # None
  PROVE  Audited(i)'
<1>1. ApprovalLogged(i)'
  BY DEF ApprovalLogged, Log
<1>2. ClosureReviewed(i)'
  BY DEF ClosureReviewed
<1> QED  BY <1>1, <1>2 DEF Audited

(* A closed task and, hanging from the first of its series, a new one.      *)
LEMMA SpawnSafe ==
  ASSUME TablesOK, NEW i \in Items, NEW r \in Row, Snapshot(i, r), r.recurring,
         NEW closed \in Row, Coherent(closed), closed.status = "COMPLETED",
         closed.parent = r.parent, closed.recurring = r.recurring,
         NEW n \in Items, ~Exists(n), NEW due \in Dates,
         items' = [items EXCEPT ![i] = closed, ![n] = Successor(i, r, due)],
         Audited(i)', HistoryGrows, ProposalsGrow,
         proposals' \in [Proposals -> Proposal \cup {None}]
  PROVE  TablesOK' /\ Monotone
<1> DEFINE new == Successor(i, r, due)
<1>1. \A j \in Items : Audited(j) => Audited(j)'
  BY AuditedSurvives
<1>2. items \in [Items -> Row \cup {None}]
  BY DEF TablesOK, BoardTypeOK
<1>3. /\ new \in Row /\ Coherent(new) /\ new.status = "PENDING"
      /\ new.parent = IF r.parent = None THEN i ELSE r.parent
  BY SuccessorFacts
<1>4. Exists(i) /\ i # n /\ r.parent = items[i].parent /\ r.recurring = items[i].recurring
  BY DEF Snapshot
<1> HIDE DEF new
<1>5. /\ items' \in [Items -> Row \cup {None}]
      /\ items'[i] = closed
      /\ items'[n] = new
      /\ \A j \in Items \ {i, n} : items'[j] = items[j]
  BY <1>2, <1>3, <1>4 DEF new
<1>6. closed # None /\ new # None
  BY <1>3, NoneIsNoRow
<1>7. \A j \in Items : Exists(j)' <=> Exists(j) \/ j = n
  BY <1>4, <1>5, <1>6 DEF Exists
<1>8. \A j \in Items : Exists(j) => /\ j # n
                                    /\ items'[j].parent = items[j].parent
                                    /\ items'[j].recurring = items[j].recurring
  BY <1>4, <1>5
<1>9. BoardTypeOK'
  BY <1>5 DEF BoardTypeOK, HistoryGrows
<1>10. RowsCoherent'
  BY <1>3, <1>5, <1>7 DEF TablesOK, RowsCoherent, Coherent
<1>11. CompletedIsAudited'
  BY <1>1, <1>3, <1>5, <1>7 DEF TablesOK, CompletedIsAudited
<1>12. SeriesIsFlat'
  <2> SUFFICES ASSUME NEW j \in Items, Exists(j)', items'[j].parent # None
               PROVE  /\ Exists(items[j].parent)'
                      /\ items'[items'[j].parent].parent = None
                      /\ items'[items'[j].parent].recurring
    BY DEF SeriesIsFlat
  <2> DEFINE up == items'[j].parent
  <2>1. up \in Items
    BY <1>5, <1>7, <1>6 DEF Exists, Row
  <2>2. Exists(up) /\ items[up].parent = None /\ items[up].recurring
    <3>1. CASE j # n
      <4>1. Exists(j) /\ up = items[j].parent
        BY <3>1, <1>7, <1>8
      <4> QED  BY <4>1 DEF TablesOK, SeriesIsFlat
    <3>2. CASE j = n /\ r.parent = None
      BY <3>2, <1>3, <1>4, <1>5
    <3>3. CASE j = n /\ r.parent # None
      <4>1. up = items[i].parent /\ items[i].parent # None
        BY <3>3, <1>3, <1>4, <1>5
      <4> QED  BY <4>1, <1>4 DEF TablesOK, SeriesIsFlat
    <3> QED  BY <3>1, <3>2, <3>3
  <2>3. items'[up].parent = None /\ items'[up].recurring
    BY <2>1, <2>2, <1>8
  <2> QED  BY <2>1, <2>2, <2>3, <1>7
<1> QED  BY <1>1, <1>7, <1>8, <1>9, <1>10, <1>11, <1>12
         DEF TablesOK, Monotone, ProposalsGrow

LEMMA ApproveTxSafe ==
  ASSUME TablesOK, NEW i \in Items, NEW r \in Row, Snapshot(i, r),
         NEW p \in Proposals, proposals[p] # None, proposals[p].item = i,
         ApproveTx(i, r, p)
  PROVE  TablesOK' /\ Monotone
<1> DEFINE closed == StatusChanged(r, "COMPLETED")
           entry == Log(i, r.status, "COMPLETED", "USER")
<1>1. CanTransition(r.status, "COMPLETED", "USER", TRUE)
  BY DEF ApproveTx
<1>2. "COMPLETED" \in Status /\ r.status \in Status /\ TRUE \in BOOLEAN
  BY DEF Row, Status
<1>3. r.status = "COMPLETION_PROPOSED"
  BY <1>1, <1>2, TransitionFacts
<1>4. /\ closed \in Row /\ Coherent(closed) /\ closed.status = "COMPLETED"
      /\ closed.parent = r.parent /\ closed.recurring = r.recurring
  BY <1>1, <1>2, StatusChangedFacts DEF Snapshot
<1>5. entry \in Entry /\ entry = Log(i, "COMPLETION_PROPOSED", "COMPLETED", "USER")
  BY <1>2, <1>3, LogFacts
<1>6. /\ ProposalsGrow /\ proposals' \in [Proposals -> Proposal \cup {None}]
      /\ proposals'[p] = [item |-> i, status |-> "APPROVED"]
      /\ proposals'[p] # None
  BY VerdictGrows DEF ApproveTx
<1>7. history \in Seq(Entry)
  BY DEF TablesOK, BoardTypeOK
<1>8. CASE /\ items' = [items EXCEPT ![i] = closed]
           /\ history' = Append(history, entry)
  <2>1. /\ HistoryGrows
        /\ Len(history) + 1 \in DOMAIN history'
        /\ history'[Len(history) + 1] = entry
    BY <1>5, <1>7, <1>8, AppendGrows
  <2>2. Audited(i)'
    BY <2>1, <1>5, <1>6, ClosureAudited
  <2>3. Exists(i) /\ closed.parent = items[i].parent
                  /\ closed.recurring = items[i].recurring
    BY <1>4 DEF Snapshot
  <2> HIDE DEF closed
  <2> QED  BY <2>1, <2>2, <2>3, <1>4, <1>6, <1>8, WriteRow
<1>9. ASSUME r.recurring, NEW n \in Items, NEW due \in Dates, ~Exists(n),
             items' = [items EXCEPT ![i] = closed, ![n] = Successor(i, r, due)],
             history' = history \o <<entry, Log(n, None, "PENDING", "SYSTEM")>>
      PROVE  TablesOK' /\ Monotone
  <2>1. Log(n, None, "PENDING", "SYSTEM") \in Entry
    BY LogFacts DEF Status
  <2>2. /\ HistoryGrows
        /\ Len(history) + 1 \in DOMAIN history'
        /\ history'[Len(history) + 1] = entry
    BY <1>5, <1>7, <1>9, <2>1, AppendTwoGrows
  <2>3. Audited(i)'
    BY <2>2, <1>5, <1>6, ClosureAudited
  <2> HIDE DEF closed
  <2> QED  BY <2>2, <2>3, <1>4, <1>6, <1>9, SpawnSafe
<1> QED  BY <1>8, <1>9 DEF ApproveTx

LEMMA CreateTxSafe ==
  ASSUME TablesOK, NEW i \in Items, NEW due \in Dates, NEW recurring \in BOOLEAN,
         CreateTx(i, due, recurring)
  PROVE  TablesOK' /\ Monotone
<1> DEFINE new == [status |-> "PENDING", dueDate |-> due, completedAt |-> FALSE,
                   cancelledAt |-> FALSE, recurring |-> recurring, parent |-> None]
<1>1. new \in Row /\ Coherent(new) /\ new.status = "PENDING" /\ new.parent = None
  BY DEF Row, Coherent, Status
<1>2. new # None
  BY <1>1, NoneIsNoRow
<1>3. items' = [items EXCEPT ![i] = new] /\ UNCHANGED proposals
  BY DEF CreateTx
<1> HIDE DEF new
<1>4. HistoryGrows
  <2>1. Log(i, None, "PENDING", "USER") \in Entry
    BY LogFacts DEF Status
  <2> QED  BY <2>1, AppendGrows DEF CreateTx, TablesOK, BoardTypeOK
<1>5. ProposalsGrow
  BY <1>3, UnchangedProposalsGrow
<1>6. \A j \in Items : Audited(j) => Audited(j)'
  BY <1>4, <1>5, AuditedSurvives
<1>7. /\ items' \in [Items -> Row \cup {None}]
      /\ items'[i] = new
      /\ \A j \in Items \ {i} : items'[j] = items[j]
  BY <1>1, <1>3 DEF TablesOK, BoardTypeOK
<1>8. \A j \in Items : Exists(j)' <=> Exists(j) \/ j = i
  BY <1>2, <1>7 DEF Exists
<1>9. \A j \in Items : Exists(j) => j # i
  BY DEF CreateTx
<1>10. \A j \in Items : Exists(j) => items'[j] = items[j]
  BY <1>7, <1>9
<1>11. BoardTypeOK'
  BY <1>3, <1>4, <1>7 DEF TablesOK, BoardTypeOK, HistoryGrows
<1>12. RowsCoherent'
  BY <1>1, <1>7, <1>8, <1>10 DEF TablesOK, RowsCoherent, Coherent
<1>13. CompletedIsAudited'
  BY <1>1, <1>6, <1>7, <1>8, <1>10 DEF TablesOK, CompletedIsAudited
<1>14. SeriesIsFlat'
  <2> SUFFICES ASSUME NEW j \in Items, Exists(j)', items'[j].parent # None
               PROVE  /\ Exists(items[j].parent)'
                      /\ items'[items'[j].parent].parent = None
                      /\ items'[items'[j].parent].recurring
    BY DEF SeriesIsFlat
  <2>1. Exists(j) /\ items'[j] = items[j]
    BY <1>1, <1>7, <1>8, <1>10
  <2>2. items[j].parent \in Items
    BY <2>1 DEF TablesOK, BoardTypeOK, Exists, Row
  <2>3. /\ Exists(items[j].parent)
        /\ items[items[j].parent].parent = None
        /\ items[items[j].parent].recurring
    BY <2>1 DEF TablesOK, SeriesIsFlat
  <2> QED  BY <2>1, <2>2, <2>3, <1>8, <1>10
<1> QED  BY <1>3, <1>6, <1>8, <1>10, <1>11, <1>12, <1>13, <1>14
         DEF TablesOK, Monotone

----------------------------------------------------------------------------
(* The sessions.                                                            *)

(* What a session holds stays true of the tables others write.              *)
LEMMA OthersSurvive ==
  ASSUME TablesOK, Monotone, NEW t \in Sessions, SessionOK(t),
         pc'[t] = pc[t], req'[t] = req[t], row'[t] = row[t]
  PROVE  SessionOK(t)'
<1>1. RequestOK(req[t]) => req[t].item \in Items
                           /\ (req[t].op \in {"approve", "reject"}
                                 => req[t].proposal \in Proposals)
  BY DEF RequestOK, Request
<1>2. RequestOK(req[t]) => RequestOK(req[t])'
  BY DEF RequestOK
<1>3. ASSUME pc[t] = "requested" PROVE Exists(req[t].item)'
  BY <1>1, <1>3 DEF SessionOK, Monotone, Exists
<1>4. Snapshot(req[t].item, row[t]) => Snapshot(req[t].item, row[t])'
  BY DEF Snapshot, Monotone, Exists, Coherent
<1>5. ReviewsOwn(req[t]) /\ RequestOK(req[t]) => ReviewsOwn(req[t])'
  BY <1>1 DEF ReviewsOwn, Monotone
<1> QED  BY <1>1, <1>2, <1>3, <1>4, <1>5 DEF SessionOK

(* A session whose command ended holds nothing.                             *)
LEMMA FinishSafe ==
  ASSUME IInv, NEW s \in Sessions, Finish(s), TablesOK', Monotone
  PROVE  IInv'
<1>1. TypeOK'
  BY DEF IInv, TypeOK, TablesOK, Finish, Steps
<1>2. ASSUME NEW t \in Sessions PROVE SessionOK(t)'
  <2>1. CASE t = s
    <3>1. pc'[s] = "idle"
      BY DEF Finish, IInv, TypeOK
    <3> QED  BY <2>1, <3>1 DEF SessionOK
  <2>2. CASE t # s
    <3>1. pc'[t] = pc[t] /\ req'[t] = req[t] /\ row'[t] = row[t]
      BY <2>2 DEF Finish, IInv, TypeOK
    <3> QED  BY <3>1, OthersSurvive DEF IInv
  <2> QED  BY <2>1, <2>2
<1> QED  BY <1>1, <1>2 DEF IInv

LEMMA UnchangedBoard ==
  ASSUME TablesOK, UNCHANGED board
  PROVE  TablesOK' /\ Monotone
<1>1. BoardTypeOK' /\ RowsCoherent' /\ CompletedIsAudited' /\ SeriesIsFlat'
  BY DEF board, TablesOK, BoardTypeOK, RowsCoherent, CompletedIsAudited,
         SeriesIsFlat, Exists, Audited, ApprovalLogged, ClosureReviewed
<1> QED  BY <1>1 DEF TablesOK, board, Monotone, Exists, Audited, ApprovalLogged,
                    ClosureReviewed

(* A step of session s that writes no table and leaves s itself in order.   *)
LEMMA SessionStep ==
  ASSUME IInv, NEW s \in Sessions, UNCHANGED board,
         pc' \in [Sessions -> Steps],
         req' \in [Sessions -> Request \cup {None}],
         row' \in [Sessions -> Row \cup {None}],
         \A t \in Sessions \ {s} :
           pc'[t] = pc[t] /\ req'[t] = req[t] /\ row'[t] = row[t],
         SessionOK(s)'
  PROVE  IInv'
<1>1. TablesOK' /\ Monotone
  BY UnchangedBoard DEF IInv
<1>2. TypeOK'
  BY <1>1 DEF TypeOK, TablesOK
<1>3. ASSUME NEW t \in Sessions PROVE SessionOK(t)'
  <2>1. CASE t # s
    BY <2>1, <1>1, OthersSurvive DEF IInv
  <2> QED  BY <2>1
<1> QED  BY <1>1, <1>2, <1>3 DEF IInv

(* A row read now is a snapshot.                                            *)
LEMMA ReadIsSnapshot ==
  ASSUME TablesOK, NEW i \in Items, Exists(i)
  PROVE  Snapshot(i, items[i])
BY DEF TablesOK, BoardTypeOK, RowsCoherent, CompletedIsAudited, Snapshot, Exists

LEMMA StartSafe ==
  ASSUME IInv, NEW s \in Sessions, NEW i \in Items, NEW c, RequestOK(c),
         c.item = i, Start(s, i, c)
  PROVE  IInv'
<1>1. UNCHANGED board /\ Exists(i)
  BY DEF Start, Read
<1>2. Snapshot(i, items[i])
  BY <1>1, ReadIsSnapshot DEF IInv
<1>3. /\ pc' = [pc EXCEPT ![s] = "read"]
      /\ req' = [req EXCEPT ![s] = c]
      /\ row' = [row EXCEPT ![s] = items[i]]
  BY DEF Start, Read
<1>4. /\ pc' \in [Sessions -> Steps] /\ pc'[s] = "read"
      /\ req' \in [Sessions -> Request \cup {None}] /\ req'[s] = c
      /\ row' \in [Sessions -> Row \cup {None}] /\ row'[s] = items[i]
  BY <1>2, <1>3 DEF IInv, TypeOK, Steps, RequestOK, Snapshot
<1>5. Snapshot(i, items[i])'
  <2>1. TablesOK' /\ Exists(i)'
    BY <1>1, UnchangedBoard DEF IInv, Monotone
  <2> QED  BY <2>1, <1>2, UnchangedBoard, <1>1
           DEF Snapshot, IInv, Monotone, board, Coherent
<1>6. items' = items
  BY <1>1 DEF board
<1>7. RequestOK(c)'
  BY DEF RequestOK
<1>8. SessionOK(s)'
  BY <1>4, <1>5, <1>6, <1>7 DEF SessionOK, Snapshot
<1>9. \A t \in Sessions \ {s} :
        pc'[t] = pc[t] /\ req'[t] = req[t] /\ row'[t] = row[t]
  BY <1>3 DEF IInv, TypeOK
<1> QED  BY <1>1, <1>4, <1>8, <1>9, SessionStep

LEMMA BeginSafe ==
  ASSUME IInv, NEW s \in Sessions, NEW i \in Items, Begin(s, i)
  PROVE  IInv'
<1>1. CASE BeginUpdate(s, i)
  <2>1. Exists(i) /\ items[i].dueDate \in Dates
    BY <1>1 DEF BeginUpdate, Exists, IInv, TablesOK, BoardTypeOK, Row
  <2>2. PICK due \in Dates, to \in Requestable \cup {None} :
          req' = [req EXCEPT ![s] = Command("update", i, due, to, None)]
    BY <1>1, <2>1 DEF BeginUpdate
  <2> DEFINE c == Command("update", i, due, to, None)
  <2>3. RequestOK(c) /\ c.item = i /\ c.op = "update"
    BY BoardAssumption DEF Command, RequestOK, Request
  <2> HIDE DEF c
  <2>4. /\ pc' = [pc EXCEPT ![s] = "requested"] /\ req' = [req EXCEPT ![s] = c]
        /\ row' = row /\ UNCHANGED board
    BY <1>1, <2>2 DEF BeginUpdate, c, board
  <2>5. /\ pc' \in [Sessions -> Steps] /\ pc'[s] = "requested"
        /\ req' \in [Sessions -> Request \cup {None}] /\ req'[s] = c
        /\ row' \in [Sessions -> Row \cup {None}]
    BY <2>3, <2>4 DEF IInv, TypeOK, Steps, RequestOK
  <2>6. SessionOK(s)'
    BY <2>1, <2>3, <2>4, <2>5 DEF SessionOK, board, Exists, RequestOK
  <2>7. \A t \in Sessions \ {s} :
          pc'[t] = pc[t] /\ req'[t] = req[t] /\ row'[t] = row[t]
    BY <2>4 DEF IInv, TypeOK
  <2> QED  BY <2>4, <2>5, <2>6, <2>7, SessionStep
<1>2. CASE BeginChange(s, i)
  <2>1. PICK to \in Requestable : Start(s, i, Command("change", i, None, to, None))
    BY <1>2 DEF BeginChange
  <2>2. RequestOK(Command("change", i, None, to, None))
        /\ Command("change", i, None, to, None).item = i
    BY BoardAssumption DEF Command, RequestOK, Request
  <2> QED  BY <2>1, <2>2, StartSafe
<1>3. CASE BeginPropose(s, i)
  <2>1. RequestOK(Command("propose", i, None, None, None))
        /\ Command("propose", i, None, None, None).item = i
    BY DEF Command, RequestOK, Request
  <2> QED  BY <1>3, <2>1, StartSafe DEF BeginPropose
<1>4. CASE BeginApprove(s, i)
  <2>1. PICK p \in Proposals : Start(s, i, Command("approve", i, None, None, p))
    BY <1>4 DEF BeginApprove
  <2>2. RequestOK(Command("approve", i, None, None, p))
        /\ Command("approve", i, None, None, p).item = i
    BY DEF Command, RequestOK, Request
  <2> QED  BY <2>1, <2>2, StartSafe
<1>5. CASE BeginReject(s, i)
  <2>1. PICK p \in Proposals, wanted \in {None, "PENDING", "IN_PROGRESS"} :
          Start(s, i, Command("reject", i, None, wanted, p))
    BY <1>5 DEF BeginReject
  <2>2. RequestOK(Command("reject", i, None, wanted, p))
        /\ Command("reject", i, None, wanted, p).item = i
    BY DEF Command, RequestOK, Request, Status
  <2> QED  BY <2>1, <2>2, StartSafe
<1> QED  BY <1>1, <1>2, <1>3, <1>4, <1>5 DEF Begin

LEMMA ReadForUpdateSafe ==
  ASSUME IInv, NEW s \in Sessions, ReadForUpdate(s)
  PROVE  IInv'
<1> DEFINE i == req[s].item
<1>1. /\ pc[s] = "requested" /\ pc' = [pc EXCEPT ![s] = "read"]
      /\ req' = req /\ row' = [row EXCEPT ![s] = items[i]] /\ UNCHANGED board
  BY DEF ReadForUpdate, Read
<1>2. RequestOK(req[s]) /\ Exists(i) /\ i \in Items
  BY <1>1 DEF IInv, SessionOK, RequestOK, Request
<1>3. Snapshot(i, items[i])
  BY <1>2, ReadIsSnapshot DEF IInv
<1>4. /\ pc' \in [Sessions -> Steps] /\ pc'[s] = "read"
      /\ req' \in [Sessions -> Request \cup {None}]
      /\ row' \in [Sessions -> Row \cup {None}] /\ row'[s] = items[i]
  BY <1>1, <1>3 DEF IInv, TypeOK, Steps, Snapshot
<1>5. TablesOK' /\ items' = items /\ req'[s] = req[s]
  BY <1>1, UnchangedBoard DEF IInv, board
<1>6. SessionOK(s)'
  <2>1. RequestOK(req[s])'
    BY <1>2, <1>5 DEF RequestOK
  <2>2. Snapshot(req[s].item, row[s])'
    <3>1. Exists(i)' /\ Audited(i) => Audited(i)'
      BY <1>1, <1>2, UnchangedBoard DEF IInv, Monotone
    <3> QED  BY <1>1, <1>2, <1>3, <1>4, <1>5, <3>1, UnchangedBoard
             DEF Snapshot, Coherent, Exists, IInv, Monotone
  <2> QED  BY <1>4, <2>1, <2>2 DEF SessionOK
<1>7. \A t \in Sessions \ {s} :
        pc'[t] = pc[t] /\ req'[t] = req[t] /\ row'[t] = row[t]
  BY <1>1 DEF IInv, TypeOK
<1> QED  BY <1>1, <1>4, <1>6, <1>7, SessionStep

LEMMA CheckProposalSafe ==
  ASSUME IInv, NEW s \in Sessions, CheckProposal(s)
  PROVE  IInv'
<1>1. /\ pc[s] = "read" /\ pc' = [pc EXCEPT ![s] = "checked"]
      /\ req' = req /\ row' = row /\ UNCHANGED board
  BY DEF CheckProposal, board
<1>2. /\ pc' \in [Sessions -> Steps] /\ pc'[s] = "checked"
      /\ req' \in [Sessions -> Request \cup {None}]
      /\ row' \in [Sessions -> Row \cup {None}]
  BY <1>1 DEF IInv, TypeOK, Steps
<1>3. ReviewsOwn(req[s])
  BY DEF CheckProposal, PendingProposals, ReviewsOwn
<1>4. TablesOK' /\ Monotone
  BY <1>1, UnchangedBoard DEF IInv
<1>5. SessionOK(s)'
  <2>1. RequestOK(req[s]) /\ Snapshot(req[s].item, row[s])
    BY <1>1 DEF IInv, SessionOK
  <2>2. RequestOK(req[s])' /\ Snapshot(req[s].item, row[s])'
    BY <2>1, <1>1, <1>4 DEF RequestOK, Snapshot, Monotone, Exists, Coherent
  <2>3. ReviewsOwn(req[s])'
    BY <1>1, <1>3 DEF ReviewsOwn, board
  <2> QED  BY <1>2, <2>2, <2>3 DEF SessionOK
<1>6. \A t \in Sessions \ {s} :
        pc'[t] = pc[t] /\ req'[t] = req[t] /\ row'[t] = row[t]
  BY <1>1 DEF IInv, TypeOK
<1> QED  BY <1>1, <1>2, <1>5, <1>6, SessionStep

LEMMA CommitSafe ==
  ASSUME IInv, NEW s \in Sessions, Commit(s)
  PROVE  IInv'
<1> DEFINE i == req[s].item
           may == s \in Managers
<1>1. Finish(s) /\ pc[s] \in {"read", "checked"}
  BY DEF Commit, CommitUpdate, CommitChange, CommitPropose, CommitApprove, CommitReject
<1>2. RequestOK(req[s]) /\ Snapshot(i, row[s]) /\ TablesOK
  BY <1>1 DEF IInv, SessionOK
<1>3. i \in Items /\ row[s] \in Row /\ may \in BOOLEAN
  BY <1>2 DEF Snapshot
<1>4. req[s].to \in Status \cup {None}
  BY <1>2 DEF RequestOK, Request
<1>5. pc[s] = "checked" /\ req[s].op \in {"approve", "reject"} =>
        /\ req[s].proposal \in Proposals
        /\ proposals[req[s].proposal] # None
        /\ proposals[req[s].proposal].item = i
  BY <1>2 DEF IInv, SessionOK, ReviewsOwn, RequestOK
<1>6. TablesOK' /\ Monotone
  <2>1. CASE CommitUpdate(s)
    <3>1. req[s].due \in Dates /\ UpdateTx(i, row[s], req[s].due, req[s].to, may)
      BY <2>1, <1>2 DEF CommitUpdate, RequestOK
    <3> HIDE DEF i, may
    <3> QED  BY <3>1, <1>2, <1>3, <1>4, UpdateTxSafe
  <2>2. CASE CommitChange(s)
    <3>1. req[s].to \in Status /\ ChangeTx(i, row[s], req[s].to, may)
      BY <2>2, <1>2 DEF CommitChange, RequestOK
    <3> HIDE DEF i, may
    <3> QED  BY <3>1, <1>2, <1>3, ChangeTxSafe
  <2>3. CASE CommitPropose(s)
    <3>1. PICK p \in Proposals : ProposeTx(i, row[s], p)
      BY <2>3 DEF CommitPropose
    <3> HIDE DEF i
    <3> QED  BY <3>1, <1>2, <1>3, ProposeTxSafe
  <2>4. CASE CommitApprove(s)
    <3>1. ApproveTx(i, row[s], req[s].proposal)
      BY <2>4 DEF CommitApprove
    <3>2. pc[s] = "checked" /\ req[s].op = "approve"
      BY <2>4 DEF CommitApprove
    <3> HIDE DEF i
    <3> QED  BY <3>1, <3>2, <1>2, <1>3, <1>5, ApproveTxSafe
  <2>5. CASE CommitReject(s)
    <3>1. RejectTx(i, row[s], req[s].proposal, req[s].to)
      BY <2>5 DEF CommitReject
    <3>2. pc[s] = "checked" /\ req[s].op = "reject"
      BY <2>5 DEF CommitReject
    <3> HIDE DEF i
    <3> QED  BY <3>1, <3>2, <1>2, <1>3, <1>4, <1>5, RejectTxSafe
  <2> QED  BY <2>1, <2>2, <2>3, <2>4, <2>5 DEF Commit
<1> QED  BY <1>1, <1>6, FinishSafe

----------------------------------------------------------------------------
(* The theorems.                                                            *)

LEMMA InitSafe == Init => IInv
<1> SUFFICES ASSUME Init PROVE IInv
  OBVIOUS
<1>1. TypeOK
  BY DEF Init, BoardInit, TypeOK, BoardTypeOK, Steps
<1>2. \A i \in Items : ~Exists(i)
  BY DEF Init, BoardInit, Exists
<1>3. TablesOK
  BY <1>1, <1>2 DEF TablesOK, TypeOK, RowsCoherent, CompletedIsAudited, SeriesIsFlat
<1>4. \A s \in Sessions : SessionOK(s)
  BY DEF Init, SessionOK
<1> QED  BY <1>1, <1>3, <1>4 DEF IInv

LEMMA NextSafe == IInv /\ [Next]_vars => IInv'
<1> SUFFICES ASSUME IInv, [Next]_vars PROVE IInv'
  OBVIOUS
<1>1. ASSUME NEW i \in Manual, CreateItem(i) PROVE IInv'
  <2>1. PICK due \in Dates, recurring \in BOOLEAN : CreateTx(i, due, recurring)
    BY <1>1 DEF CreateItem, Create
  <2>2. i \in Items
    BY BoardAssumption
  <2>3. TablesOK' /\ Monotone
    BY <2>1, <2>2, CreateTxSafe DEF IInv
  <2>4. pc' = pc /\ req' = req /\ row' = row
    BY <1>1 DEF CreateItem, sessionVars
  <2>5. TypeOK'
    BY <2>3, <2>4 DEF IInv, TypeOK, TablesOK
  <2>6. \A t \in Sessions : SessionOK(t)'
    BY <2>3, <2>4, OthersSurvive DEF IInv
  <2> QED  BY <2>3, <2>5, <2>6 DEF IInv
<1>2. ASSUME NEW s \in Sessions, NEW i \in Items, Begin(s, i) PROVE IInv'
  BY <1>2, BeginSafe
<1>3. ASSUME NEW s \in Sessions, ReadForUpdate(s) PROVE IInv'
  BY <1>3, ReadForUpdateSafe
<1>4. ASSUME NEW s \in Sessions, CheckProposal(s) PROVE IInv'
  BY <1>4, CheckProposalSafe
<1>5. ASSUME NEW s \in Sessions, Commit(s) PROVE IInv'
  BY <1>5, CommitSafe
<1>6. ASSUME NEW s \in Sessions, Rollback(s) PROVE IInv'
  <2>1. TablesOK' /\ Monotone
    BY <1>6, UnchangedBoard DEF IInv, Rollback
  <2> QED  BY <1>6, <2>1, FinishSafe DEF Rollback
<1>7. CASE UNCHANGED vars
  <2>1. UNCHANGED board /\ pc' = pc /\ req' = req /\ row' = row
    BY <1>7 DEF vars, board
  <2>2. TablesOK' /\ Monotone
    BY <2>1, UnchangedBoard DEF IInv
  <2>3. TypeOK'
    BY <2>1, <2>2 DEF IInv, TypeOK, TablesOK
  <2>4. \A t \in Sessions : SessionOK(t)'
    BY <2>1, <2>2, OthersSurvive DEF IInv
  <2> QED  BY <2>2, <2>3, <2>4 DEF IInv
<1> QED  BY <1>1, <1>2, <1>3, <1>4, <1>5, <1>6, <1>7 DEF Next

(* The inductive invariant holds of every reachable state.                  *)
THEOREM Invariance == Spec => []IInv
BY InitSafe, NextSafe, PTL DEF Spec

(* However many sessions race, tables and sessions keep their types: a      *)
(* commit only ever writes a row some read returned, changed as the state   *)
(* machine allows.                                                          *)
THEOREM TypeCorrectness == Spec => []TypeOK
<1>1. IInv => TypeOK
  BY DEF IInv
<1> QED  BY <1>1, Invariance, PTL

(* A completed task always has the logged approval of a person and a        *)
(* reviewed proposal, for any number of racing sessions (approveCompletion).*)
THEOREM CompletionAudited == Spec => []CompletedIsAudited
<1>1. IInv => CompletedIsAudited
  BY DEF IInv, TablesOK
<1> QED  BY <1>1, Invariance, PTL

(* Stale whole-row writes never mix the columns of two rows: timestamps     *)
(* agree with the status (applyStatusChange).                               *)
THEOREM RowCoherence == Spec => []RowsCoherent
<1>1. IInv => RowsCoherent
  BY DEF IInv, TablesOK
<1> QED  BY <1>1, Invariance, PTL

(* Every instance of a recurring task hangs from the first of its series,   *)
(* even when two approvals spawn one each (approveCompletion).              *)
THEOREM FlatSeries == Spec => []SeriesIsFlat
<1>1. IInv => SeriesIsFlat
  BY DEF IInv, TablesOK
<1> QED  BY <1>1, Invariance, PTL
=============================================================================
