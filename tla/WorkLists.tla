----------------------------- MODULE WorkLists ------------------------------
(***************************************************************************)
(* The lists of tasks (GET /action-items and the page that turns them) and *)
(* the counts of the dashboard.  A list is answered along one of two       *)
(* paths: in memory, over everything the filter leaves, or by the pages of *)
(* the database; the dashboard counts on its own.                          *)
(***************************************************************************)
EXTENDS AccessRules, ActionItemStateMachine, FiniteSets, SequencesExt, Naturals

CONSTANTS
  Viewers,      \* principals who ask
  Queries,      \* what they ask for
  Numbers,      \* the tasks, by their sequence: 1..n
  Samples,      \* the rows a task may have
  Mornings,     \* days on which lists are asked for; a week has seven
  PageSize,
  MaxEditions,  \* bound: tasks changed
  NoOne         \* null: no owner, no area, no filter

VARIABLES
  work,     \* the tasks
  today,
  list,    \* the list being read: who asked, what for, whether tasks changed since
  turned,   \* the tasks of its pages, in the order they were turned
  totals,   \* the total each page came with
  changes

listVars == <<work, today, list, turned, totals, changes>>

Views == {"all", "mine", "team", "overdue", "thisWeek", "noDueDate", "noOwner",
          "blocked", "completed", "proposed"}

Query == [view: Views, status: Status \cup {NoOne}, sort: {"attention", "dueDate"},
          priority: {"HIGH", NoOne}, owner: {p.id : p \in Viewers} \cup {NoOne}]

(* Every task was created by the day on which it is listed.                 *)
ASSUME WorkListsAssumption ==
  /\ PageSize \in Nat \ {0} /\ MaxEditions \in Nat /\ Queries \subseteq Query
  /\ NoOne \notin Status
  /\ Numbers \subseteq Nat /\ IsFiniteSet(Numbers) /\ Mornings \subseteq Nat
  /\ \A row \in Samples :
       /\ row.status \in Status /\ row.due \in Nat /\ row.external \in BOOLEAN
       /\ row.created \in Nat /\ \A day \in Mornings : row.created <= day

Nothing == [viewer |-> NoOne, query |-> NoOne, pages |-> 0, steady |-> FALSE]

OpenList == [viewer: Viewers, query: Queries, pages: Nat \ {0}, steady: BOOLEAN]

ListsTypeOK ==
  /\ work \in [Numbers -> Samples]
  /\ today \in Mornings
  /\ list \in OpenList \cup {Nothing}
  /\ turned \in Seq(Numbers)
  /\ totals \in Seq(0..Cardinality(Numbers))
  /\ changes \in 0..MaxEditions

ListsInit ==
  /\ work \in [Numbers -> Samples]
  /\ today \in Mornings
  /\ list = Nothing
  /\ turned = <<>> /\ totals = <<>>
  /\ changes = 0

----------------------------------------------------------------------------
(* What a view asks of a task.                                              *)

OpenStatuses == Status \ {"COMPLETED", "CANCELLED"}

IsOverdue(row) == row.due # 0 /\ row.status \in OpenStatuses /\ today > row.due

Week(day) == (day - 1) \div 7

StatusesOf(view) ==
  CASE view = "blocked" -> {"BLOCKED"}
    [] view = "completed" -> {"COMPLETED"}
    [] view = "proposed" -> {"PROPOSED", "COMPLETION_PROPOSED"}
    [] OTHER -> OpenStatuses

(* The filter the database applies.  A status or an owner asked for         *)
(* replaces that of the view.                                               *)
Filtered(p, q, row) ==
  /\ row.status \in IF q.status = NoOne THEN StatusesOf(q.view) ELSE {q.status}
  /\ CASE q.owner # NoOne -> row.owner = q.owner
       [] q.owner = NoOne -> q.view = "mine" => row.owner = p.id
  /\ q.view = "thisWeek" => row.due # 0 /\ Week(row.due) = Week(today)
  /\ q.view = "noDueDate" => row.due = 0
  /\ q.view = "noOwner" => row.owner = NoOne /\ ~row.external

(* The conditions applied in memory only.                                   *)
Posted(p, q, row) ==
  /\ q.view = "overdue" => IsOverdue(row)
  /\ q.view = "team" => row.owner \in {p.id} \cup p.team \/ row.area \in p.areas
  /\ q.priority # NoOne => row.priority = q.priority

(* Mutants: overdue is thought to be a filter of the database; so is the    *)
(* reach of the one who asks.                                               *)
NeedsMemoryUnlessOverdue(p, q) ==
  \/ q.sort = "attention" \/ ~HasGlobalScope(p)
  \/ q.view = "team" \/ q.priority # NoOne

NeedsMemoryToSort(p, q) ==
  q.sort = "attention" \/ q.view \in {"overdue", "team"} \/ q.priority # NoOne

NeedsMemory(p, q) ==
  \/ q.sort = "attention" \/ ~HasGlobalScope(p)
  \/ q.view \in {"overdue", "team"} \/ q.priority # NoOne

----------------------------------------------------------------------------
(* The order and the pages.                                                 *)

Weigh(condition, weight) == IF condition THEN weight ELSE 0

(* attentionScore.  The list is sorted without the mentions of a task; the  *)
(* score it shows counts them.                                              *)
AttentionScore(row, mentions) ==
  IF row.status \notin OpenStatuses THEN 0
  ELSE Weigh(IsOverdue(row), IF row.priority = "HIGH" THEN 100 ELSE 60)
       + Weigh(row.status = "COMPLETION_PROPOSED", 50)
       + Weigh(row.owner = NoOne /\ ~row.external, 40)
       + Weigh(row.due = 0, 30)
       + Weigh(mentions, 25)
       + Weigh(row.status = "BLOCKED", 20)
       + Weigh(row.unsure, 15)

Sooner(a, b) == a # 0 /\ (b = 0 \/ a < b)

(* sortItems is stable over what it is given: earlier breaks the ties.      *)
Precedes(sort, n, m, earlier) ==
  LET s == IF sort = "attention" THEN AttentionScore(work[n], FALSE) ELSE 0
      t == IF sort = "attention" THEN AttentionScore(work[m], FALSE) ELSE 0 IN
  \/ s > t
  \/ s = t /\ Sooner(work[n].due, work[m].due)
  \/ s = t /\ work[n].due = work[m].due /\ earlier

InOrder(seq, sort) ==
  \A i, j \in DOMAIN seq : i < j => Precedes(sort, seq[i], seq[j], seq[i] < seq[j])

Sorted(ids, sort) == CHOOSE seq \in SetToSeqs(ids) : InOrder(seq, sort)

(* The orders the database may answer in: rows of one date and one instant  *)
(* of creation in any, at every request anew.                               *)
DatabaseOrders(ids) ==
  {seq \in SetToSeqs(ids) :
     \A i, j \in DOMAIN seq : i < j =>
       ~Sooner(work[seq[j]].due, work[seq[i]].due)
       /\ (work[seq[i]].due = work[seq[j]].due => work[seq[i]].created >= work[seq[j]].created)}

EndOfPage(seq, page) == IF page * PageSize < Len(seq) THEN page * PageSize ELSE Len(seq)

Paginate(seq, page) == SubSeq(seq, (page - 1) * PageSize + 1, EndOfPage(seq, page))

Wanted(p, q) ==
  {n \in Numbers : /\ Filtered(p, q, work[n])
                   /\ NeedsMemory(p, q) => /\ CanAccessActionItem(p, work[n])
                                           /\ Posted(p, q, work[n])}

(* listActionItems: page k, and the total it says.                          *)
AnswerPage(p, q, k) ==
  \E order \in IF NeedsMemory(p, q) THEN {Sorted(Wanted(p, q), q.sort)}
                                    ELSE DatabaseOrders(Wanted(p, q)) :
    /\ turned' = turned \o Paginate(order, k)
    /\ totals' = Append(totals, Cardinality(Wanted(p, q)))

----------------------------------------------------------------------------
(* The steps.                                                               *)

(* A list is opened, or its view, order or filters change: page 1.          *)
AskList(p, q) ==
  /\ list = Nothing
  /\ list' = [viewer |-> p, query |-> q, pages |-> 1, steady |-> TRUE]
  /\ AnswerPage(p, q, 1)
  /\ UNCHANGED <<work, today, changes>>

(* The next page, while the total of the one on screen says there is one.   *)
TurnPage ==
  /\ list # Nothing
  /\ list.pages * PageSize < Last(totals)
  /\ list' = [list EXCEPT !.pages = @ + 1]
  /\ AnswerPage(list.viewer, list.query, list.pages + 1)
  /\ UNCHANGED <<work, today, changes>>

(* Somebody changes a task between two pages; a change before a list is     *)
(* asked for makes another initial state.                                   *)
EditTask(n, row) ==
  /\ list # Nothing
  /\ changes < MaxEditions
  /\ work' = [work EXCEPT ![n] = row]
  /\ changes' = changes + 1
  /\ list' = [list EXCEPT !.steady = FALSE]
  /\ UNCHANGED <<today, turned, totals>>

LeaveList ==
  /\ list # Nothing
  /\ list' = Nothing /\ turned' = <<>> /\ totals' = <<>>
  /\ UNCHANGED <<work, today, changes>>

ListsNext ==
  \/ \E p \in Viewers, q \in Queries : AskList(p, q)
  \/ TurnPage
  \/ \E n \in Numbers, row \in Samples : EditTask(n, row)
  \/ LeaveList

ListsSpec == ListsInit /\ [][ListsNext]_listVars

----------------------------------------------------------------------------
(* The dashboard (getDashboard), with no area or project asked for, and the *)
(* lists its tiles and rows lead to.                                        *)

InScope(p) ==
  {n \in Numbers : HasGlobalScope(p) \/ CanAccessActionItem(p, work[n])}

OpenInScope(p) == {n \in InScope(p) : work[n].status \in OpenStatuses}

CountOpen(p, Test(_)) == Cardinality({n \in OpenInScope(p) : Test(work[n])})

Tile(view, status, owner, count) ==
  [view |-> view, status |-> status, owner |-> owner, count |-> count]

(* The tiles that lead to the list of what they count.  Not so "Pendientes",*)
(* which counts the proposed too and leads to status PENDING, nor           *)
(* "Propuestas de cierre", whose list has the proposed besides.             *)
KpiTiles(p) ==
  {Tile("all", NoOne, NoOne, CountOpen(p, LAMBDA row : TRUE)),
   Tile("all", "IN_PROGRESS", NoOne, CountOpen(p, LAMBDA row : row.status = "IN_PROGRESS")),
   Tile("overdue", NoOne, NoOne, CountOpen(p, IsOverdue)),
   Tile("noDueDate", NoOne, NoOne, CountOpen(p, LAMBDA row : row.due = 0))}

(* What is open of each person; their rows count what was completed in the  *)
(* period besides.                                                          *)
PersonRows(p) ==
  {Tile("all", NoOne, person, CountOpen(p, LAMBDA row : row.owner = person)) :
     person \in {work[n].owner : n \in OpenInScope(p)} \ {NoOne}}

LeadsTo(tile, q) ==
  /\ q.view = tile.view /\ q.status = tile.status /\ q.owner = tile.owner
  /\ q.priority = NoOne

----------------------------------------------------------------------------
(* The weekly digest (buildWeeklyDigestPayload): a third count of the same  *)
(* tasks, by the areas it is configured for and with or without those of    *)
(* outsiders.  What is only proposed does not count as open in it.          *)

Reported(config) ==
  {n \in Numbers :
     /\ config.areas # {} /\ work[n].area # NoOne => work[n].area \in config.areas
     /\ ~config.externals => ~work[n].external \/ work[n].owner # NoOne}

DigestOpen(config) ==
  {n \in Reported(config) : work[n].status \in OpenStatuses \ {"PROPOSED"}}

NewCommitments(config) ==
  {n \in Reported(config) :
     Week(work[n].created) = Week(today) /\ work[n].status # "CANCELLED"}

Backlog(config) == {n \in DigestOpen(config) : Week(work[n].created) < Week(today)}

Risks(config) ==
  [overdue |-> {n \in DigestOpen(config) : IsOverdue(work[n])},
   noOwner |-> {n \in DigestOpen(config) : work[n].owner = NoOne /\ ~work[n].external},
   noDueDate |-> {n \in DigestOpen(config) : work[n].due = 0},
   blocked |-> {n \in DigestOpen(config) : work[n].status = "BLOCKED"}]

ApprovalInbox(config) ==
  {n \in DigestOpen(config) : work[n].status = "COMPLETION_PROPOSED"}

----------------------------------------------------------------------------
(* What the lists promise.                                                  *)

WholeCompany == [areas |-> {}, externals |-> TRUE]

(* The numbers of the dashboard, the totals of the lists they lead to and   *)
(* the risks of the digest are counted by three pieces of code, one of them *)
(* over two paths: asked of the same tasks, they agree for every role,      *)
(* however the list is sorted.  The digest leaves out what is proposed, and *)
(* it tells of every task that is open once, as a new commitment or as      *)
(* backlog.                                                                 *)
CountsAgree ==
  list.steady =>
    /\ \A tile \in KpiTiles(list.viewer) \cup PersonRows(list.viewer) :
         LeadsTo(tile, list.query) => Last(totals) = tile.count
    /\ HasGlobalScope(list.viewer) =>
         LET proposed == {n \in Wanted(list.viewer, list.query) : work[n].status = "PROPOSED"}
             risks == Risks(WholeCompany)
             agreed(view, status, told) ==
               LeadsTo(Tile(view, status, NoOne, 0), list.query) =>
                 Last(totals) = Cardinality(told) + Cardinality(proposed) IN
         /\ \A view \in DOMAIN risks : agreed(view, NoOne, risks[view])
         /\ agreed("all", "COMPLETION_PROPOSED", ApprovalInbox(WholeCompany))
    /\ DigestOpen(WholeCompany) \cap NewCommitments(WholeCompany)
         = DigestOpen(WholeCompany) \ Backlog(WholeCompany)

(* No list, by whatever path, filter or order it is answered, and whatever  *)
(* filter replaces that of its view, shows a task beyond the reach of the   *)
(* one who asked.  Turned to its last page, a list answered in memory has   *)
(* shown every task it is about once, unless tasks changed meanwhile.  The  *)
(* database gives no such list: tasks of one date created at one instant    *)
(* may come twice or not at all.                                            *)
ListsAreExact ==
  list.steady =>
    LET InReach(n) == CanAccessActionItem(list.viewer, work[n])
        Meant(n) == /\ Filtered(list.viewer, list.query, work[n])
                    /\ Posted(list.viewer, list.query, work[n]) IN
    /\ \A n \in ToSet(turned) : InReach(n)
    /\ NeedsMemory(list.viewer, list.query) /\ list.pages * PageSize >= Last(totals) =>
         IsInjective(turned) /\ ToSet(turned) = {n \in Numbers : InReach(n) /\ Meant(n)}
=============================================================================
