------------------------------- MODULE AiReview -------------------------------
(***************************************************************************)
(* What an analysis does with the tasks it heard of in a meeting           *)
(* (planReconciliation, applyReconciliation) and what people do with the   *)
(* review items it leaves (approve, reject, merge).                        *)
(*                                                                         *)
(* An analysis plans every extraction before it applies the first one, and *)
(* applies them to the rows the plan read, which are written back whole.   *)
(* A person's resolution checks that the item is open before its           *)
(* transaction, which reads the item and the task again and checks no      *)
(* more.  People also move the tasks.  The writes of a transaction become  *)
(* visible together.                                                       *)
(***************************************************************************)
EXTENDS ActionItemStateMachine, Naturals, Sequences

CONSTANTS
  Tasks,          \* ids of tasks
  Existing,       \* those there from the start
  ReviewItems,
  Hearings,       \* what the model may extract from the meeting, in order
  Resolvers,      \* people resolving review items at once
  MovesTo,        \* statuses people move tasks to
  MaxAnalyses,    \* bounds the analyses of the meeting
  NoTask

ASSUME ReviewAssumption ==
  /\ Existing \subseteq Tasks /\ NoTask \notin Tasks
  /\ MovesTo \subseteq Status /\ MaxAnalyses \in Nat \ {0}

VARIABLES
  tasks,
  reviews,
  asked,       \* tasks with a pending completion proposal
  verdict,     \* processing status of the meeting
  analyses,
  plan,        \* the decisions of the analysis under way, those not applied
  noted,       \* it created a review item
  resolutions,
  vetted,      \* tasks a person moved or approved (status history)
  staled       \* tasks an analysis saved over a newer row (history)

reviewVars ==
  <<tasks, reviews, asked, verdict, analyses, plan, noted, resolutions, vetted, staled>>

Bands == {"AUTO_ACCEPT", "PROPOSAL", "REVIEW"}

Decisions ==
  {"CREATE_NEW", "LINK_EXISTING", "UPDATE_EXISTING", "MARK_DONE_CANDIDATE",
   "REOPEN_CANDIDATE", "REQUIRES_HUMAN_REVIEW"}

(* "judged" is the answer of the model that is asked about a grey match.    *)
Extraction ==
  [band: Bands, hint: {"NEW", "UPDATE", "BLOCKED", "DONE"}, redated: BOOLEAN,
   unclear: BOOLEAN, match: {"none", "grey", "close"},
   judged: Decisions]

ASSUME HearingAssumption == Hearings \subseteq Seq(Extraction)

TaskRow == [status: Status, from: {"people"} \cup Bands]
NoRow == [status |-> "absent"]

ReviewRow ==
  [status: {"PENDING", "APPROVED", "REJECTED", "MERGED"}, proposed: Tasks \cup {NoTask}]
NoReview == [status |-> "absent"]

Planned ==
  [extraction: Extraction, decision: Decisions, target: Tasks \cup {NoTask},
   read: TaskRow \cup {NoRow}]

Free == [step |-> "free"]
Resolution ==
  [step: {"checked", "loaded", "ready"}, how: {"approve", "reject", "merge"},
   item: ReviewItems, target: Tasks \cup {NoTask}, review: ReviewRow, task: TaskRow \cup {NoRow}]

ReviewTypeOK ==
  /\ tasks \in [Tasks -> TaskRow \cup {NoRow}]
  /\ reviews \in [ReviewItems -> ReviewRow \cup {NoReview}]
  /\ asked \subseteq Tasks
  /\ verdict \in {"ANALYZING", "PLANNED", "APPLYING", "COMPLETED", "REVIEW_REQUIRED"}
  /\ analyses \in 0..MaxAnalyses
  /\ plan \in Seq(Planned) /\ noted \in BOOLEAN
  /\ resolutions \in [Resolvers -> Resolution \cup {Free}]
  /\ vetted \subseteq Tasks /\ staled \subseteq Tasks

ReviewInit ==
  /\ \E s \in [Existing -> OpenForProposal \cap MovesTo] :
       tasks = [t \in Tasks |-> IF t \in Existing
                                THEN [status |-> s[t], from |-> "people"] ELSE NoRow]
  /\ reviews = [r \in ReviewItems |-> NoReview]
  /\ asked = {} /\ verdict = "ANALYZING" /\ analyses = 1
  /\ plan = <<>> /\ noted = FALSE
  /\ resolutions = [p \in Resolvers |-> Free]
  /\ vetted = Existing /\ staled = {}

Known == {t \in Tasks : tasks[t] # NoRow}
OpenStatus == Status \ {"COMPLETED", "CANCELLED"}

----------------------------------------------------------------------------
(* planReconciliation.  Between the two thresholds a model judges; when it  *)
(* is unsure or fails, a person will.                                       *)
Decide(x, status) ==
  CASE status \notin OpenStatus ->
         IF x.hint = "DONE" THEN "LINK_EXISTING" ELSE "REOPEN_CANDIDATE"
    [] status \in OpenStatus /\ x.hint = "DONE" -> "MARK_DONE_CANDIDATE"
    [] status \in OpenStatus /\ x.hint # "DONE" /\ x.match = "close" ->
         IF x.hint \in {"UPDATE", "BLOCKED"} \/ x.redated
         THEN "UPDATE_EXISTING" ELSE "LINK_EXISTING"
    [] OTHER -> x.judged

PlanFor(x) ==
  IF x.match = "none" \/ Known = {}
  THEN {[extraction |-> x, decision |-> "CREATE_NEW", target |-> NoTask, read |-> NoRow]}
  ELSE {LET d == Decide(x, tasks[t].status) IN
        [extraction |-> x, decision |-> d,
         target |-> IF d = "CREATE_NEW" THEN NoTask ELSE t,
         read |-> IF d = "CREATE_NEW" THEN NoRow ELSE tasks[t]] : t \in Known}

PlanReconciliation ==
  /\ verdict = "ANALYZING"
  /\ \E heard \in Hearings :
       /\ plan' \in [DOMAIN heard -> UNION {PlanFor(heard[i]) : i \in DOMAIN heard}]
       /\ \A i \in DOMAIN heard : plan'[i] \in PlanFor(heard[i])
  /\ verdict' = "PLANNED" /\ noted' = FALSE
  /\ UNCHANGED <<tasks, reviews, asked, analyses, resolutions, vetted, staled>>

----------------------------------------------------------------------------
(* applyReconciliation, one decision after the other.                       *)
(* Ids are never given twice; which one comes next does not matter.         *)
Fresh(ids, table, none) == CHOOSE id \in ids : table[id] = none
NewTask == Fresh(Tasks, tasks, NoRow)

NewReview(proposed, needed) ==
  IF needed
  THEN /\ \E r \in ReviewItems : reviews[r] = NoReview
       /\ reviews' = [reviews EXCEPT ![Fresh(ReviewItems, reviews, NoReview)] =
                        [status |-> "PENDING", proposed |-> proposed]]
       /\ noted' = TRUE
  ELSE UNCHANGED <<reviews, noted>>

Now == Head(plan)
Applying(decision) ==
  /\ verdict \in {"PLANNED", "APPLYING"} /\ plan # <<>>
  /\ Now.decision = decision
  /\ plan' = Tail(plan) /\ verdict' = "APPLYING"
  /\ UNCHANGED <<analyses, resolutions, vetted>>

(* Every save of the target writes the row of the plan back.                *)
SaveTarget(status) ==
  /\ tasks' = [tasks EXCEPT ![Now.target] = [Now.read EXCEPT !.status = status]]
  /\ staled' = IF tasks[Now.target] = Now.read THEN staled ELSE staled \cup {Now.target}

(* Mutant: what is below the acceptance threshold is created as accepted.   *)
CreateAccepted ==
  LET x == Now.extraction IN
  /\ Applying("CREATE_NEW")
  /\ UNCHANGED <<asked, staled>>
  /\ IF x.band = "REVIEW"
     THEN NewReview(NoTask, TRUE) /\ UNCHANGED tasks
     ELSE \E t \in IF Known = Tasks THEN {} ELSE {NewTask} :
            /\ tasks' = [tasks EXCEPT ![t] = [status |-> "PENDING", from |-> x.band]]
            /\ NewReview(t, x.band = "PROPOSAL" \/ x.unclear)

(* Mutant: only what is unclear gets a review item.                         *)
CreateUnannounced ==
  LET x == Now.extraction IN
  /\ Applying("CREATE_NEW")
  /\ UNCHANGED <<asked, staled>>
  /\ IF x.band = "REVIEW"
     THEN NewReview(NoTask, TRUE) /\ UNCHANGED tasks
     ELSE \E t \in IF Known = Tasks THEN {} ELSE {NewTask} :
            /\ tasks' = [tasks EXCEPT ![t] =
                 [status |-> IF x.band = "PROPOSAL" THEN "PROPOSED" ELSE "PENDING",
                  from |-> x.band]]
            /\ NewReview(t, x.unclear)

(* Too unsure even to propose: only a review item.                          *)
CreateNew ==
  LET x == Now.extraction IN
  /\ Applying("CREATE_NEW")
  /\ UNCHANGED <<asked, staled>>
  /\ IF x.band = "REVIEW"
     THEN NewReview(NoTask, TRUE) /\ UNCHANGED tasks
     ELSE \E t \in IF Known = Tasks THEN {} ELSE {NewTask} :
            /\ tasks' = [tasks EXCEPT ![t] =
                 [status |-> IF x.band = "PROPOSAL" THEN "PROPOSED" ELSE "PENDING",
                  from |-> x.band]]
            /\ NewReview(t, x.band = "PROPOSAL" \/ x.unclear)

LinkExisting ==
  /\ Applying("LINK_EXISTING")
  /\ SaveTarget(Now.read.status)
  /\ UNCHANGED <<reviews, noted, asked>>

(* A new date is only taken from a confident extraction, a blocker always   *)
(* goes to a person too; the status stays.                                  *)
UpdateExisting ==
  LET x == Now.extraction IN
  /\ Applying("UPDATE_EXISTING")
  /\ SaveTarget(Now.read.status)
  /\ NewReview(NoTask, \/ x.redated /\ x.band # "AUTO_ACCEPT"
                       \/ x.hint = "BLOCKED" \/ x.unclear)
  /\ UNCHANGED asked

(* The AI proposes a closure if the status that was planned on allows one   *)
(* and none is pending.                                                     *)
MarkDoneCandidate ==
  LET x == Now.extraction
      proposing == CanProposeCompletion(Now.read.status) /\ Now.target \notin asked
  IN
  /\ Applying("MARK_DONE_CANDIDATE")
  /\ \/ /\ proposing
        /\ CanTransition(Now.read.status, "COMPLETION_PROPOSED", "AI", FALSE)
        /\ asked' = asked \cup {Now.target}
        /\ SaveTarget("COMPLETION_PROPOSED")
        /\ NewReview(NoTask, x.band # "AUTO_ACCEPT")
     \/ /\ ~proposing
        /\ SaveTarget(Now.read.status)
        /\ NewReview(NoTask, TRUE)
        /\ UNCHANGED asked

(* Mutant: a task heard of again is reopened.                               *)
ReopenHeardOf ==
  /\ Applying("REOPEN_CANDIDATE")
  /\ SaveTarget("IN_PROGRESS")
  /\ NewReview(NoTask, TRUE)
  /\ UNCHANGED asked

ReopenCandidate ==
  /\ Applying("REOPEN_CANDIDATE")
  /\ SaveTarget(Now.read.status)
  /\ NewReview(NoTask, TRUE)
  /\ UNCHANGED asked

HumanReview ==
  /\ Applying("REQUIRES_HUMAN_REVIEW")
  /\ NewReview(NoTask, TRUE)
  /\ UNCHANGED <<tasks, asked, staled>>

(* Mutant: only the items of this analysis count.                           *)
ConcludeOnOwnItems ==
  /\ verdict \in {"PLANNED", "APPLYING"} /\ plan = <<>>
  /\ verdict' = IF noted THEN "REVIEW_REQUIRED" ELSE "COMPLETED"
  /\ noted' = FALSE
  /\ UNCHANGED <<tasks, reviews, asked, analyses, plan, resolutions, vetted, staled>>

(* The end of analyzeMeeting: items left by an earlier analysis count.      *)
Conclude ==
  /\ verdict \in {"PLANNED", "APPLYING"} /\ plan = <<>>
  /\ verdict' = IF noted \/ \E r \in ReviewItems : reviews[r].status = "PENDING"
                THEN "REVIEW_REQUIRED" ELSE "COMPLETED"
  /\ noted' = FALSE
  /\ UNCHANGED <<tasks, reviews, asked, analyses, plan, resolutions, vetted, staled>>

(* A judge, a save or the worker fails before anything is visible; the job  *)
(* runs again.  Once settled, the meeting can be reprocessed.               *)
Reanalyze ==
  /\ analyses < MaxAnalyses
  /\ verdict \in {"PLANNED", "COMPLETED", "REVIEW_REQUIRED"}
  /\ analyses' = analyses + 1
  /\ verdict' = "ANALYZING" /\ plan' = <<>> /\ noted' = FALSE
  /\ UNCHANGED <<tasks, reviews, asked, resolutions, vetted, staled>>

Analysis ==
  \/ PlanReconciliation
  \/ CreateNew \/ LinkExisting \/ UpdateExisting \/ MarkDoneCandidate
  \/ ReopenCandidate \/ HumanReview \/ Conclude \/ Reanalyze

----------------------------------------------------------------------------
(* Nobody else sees an analysis that is only partly applied.                *)
Visible == verdict # "APPLYING"

ResolveTo(p, resolution) == resolutions' = [resolutions EXCEPT ![p] = resolution]

(* assertResolvable, before the transaction.                                *)
BeginResolution(p, r, how, target) ==
  /\ Visible
  /\ resolutions[p] = Free /\ reviews[r].status = "PENDING"
  /\ target \in IF how = "merge" THEN Known ELSE {NoTask}
  /\ ResolveTo(p, [step |-> "checked", how |-> how, item |-> r, target |-> target,
                   review |-> reviews[r], task |-> NoRow])
  /\ UNCHANGED <<tasks, reviews, asked, verdict, analyses, plan, noted, vetted, staled>>

(* Inside: the item, whatever its status is now, then its task.             *)
LoadReview(p) ==
  /\ Visible /\ resolutions[p].step = "checked"
  /\ ResolveTo(p, [resolutions[p] EXCEPT !.step = "loaded",
                                         !.review = reviews[resolutions[p].item]])
  /\ UNCHANGED <<tasks, reviews, asked, verdict, analyses, plan, noted, vetted, staled>>

LoadTask(p) ==
  LET t == resolutions[p].review.proposed IN
  /\ Visible /\ resolutions[p].step = "loaded"
  /\ ResolveTo(p, [resolutions[p] EXCEPT !.step = "ready",
                     !.task = IF t = NoTask THEN NoRow ELSE tasks[t]])
  /\ UNCHANGED <<tasks, reviews, asked, verdict, analyses, plan, noted, vetted, staled>>

Resolved(p, how, status, proposed) ==
  LET my == resolutions[p] IN
  /\ Visible /\ my.step = "ready" /\ my.how = how
  /\ reviews' = [reviews EXCEPT ![my.item] = [status |-> status, proposed |-> proposed]]
  /\ ResolveTo(p, Free)
  /\ UNCHANGED <<asked, verdict, analyses, plan, noted>>

(* A later status is not undone, an earlier one is: the row that was read   *)
(* goes back, and with it what it did not know.                             *)
Saved(t, old, status) ==
  /\ tasks' = [tasks EXCEPT ![t] = [old EXCEPT !.status = status]]
  /\ staled' = IF tasks[t] = old THEN staled ELSE staled \cup {t}

(* Mutant: the approval only edits the fields of the task.                  *)
ApproveFieldsOnly(p) ==
  LET my == resolutions[p] IN
  \/ /\ my.step = "ready" /\ my.review.proposed # NoTask
     /\ Resolved(p, "approve", "APPROVED", my.review.proposed)
     /\ Saved(my.review.proposed, my.task, my.task.status)
     /\ vetted' = vetted \cup {my.review.proposed}
  \/ \E t \in IF Known = Tasks THEN {} ELSE {NewTask} :
       /\ my.step = "ready" /\ my.review.proposed = NoTask
       /\ Resolved(p, "approve", "APPROVED", t)
       /\ tasks' = [tasks EXCEPT ![t] = [status |-> "PENDING", from |-> "people"]]
       /\ vetted' = vetted \cup {t} /\ UNCHANGED staled

(* approveAiReview: the proposed task is accepted, or one is made.          *)
Approve(p) ==
  LET my == resolutions[p] IN
  \/ /\ my.step = "ready" /\ my.review.proposed # NoTask
     /\ Resolved(p, "approve", "APPROVED", my.review.proposed)
     /\ Saved(my.review.proposed, my.task,
              IF my.task.status = "PROPOSED" THEN "PENDING" ELSE my.task.status)
     /\ vetted' = vetted \cup {my.review.proposed}
  \/ \E t \in IF Known = Tasks THEN {} ELSE {NewTask} :
       /\ my.step = "ready" /\ my.review.proposed = NoTask
       /\ Resolved(p, "approve", "APPROVED", t)
       /\ tasks' = [tasks EXCEPT ![t] = [status |-> "PENDING", from |-> "people"]]
       /\ vetted' = vetted \cup {t} /\ UNCHANGED staled

(* Discards a task that is still proposed.                                  *)
Discard(my) ==
  IF my.task.status = "PROPOSED"
  THEN Saved(my.review.proposed, my.task, "CANCELLED")
  ELSE UNCHANGED <<tasks, staled>>

(* rejectAiReview *)
Reject(p) ==
  LET my == resolutions[p] IN
  /\ my.step = "ready"
  /\ Resolved(p, "reject", "REJECTED", my.review.proposed)
  /\ Discard(my)
  /\ UNCHANGED vetted

(* mergeAiReview: the target only gets fields and a link (it is read and    *)
(* saved here); the proposed task goes, unless it is the target.            *)
Merge(p) ==
  LET my == resolutions[p] IN
  /\ my.step = "ready"
  /\ Resolved(p, "merge", "MERGED", my.review.proposed)
  /\ IF my.review.proposed # my.target THEN Discard(my) ELSE UNCHANGED <<tasks, staled>>
  /\ UNCHANGED vetted

(* The check, the transaction or the process fails.                         *)
GiveUpResolution(p) ==
  /\ Visible /\ resolutions[p].step = "ready" /\ ResolveTo(p, Free)
  /\ UNCHANGED <<tasks, reviews, asked, verdict, analyses, plan, noted, vetted, staled>>

(* The commands of the board: a closure that was proposed is approved or    *)
(* rejected with its proposal, any other change of status leaves it.        *)
PeopleMove(t, to) ==
  /\ Visible /\ t \in Known
  /\ CanTransition(tasks[t].status, to, "USER", t \in asked)
  /\ tasks' = [tasks EXCEPT ![t].status = to]
  /\ vetted' = vetted \cup {t}
  /\ \/ tasks[t].status = "COMPLETION_PROPOSED" /\ asked' = asked \ {t}
     \/ to # "COMPLETED" /\ UNCHANGED asked
  /\ UNCHANGED <<reviews, verdict, analyses, plan, noted, resolutions, staled>>

ReviewNext ==
  \/ Analysis
  \/ \E p \in Resolvers :
       \/ LoadReview(p) \/ LoadTask(p) \/ Approve(p) \/ Reject(p) \/ Merge(p)
       \/ GiveUpResolution(p)
       \/ \E r \in ReviewItems, how \in {"approve", "reject", "merge"}, t \in Tasks \cup {NoTask} :
            BeginResolution(p, r, how, t)
  \/ \E t \in Tasks, to \in MovesTo : PeopleMove(t, to)

ReviewSpec == ReviewInit /\ [][ReviewNext]_reviewVars

----------------------------------------------------------------------------
(* What the AI was not sure of is nobody's task until a person took it:     *)
(* whatever analyses are repeated, however resolutions race and rows are    *)
(* saved over newer ones, it is proposed or discarded.                      *)
NothingUnvettedIsActive ==
  \A t \in Known :
    tasks[t].from = "PROPOSAL" /\ t \notin vetted => tasks[t].status \in {"PROPOSED", "CANCELLED"}

(* A proposed task does not get lost: an open review item leads to it, or a *)
(* person merged the item into the task itself, unless a stale row revived  *)
(* the proposal.                                                            *)
ProposedCanBeAnswered ==
  \A t \in Known \ staled :
    tasks[t].status = "PROPOSED" =>
      \E r \in ReviewItems :
        /\ reviews[r] # NoReview /\ reviews[r].proposed = t
        /\ reviews[r].status \in {"PENDING", "MERGED"}

(* An approved item leads to a task that is no longer a proposal, unless a  *)
(* stale row revived it.                                                    *)
ApprovedIsAccepted ==
  \A r \in ReviewItems :
    reviews[r].status = "APPROVED" =>
      /\ reviews[r].proposed \in Known
      /\ tasks[reviews[r].proposed].status = "PROPOSED" => reviews[r].proposed \in staled

(* A meeting that shows as completed has no open review item, those of      *)
(* earlier analyses included.                                               *)
CompletedHasNothingOpen ==
  verdict = "COMPLETED" => \A r \in ReviewItems : reviews[r].status # "PENDING"

(* An analysis never decides the fate of a task: every status it writes is  *)
(* the one its plan read or a proposed closure of an open task, and the     *)
(* tasks it makes are proposed or pending.                                  *)
AnalysisNeverDecides ==
  [][verdict' = "APPLYING" =>
       \A t \in Tasks : tasks'[t] # tasks[t] =>
         \/ tasks[t] = NoRow /\ tasks'[t].status \in {"PROPOSED", "PENDING"}
         \/ /\ t = Now.target
            /\ \/ tasks'[t] = Now.read
               \/ /\ tasks'[t].status = "COMPLETION_PROPOSED"
                  /\ Now.read.status \in OpenForProposal]_reviewVars
=============================================================================
