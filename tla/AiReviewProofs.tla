---------------------------- MODULE AiReviewProofs ----------------------------
(***************************************************************************)
(* What an analysis was not sure of stays a proposal until a person takes  *)
(* it, can be answered as long as it is one, and is answered once; for any *)
(* tasks, review items, extractions, racing people and repeated analyses.  *)
(*                                                                         *)
(* Plans and resolutions write rows they read before.  The invariant says  *)
(* of those rows what it says of the table: unvetted tasks are proposed or *)
(* discarded.  And it says that whoever works on the item of a task still  *)
(* waiting for its answer works on that task: no other answer can take the *)
(* item away from it.                                                      *)
(*                                                                         *)
(* And that the model adapter has a meeting heard whole, for any           *)
(* transcript, blocks, failures and answers.  What its loops make is shown *)
(* by counting up to the first step that would go wrong (CountingUp).      *)
(***************************************************************************)
EXTENDS AiReview, GeminiAnalyzer, Integers, FiniteSetTheorems, SequenceTheorems,
        WellFoundedInduction, TLAPS

(* A row of task t, in the table, in a plan or in a resolution.             *)
Clean(t, row) ==
  row.from = "PROPOSAL" /\ t \notin vetted => row.status \in {"PROPOSED", "CANCELLED"}

(* t is proposed, and not by a stale row.                                   *)
Waiting(t) == t \in Known /\ tasks[t].status = "PROPOSED" /\ t \notin staled

LeadsNowhereUnknown(t) == t = NoTask \/ t \in Known

PlannedSoundly(d) ==
  d.decision \notin {"CREATE_NEW", "REQUIRES_HUMAN_REVIEW"} =>
    d.target \in Known /\ d.read \in TaskRow /\ Clean(d.target, d.read)

ResolvedSoundly(my) ==
  LET t == my.review.proposed IN
  /\ reviews[my.item] # NoReview
  /\ LeadsNowhereUnknown(t)
  /\ my.step = "ready" =>
       IF t = NoTask THEN my.task = NoRow
       ELSE /\ my.task \in TaskRow /\ Clean(t, my.task)
            /\ Waiting(t) => my.task.status = "PROPOSED"
  /\ my.step \in {"loaded", "ready"} =>
       \A u \in Tasks : Waiting(u) => (t = u <=> reviews[my.item].proposed = u)

ReviewInv ==
  /\ ReviewTypeOK
  /\ \A i \in 1..Len(plan) : PlannedSoundly(plan[i])
  /\ \A r \in ReviewItems :
       reviews[r] # NoReview => LeadsNowhereUnknown(reviews[r].proposed)
  /\ \A p \in Resolvers : resolutions[p] # Free => ResolvedSoundly(resolutions[p])
  /\ NothingUnvettedIsActive
  /\ ProposedCanBeAnswered
  /\ ApprovedIsAccepted
  /\ CompletedHasNothingOpen

(* What no step takes back: people's answers, tasks and items stay, no task *)
(* begins to wait but a new one, and an item that leads to one that waits   *)
(* goes on leading to it.                                                   *)
Onward ==
  /\ vetted \subseteq vetted'
  /\ Known \subseteq Known'
  /\ \A t \in Known : Waiting(t)' => Waiting(t)
  /\ \A r \in ReviewItems : reviews[r] # NoReview =>
       /\ reviews'[r] # NoReview
       /\ \A t \in Tasks : Waiting(t)' =>
            (reviews'[r].proposed = t <=> reviews[r].proposed = t)

----------------------------------------------------------------------------
LEMMA NoRowIsNone == NoRow \notin TaskRow /\ NoRow.status = "absent"
BY DEF NoRow, TaskRow

LEMMA NoReviewIsNone == NoReview \notin ReviewRow /\ NoReview.status = "absent"
BY DEF NoReview, ReviewRow

LEMMA KnownTyped ==
  ASSUME ReviewTypeOK, NEW t \in Known
  PROVE  t \in Tasks /\ tasks[t] \in TaskRow
BY DEF Known, ReviewTypeOK

LEMMA FreeIsNone == \A my \in Resolution : my # Free
BY DEF Resolution, Free

LEMMA PlannedStays ==
  ASSUME ReviewTypeOK, Onward, NEW d \in Planned, PlannedSoundly(d)
  PROVE  PlannedSoundly(d)'
BY DEF Onward, PlannedSoundly, Clean

LEMMA ResolvedStays ==
  ASSUME ReviewAssumption, ReviewInv, Onward, NEW my \in Resolution, ResolvedSoundly(my)
  PROVE  ResolvedSoundly(my)'
<1> DEFINE t == my.review.proposed
<1>1. ReviewTypeOK /\ my.item \in ReviewItems /\ t \in Tasks \cup {NoTask}
        /\ my.task \in TaskRow \cup {NoRow}
  BY DEF ReviewInv, Resolution, ReviewRow
<1>2. reviews[my.item] # NoReview /\ reviews'[my.item] # NoReview
  BY <1>1 DEF ResolvedSoundly, Onward
<1>3. LeadsNowhereUnknown(t)'
  BY DEF ResolvedSoundly, Onward, LeadsNowhereUnknown
<1>4. t # NoTask => t \in Known
  BY DEF ResolvedSoundly, LeadsNowhereUnknown
<1>5. ASSUME my.step = "ready", t # NoTask
      PROVE  /\ my.task \in TaskRow /\ Clean(t, my.task)'
             /\ Waiting(t)' => my.task.status = "PROPOSED"
  BY <1>4, <1>5 DEF ResolvedSoundly, Onward, Clean
<1>6. ASSUME my.step \in {"loaded", "ready"}, NEW u \in Tasks, Waiting(u)'
      PROVE  t = u <=> reviews'[my.item].proposed = u
  <2>1. CASE u \in Known
    BY <1>1, <1>2, <1>6, <2>1 DEF ResolvedSoundly, Onward
  <2>2. CASE u \notin Known
    <3>1. u # NoTask /\ t # u
      BY <1>4, <2>2 DEF ReviewAssumption
    <3>2. reviews[my.item].proposed # u
      BY <1>1, <1>2, <2>2, <3>1 DEF ReviewInv, LeadsNowhereUnknown
    <3> QED BY <1>1, <1>2, <1>6, <3>1, <3>2 DEF Onward
  <2> QED BY <2>1, <2>2
<1>7. my.step = "ready" /\ t = NoTask => my.task = NoRow
  BY DEF ResolvedSoundly
<1> QED BY <1>2, <1>3, <1>5, <1>6, <1>7 DEF ResolvedSoundly

(* What a step has to show.                                                 *)
LEMMA ReviewStepKeeps ==
  ASSUME ReviewAssumption, ReviewInv, ReviewTypeOK', Onward,
         \A i \in 1..Len(plan') : (\E j \in 1..Len(plan) : plan'[i] = plan[j])
                                  \/ PlannedSoundly(plan[i])',
         \A r \in ReviewItems : reviews'[r] = reviews[r]
                                \/ LeadsNowhereUnknown(reviews[r].proposed)',
         \A p \in Resolvers : resolutions'[p] = resolutions[p] \/ resolutions'[p] = Free
                              \/ ResolvedSoundly(resolutions[p])',
         NothingUnvettedIsActive', ProposedCanBeAnswered', ApprovedIsAccepted',
         CompletedHasNothingOpen'
  PROVE  ReviewInv'
<1>1. ReviewTypeOK
  BY DEF ReviewInv
<1>2. ASSUME NEW i \in 1..Len(plan')
      PROVE  PlannedSoundly(plan[i])'
  <2>1. CASE \E j \in 1..Len(plan) : plan'[i] = plan[j]
    <3>1. PICK j \in 1..Len(plan) : plan'[i] = plan[j]
      BY <2>1
    <3>2. plan[j] \in Planned /\ PlannedSoundly(plan[j])
      BY <1>1 DEF ReviewInv, ReviewTypeOK
    <3>3. PICK d \in Planned : d = plan[j]
      BY <3>2
    <3>4. PlannedSoundly(d)'
      BY <1>1, <3>2, <3>3, PlannedStays
    <3> QED BY <3>1, <3>3, <3>4
  <2> QED BY <2>1
<1>3. ASSUME NEW r \in ReviewItems, reviews'[r] # NoReview
      PROVE  LeadsNowhereUnknown(reviews[r].proposed)'
  BY <1>3 DEF ReviewInv, Onward, LeadsNowhereUnknown
<1>4. ASSUME NEW p \in Resolvers, resolutions'[p] # Free
      PROVE  ResolvedSoundly(resolutions[p])'
  <2>1. CASE resolutions'[p] = resolutions[p]
    <3>1. PICK my \in Resolution : my = resolutions[p]
      BY <1>1, <1>4, <2>1 DEF ReviewTypeOK
    <3>2. ResolvedSoundly(my)
      BY <1>4, <2>1, <3>1 DEF ReviewInv
    <3>3. ResolvedSoundly(my)'
      BY <3>2, ResolvedStays
    <3> QED BY <2>1, <3>1, <3>3
  <2> QED BY <1>4, <2>1
<1> QED BY <1>2, <1>3, <1>4 DEF ReviewInv

----------------------------------------------------------------------------
LEMMA ReviewStarts ==
  ASSUME ReviewAssumption, ReviewInit
  PROVE  ReviewInv
<1>1. PICK s \in [Existing -> OpenForProposal \cap MovesTo] :
        tasks = [t \in Tasks |-> IF t \in Existing
                                 THEN [status |-> s[t], from |-> "people"] ELSE NoRow]
  BY DEF ReviewInit
<1>2. tasks \in [Tasks -> TaskRow \cup {NoRow}]
  BY <1>1 DEF ReviewAssumption, TaskRow
<1>3. ReviewTypeOK
  <2>1. plan \in Seq(Planned)
    BY DEF ReviewInit
  <2>2. 1 \in 0..MaxAnalyses /\ vetted \subseteq Tasks
    BY DEF ReviewInit, ReviewAssumption
  <2> QED BY <1>2, <2>1, <2>2 DEF ReviewInit, ReviewTypeOK
<1>4. ASSUME NEW t \in Known
      PROVE  tasks[t].from = "people" /\ tasks[t].status # "PROPOSED"
  <2>1. t \in Tasks /\ tasks[t] # NoRow
    BY DEF Known
  <2>2. t \in Existing /\ tasks[t] = [status |-> s[t], from |-> "people"]
    BY <1>1, <2>1
  <2>3. s[t] \in OpenForProposal
    BY <2>2
  <2> QED BY <2>2, <2>3 DEF OpenForProposal
<1>5. NothingUnvettedIsActive /\ ProposedCanBeAnswered
  BY <1>4 DEF NothingUnvettedIsActive, ProposedCanBeAnswered
<1>6. \A r \in ReviewItems : reviews[r] = NoReview
  BY DEF ReviewInit
<1>7. ApprovedIsAccepted /\ CompletedHasNothingOpen
  BY <1>6, NoReviewIsNone DEF ApprovedIsAccepted, CompletedHasNothingOpen, ReviewInit
<1> QED BY <1>3, <1>5, <1>6, <1>7 DEF ReviewInv, ReviewInit

(* Where tasks, items and people's answers stay, only memories move.        *)
LEMMA TablesStay ==
  ASSUME ReviewInv, UNCHANGED <<tasks, reviews, vetted, staled>>
  PROVE  /\ Onward
         /\ NothingUnvettedIsActive' /\ ProposedCanBeAnswered' /\ ApprovedIsAccepted'
         /\ verdict' # "COMPLETED" \/ verdict' = verdict => CompletedHasNothingOpen'
BY DEF ReviewInv, Onward, Known, Waiting, NothingUnvettedIsActive, ProposedCanBeAnswered,
       ApprovedIsAccepted, CompletedHasNothingOpen

----------------------------------------------------------------------------
(* The plan.                                                                *)
LEMMA DecideTyped ==
  ASSUME NEW x \in Extraction, NEW status
  PROVE  Decide(x, status) \in Decisions
BY DEF Decide, Decisions, Extraction

(* Whatever the AI proposes, the plan made of it is sound at the moment it  *)
(* is made.                                                                 *)
LEMMA PlanForTyped ==
  ASSUME ReviewTypeOK, NothingUnvettedIsActive, NEW x \in Extraction, NEW d \in PlanFor(x)
  PROVE  d \in Planned /\ PlannedSoundly(d)
<1>1. CASE d = [extraction |-> x, decision |-> "CREATE_NEW", target |-> NoTask, read |-> NoRow]
  BY <1>1 DEF Planned, PlannedSoundly, Decisions
<1>2. ASSUME NEW t \in Known, NEW decision \in Decisions, decision # "CREATE_NEW",
             d = [extraction |-> x, decision |-> decision, target |-> t, read |-> tasks[t]]
      PROVE  d \in Planned /\ PlannedSoundly(d)
  <2>1. t \in Tasks /\ tasks[t] \in TaskRow
    BY KnownTyped
  <2>2. Clean(t, tasks[t])
    BY DEF NothingUnvettedIsActive, Clean
  <2> QED BY <1>2, <2>1, <2>2 DEF Planned, PlannedSoundly
<1>3. ASSUME NEW t \in Known,
             d = [extraction |-> x, decision |-> Decide(x, tasks[t].status),
                  target |-> IF Decide(x, tasks[t].status) = "CREATE_NEW" THEN NoTask ELSE t,
                  read |-> IF Decide(x, tasks[t].status) = "CREATE_NEW" THEN NoRow ELSE tasks[t]]
      PROVE  d \in Planned /\ PlannedSoundly(d)
  <2>1. Decide(x, tasks[t].status) \in Decisions
    BY DecideTyped
  <2> QED BY <1>1, <1>2, <1>3, <2>1
<1> QED BY <1>1, <1>3 DEF PlanFor

LEMMA PlanKeeps ==
  ASSUME ReviewAssumption, HearingAssumption, ReviewInv, PlanReconciliation
  PROVE  ReviewInv'
<1>1. ReviewTypeOK /\ NothingUnvettedIsActive
  BY DEF ReviewInv
<1>2. PICK heard \in Hearings :
        /\ plan' \in [DOMAIN heard -> UNION {PlanFor(heard[i]) : i \in DOMAIN heard}]
        /\ \A i \in DOMAIN heard : plan'[i] \in PlanFor(heard[i])
  BY DEF PlanReconciliation
<1>3. heard \in Seq(Extraction)
  BY <1>2 DEF HearingAssumption
<1>4. DOMAIN heard = 1..Len(heard) /\ Len(heard) \in Nat
        /\ \A i \in 1..Len(heard) : heard[i] \in Extraction
  BY <1>3
<1>5. \A i \in 1..Len(heard) : plan'[i] \in Planned /\ PlannedSoundly(plan'[i])
  BY <1>1, <1>2, <1>4, PlanForTyped
<1>6. plan' \in [1..Len(heard) -> Planned]
  BY <1>2, <1>4, <1>5
<1>7. plan' \in Seq(Planned) /\ Len(plan') = Len(heard)
  BY <1>4, <1>6
<1>8. ReviewTypeOK'
  BY <1>1, <1>7 DEF PlanReconciliation, ReviewTypeOK
<1>9. UNCHANGED <<tasks, reviews, vetted, staled, resolutions>> /\ verdict' = "PLANNED"
  BY DEF PlanReconciliation
<1>10. \A i \in 1..Len(plan') : PlannedSoundly(plan[i])'
  BY <1>5, <1>7, <1>9 DEF PlannedSoundly, Clean, Known
<1> QED BY <1>8, <1>9, <1>10, TablesStay, ReviewStepKeeps

(* The end of an analysis, and another one.                                 *)
LEMMA ConcludeKeeps ==
  ASSUME ReviewAssumption, ReviewInv, Conclude \/ Reanalyze
  PROVE  ReviewInv'
<1>1. ReviewTypeOK /\ UNCHANGED <<tasks, reviews, vetted, staled, resolutions>>
  BY DEF ReviewInv, Conclude, Reanalyze
<1>2. ReviewTypeOK'
  <2>1. CASE Conclude
    <3>1. verdict' \in {"REVIEW_REQUIRED", "COMPLETED"} /\ noted' = FALSE
            /\ UNCHANGED <<asked, analyses, plan>>
      BY <2>1, Zenon DEF Conclude
    <3> QED BY <1>1, <3>1 DEF ReviewTypeOK
  <2>2. CASE Reanalyze
    <3>1. analyses' \in 0..MaxAnalyses
      BY <1>1, <2>2 DEF ReviewTypeOK, Reanalyze, ReviewAssumption
    <3>2. plan' \in Seq(Planned) /\ verdict' = "ANALYZING" /\ noted' = FALSE /\ asked' = asked
      BY <2>2 DEF Reanalyze
    <3> QED BY <1>1, <3>1, <3>2 DEF ReviewTypeOK
  <2> QED BY <2>1, <2>2
<1>3. plan' = plan \/ plan' = <<>>
  BY DEF Conclude, Reanalyze
<1>4. CompletedHasNothingOpen'
  BY <1>1 DEF Conclude, Reanalyze, CompletedHasNothingOpen
<1>5. \A i \in 1..Len(plan') : \E j \in 1..Len(plan) : plan'[i] = plan[j]
  BY <1>1, <1>3 DEF ReviewTypeOK
<1> QED BY <1>1, <1>2, <1>4, <1>5, TablesStay, ReviewStepKeeps

----------------------------------------------------------------------------
(* The decisions.  What comes next, and what is left of the plan.           *)
LEMMA NowSound ==
  ASSUME ReviewInv, plan # <<>>
  PROVE  /\ Now \in Planned /\ PlannedSoundly(Now)
         /\ Tail(plan) \in Seq(Planned)
         /\ \A i \in 1..Len(Tail(plan)) : \E j \in 1..Len(plan) : Tail(plan)[i] = plan[j]
<1>1. plan \in Seq(Planned) /\ Len(plan) \in Nat /\ Len(plan) > 0
  BY DEF ReviewInv, ReviewTypeOK
<1>2. Now = plan[1] /\ 1 \in 1..Len(plan)
  BY <1>1 DEF Now
<1>3. Now \in Planned /\ PlannedSoundly(Now)
  BY <1>1, <1>2 DEF ReviewInv
<1>4. Tail(plan) \in Seq(Planned) /\ Len(Tail(plan)) = Len(plan) - 1
        /\ \A i \in 1..Len(Tail(plan)) : Tail(plan)[i] = plan[i + 1]
  BY <1>1
<1>5. ASSUME NEW i \in 1..Len(Tail(plan))
      PROVE  \E j \in 1..Len(plan) : Tail(plan)[i] = plan[j]
  <2>1. i + 1 \in 1..Len(plan)
    BY <1>1, <1>4
  <2> QED BY <1>4, <2>1
<1> QED BY <1>3, <1>4, <1>5

(* A new item, if one is needed.                                            *)
LEMMA NewReviewMakes ==
  ASSUME ReviewTypeOK, NEW proposed \in Tasks \cup {NoTask}, NEW needed, NewReview(proposed, needed)
  PROVE  /\ reviews' \in [ReviewItems -> ReviewRow \cup {NoReview}] /\ noted' \in BOOLEAN
         /\ \A r \in ReviewItems :
              \/ reviews'[r] = reviews[r]
              \/ reviews[r] = NoReview
                   /\ reviews'[r] = [status |-> "PENDING", proposed |-> proposed]
         /\ needed => \E r \in ReviewItems :
              reviews'[r] = [status |-> "PENDING", proposed |-> proposed]
<1>1. CASE needed
  <2> DEFINE fresh == CHOOSE r \in ReviewItems : reviews[r] = NoReview
             item == [status |-> "PENDING", proposed |-> proposed]
  <2>1. fresh \in ReviewItems /\ reviews[fresh] = NoReview
    BY <1>1 DEF NewReview
  <2>2. reviews' = [reviews EXCEPT ![fresh] = item] /\ noted' = TRUE
    BY <1>1 DEF NewReview, Fresh
  <2>3. item \in ReviewRow
    BY DEF ReviewRow
  <2> HIDE DEF fresh, item
  <2>4. reviews' \in [ReviewItems -> ReviewRow \cup {NoReview}] /\ reviews'[fresh] = item
          /\ \A r \in ReviewItems \ {fresh} : reviews'[r] = reviews[r]
    BY <2>1, <2>2, <2>3 DEF ReviewTypeOK
  <2> QED BY <2>1, <2>2, <2>4 DEF item
<1>2. CASE ~needed
  BY <1>2 DEF NewReview, ReviewTypeOK
<1> QED BY <1>1, <1>2

(* A decision that writes its target back with the status it read, or       *)
(* proposes its closure.                                                    *)
LEMMA SaveKeeps ==
  ASSUME ReviewAssumption, ReviewInv, NEW decision \in Decisions, Applying(decision),
         decision \notin {"CREATE_NEW", "REQUIRES_HUMAN_REVIEW"},
         NEW status \in Status, SaveTarget(status),
         status = Now.read.status \/ (Now.read.status \in OpenForProposal /\ status = "COMPLETION_PROPOSED"),
         NEW needed, NewReview(NoTask, needed) \/ UNCHANGED <<reviews, noted>>,
         asked' \in SUBSET Tasks
  PROVE  ReviewInv'
<1> DEFINE t == Now.target
           row == [Now.read EXCEPT !.status = status]
<1>1. ReviewTypeOK /\ plan # <<>> /\ plan' = Tail(plan) /\ verdict' = "APPLYING"
        /\ UNCHANGED <<analyses, resolutions, vetted>> /\ Now.decision = decision
  BY DEF ReviewInv, Applying
<1>2. /\ Now \in Planned /\ t \in Known /\ Now.read \in TaskRow /\ Clean(t, Now.read)
      /\ t \in Tasks /\ tasks[t] \in TaskRow
      /\ plan' \in Seq(Planned)
      /\ \A i \in 1..Len(plan') : \E j \in 1..Len(plan) : plan'[i] = plan[j]
  BY <1>1, NowSound, KnownTyped DEF PlannedSoundly
<1>3. row \in TaskRow /\ row.status = status /\ row.from = Now.read.from
  BY <1>2 DEF TaskRow
<1>4. Clean(t, row)
  BY <1>2, <1>3 DEF Clean, OpenForProposal
<1>5. row = Now.read \/ status # Now.read.status
  BY <1>2 DEF TaskRow
<1>6. tasks' = [tasks EXCEPT ![t] = row]
        /\ staled' = IF tasks[t] = Now.read THEN staled ELSE staled \cup {t}
  BY DEF SaveTarget
<1> HIDE DEF t, row
<1>7. /\ tasks'[t] = row /\ tasks' \in [Tasks -> TaskRow \cup {NoRow}]
      /\ \A u \in Tasks \ {t} : tasks'[u] = tasks[u]
  BY <1>1, <1>2, <1>3, <1>6 DEF ReviewTypeOK
<1>8. /\ reviews' \in [ReviewItems -> ReviewRow \cup {NoReview}] /\ noted' \in BOOLEAN
      /\ \A r \in ReviewItems :
           \/ reviews'[r] = reviews[r]
           \/ reviews[r] = NoReview
                /\ reviews'[r] = [status |-> "PENDING", proposed |-> NoTask]
  BY <1>1, NewReviewMakes DEF ReviewTypeOK
<1>9. ReviewTypeOK'
  BY <1>1, <1>2, <1>6, <1>7, <1>8 DEF ReviewTypeOK
<1>10. Known' = Known
  BY <1>2, <1>3, <1>7, NoRowIsNone DEF Known
<1>11. \A u \in Tasks : Waiting(u)' => Waiting(u)
  <2> SUFFICES ASSUME NEW u \in Tasks, Waiting(u)'
               PROVE  Waiting(u)
    OBVIOUS
  <2>1. CASE u # t
    BY <1>6, <1>7, <1>10, <2>1 DEF Waiting
  <2>2. CASE u = t
    <3>1. tasks[t] = Now.read /\ staled' = staled /\ row.status = "PROPOSED"
      BY <1>6, <1>7, <2>2 DEF Waiting
    <3> QED BY <1>3, <1>10, <2>2, <3>1 DEF Waiting, OpenForProposal
  <2> QED BY <2>1, <2>2
<1>12. Onward
  <2>1. Known \subseteq Tasks
    BY DEF Known
  <2>2. \A r \in ReviewItems : reviews[r] # NoReview => reviews'[r] = reviews[r]
    BY <1>8
  <2> QED BY <1>1, <1>10, <1>11, <2>1, <2>2 DEF Onward
<1>13. NothingUnvettedIsActive'
  BY <1>1, <1>4, <1>7, <1>10 DEF ReviewInv, NothingUnvettedIsActive, Clean, Known
<1>14. ProposedCanBeAnswered'
  BY <1>8, <1>10, <1>11, KnownTyped DEF ReviewInv, ProposedCanBeAnswered, Waiting, Known
<1>15. ApprovedIsAccepted'
  <2> SUFFICES ASSUME NEW r \in ReviewItems, reviews'[r].status = "APPROVED"
               PROVE  /\ reviews'[r].proposed \in Known
                      /\ tasks'[reviews'[r].proposed].status = "PROPOSED" =>
                           reviews'[r].proposed \in staled'
    BY <1>10 DEF ApprovedIsAccepted
  <2>1. reviews'[r] = reviews[r]
    BY <1>8
  <2>2. PICK u \in Known : u = reviews[r].proposed
    BY <2>1 DEF ReviewInv, ApprovedIsAccepted
  <2>3. u \in Tasks /\ ~Waiting(u)
    BY <2>1, <2>2 DEF ReviewInv, ApprovedIsAccepted, Known, Waiting
  <2> QED BY <1>10, <1>11, <2>1, <2>2, <2>3 DEF Waiting
<1>16. CompletedHasNothingOpen'
  BY <1>1 DEF CompletedHasNothingOpen
<1>17. \A r \in ReviewItems : reviews'[r] = reviews[r] \/ LeadsNowhereUnknown(reviews[r].proposed)'
  BY <1>8 DEF LeadsNowhereUnknown
<1> QED BY <1>1, <1>2, <1>9, <1>12, <1>13, <1>14, <1>15, <1>16, <1>17, ReviewStepKeeps

(* The decisions that save their target.                                    *)
LEMMA DecisionsKeep ==
  ASSUME ReviewAssumption, ReviewInv,
         LinkExisting \/ UpdateExisting \/ MarkDoneCandidate \/ ReopenCandidate
  PROVE  ReviewInv'
<1>1. ASSUME NEW decision \in Decisions, Applying(decision),
             decision \notin {"CREATE_NEW", "REQUIRES_HUMAN_REVIEW"}
      PROVE  Now.read.status \in Status /\ Now.target \in Tasks
  <2>1. plan # <<>> /\ Now.decision = decision /\ ReviewTypeOK
    BY <1>1 DEF Applying, ReviewInv
  <2>2. Now.read \in TaskRow /\ Now.target \in Known
    BY <1>1, <2>1, NowSound DEF PlannedSoundly
  <2> QED BY <2>1, <2>2, KnownTyped DEF TaskRow
<1>2. asked \in SUBSET Tasks
  BY DEF ReviewInv, ReviewTypeOK
<1>3. /\ "LINK_EXISTING" \in Decisions /\ "UPDATE_EXISTING" \in Decisions
      /\ "MARK_DONE_CANDIDATE" \in Decisions /\ "REOPEN_CANDIDATE" \in Decisions
  BY DEF Decisions
<1>4. CASE LinkExisting
  <2>1. /\ Applying("LINK_EXISTING") /\ SaveTarget(Now.read.status)
        /\ UNCHANGED <<reviews, noted>> /\ asked' \in SUBSET Tasks
    BY <1>2, <1>4 DEF LinkExisting
  <2>2. Now.read.status \in Status
    BY <1>1, <1>3, <2>1
  <2> QED BY <1>3, <2>1, <2>2, SaveKeeps
<1>5. CASE UpdateExisting
  <2>1. PICK needed :
          /\ Applying("UPDATE_EXISTING") /\ SaveTarget(Now.read.status)
          /\ NewReview(NoTask, needed) /\ asked' \in SUBSET Tasks
    BY <1>2, <1>5, Zenon DEF UpdateExisting
  <2>2. Now.read.status \in Status
    BY <1>1, <1>3, <2>1
  <2> QED BY <1>3, <2>1, <2>2, SaveKeeps
<1>6. CASE ReopenCandidate
  <2>1. /\ Applying("REOPEN_CANDIDATE") /\ SaveTarget(Now.read.status)
        /\ NewReview(NoTask, TRUE) /\ asked' \in SUBSET Tasks
    BY <1>2, <1>6 DEF ReopenCandidate
  <2>2. Now.read.status \in Status
    BY <1>1, <1>3, <2>1
  <2> QED BY <1>3, <2>1, <2>2, SaveKeeps
<1>7. CASE MarkDoneCandidate
  <2>1. Applying("MARK_DONE_CANDIDATE")
    BY <1>7 DEF MarkDoneCandidate
  <2>2. Now.read.status \in Status /\ Now.target \in Tasks
    BY <1>1, <1>3, <2>1
  <2>3. ASSUME Now.read.status \in OpenForProposal, SaveTarget("COMPLETION_PROPOSED"),
               NEW needed, NewReview(NoTask, needed), asked' = asked \cup {Now.target}
        PROVE  ReviewInv'
    <3>1. asked' \in SUBSET Tasks /\ "COMPLETION_PROPOSED" \in Status
      BY <1>2, <2>2, <2>3 DEF Status
    <3> QED BY <1>3, <2>1, <2>3, <3>1, SaveKeeps
  <2>4. ASSUME SaveTarget(Now.read.status), NewReview(NoTask, TRUE), UNCHANGED asked
        PROVE  ReviewInv'
    BY <1>2, <1>3, <2>1, <2>2, <2>4, SaveKeeps
  <2> QED BY <1>7, <2>3, <2>4 DEF MarkDoneCandidate, CanProposeCompletion
<1> QED BY <1>4, <1>5, <1>6, <1>7

(* A person will see to it.                                                 *)
LEMMA HumanReviewKeeps ==
  ASSUME ReviewAssumption, ReviewInv, Applying("CREATE_NEW") \/ Applying("REQUIRES_HUMAN_REVIEW"),
         NewReview(NoTask, TRUE), UNCHANGED <<tasks, asked, staled>>
  PROVE  ReviewInv'
<1>1. ReviewTypeOK /\ plan # <<>> /\ plan' = Tail(plan) /\ verdict' = "APPLYING"
        /\ UNCHANGED <<analyses, resolutions, vetted>>
  BY DEF ReviewInv, Applying
<1>2. plan' \in Seq(Planned)
        /\ \A i \in 1..Len(plan') : \E j \in 1..Len(plan) : plan'[i] = plan[j]
  BY <1>1, NowSound
<1>3. /\ reviews' \in [ReviewItems -> ReviewRow \cup {NoReview}] /\ noted' \in BOOLEAN
      /\ \A r \in ReviewItems :
           \/ reviews'[r] = reviews[r]
           \/ reviews[r] = NoReview
                /\ reviews'[r] = [status |-> "PENDING", proposed |-> NoTask]
  BY <1>1, NewReviewMakes
<1>4. ReviewTypeOK'
  BY <1>1, <1>2, <1>3 DEF ReviewTypeOK
<1>5. Known' = Known /\ Known \subseteq Tasks /\ \A t : Waiting(t)' <=> Waiting(t)
  BY DEF Known, Waiting
<1>6. \A r \in ReviewItems : reviews[r] # NoReview => reviews'[r] = reviews[r]
  BY <1>3
<1>7. Onward
  BY <1>1, <1>5, <1>6 DEF Onward
<1>8. NothingUnvettedIsActive'
  BY <1>1, <1>5 DEF ReviewInv, NothingUnvettedIsActive
<1>9. ProposedCanBeAnswered'
  BY <1>5, <1>6 DEF ReviewInv, ProposedCanBeAnswered
<1>10. ApprovedIsAccepted'
  <2>1. \A r \in ReviewItems : reviews'[r].status = "APPROVED" => reviews'[r] = reviews[r]
    BY <1>3
  <2> QED BY <1>5, <2>1 DEF ReviewInv, ApprovedIsAccepted
<1>11. CompletedHasNothingOpen'
  BY <1>1 DEF CompletedHasNothingOpen
<1>12. \A r \in ReviewItems : reviews'[r] = reviews[r] \/ LeadsNowhereUnknown(reviews[r].proposed)'
  BY <1>3 DEF LeadsNowhereUnknown
<1> QED BY <1>1, <1>2, <1>4, <1>7, <1>8, <1>9, <1>10, <1>11, <1>12, ReviewStepKeeps

(* What a new task brings: it waits for nobody but its own item.            *)
LEMMA NewTaskIsNew ==
  ASSUME ReviewTypeOK, NEW t \in Tasks, t \notin Known, NEW row \in TaskRow,
         tasks' = [tasks EXCEPT ![t] = row], staled' = staled
  PROVE  /\ tasks' \in [Tasks -> TaskRow \cup {NoRow}] /\ tasks'[t] = row
         /\ \A u \in Tasks \ {t} : tasks'[u] = tasks[u]
         /\ Known' = Known \cup {t}
         /\ \A u \in Tasks \ {t} : Waiting(u)' <=> Waiting(u)
         /\ Waiting(t)' => row.status = "PROPOSED"
<1>1. /\ tasks' \in [Tasks -> TaskRow \cup {NoRow}] /\ tasks'[t] = row
      /\ \A u \in Tasks \ {t} : tasks'[u] = tasks[u]
  BY DEF ReviewTypeOK
<1>2. Known' = Known \cup {t}
  BY <1>1, NoRowIsNone DEF Known
<1> QED BY <1>1, <1>2 DEF Waiting

(* The task a resolution would create is not in the database yet.           *)
LEMMA FreshTask ==
  ASSUME ReviewTypeOK, NEW t \in IF Known = Tasks THEN {} ELSE {NewTask}
  PROVE  t \in Tasks /\ t \notin Known
<1>1. Known # Tasks /\ t = NewTask
  OBVIOUS
<1>2. \E u \in Tasks : tasks[u] = NoRow
  BY <1>1 DEF Known
<1>3. NewTask \in Tasks /\ tasks[NewTask] = NoRow
  BY <1>2 DEF NewTask, Fresh
<1> QED BY <1>1, <1>3 DEF Known

(* A task is made with the item that leads to it, if it is a proposal.      *)
LEMMA CreateKeeps ==
  ASSUME ReviewAssumption, ReviewInv, CreateNew
  PROVE  ReviewInv'
<1>1. ReviewTypeOK /\ plan # <<>> /\ plan' = Tail(plan) /\ verdict' = "APPLYING"
        /\ UNCHANGED <<analyses, resolutions, vetted, asked, staled>>
  BY DEF ReviewInv, CreateNew, Applying
<1>2. /\ Now \in Planned /\ plan' \in Seq(Planned)
      /\ \A i \in 1..Len(plan') : \E j \in 1..Len(plan) : plan'[i] = plan[j]
  BY <1>1, NowSound
<1> DEFINE x == Now.extraction
<1>3. x.band \in Bands
  BY <1>2 DEF Planned, Extraction
<1>4. CASE x.band = "REVIEW"
  BY <1>4, HumanReviewKeeps DEF CreateNew
<1>5. ASSUME x.band # "REVIEW",
             NEW t \in IF Known = Tasks THEN {} ELSE {NewTask},
             tasks' = [tasks EXCEPT ![t] =
                 [status |-> IF x.band = "PROPOSAL" THEN "PROPOSED" ELSE "PENDING",
                  from |-> x.band]],
             NewReview(t, x.band = "PROPOSAL" \/ x.unclear)
      PROVE  ReviewInv'
  <2> DEFINE row == [status |-> IF x.band = "PROPOSAL" THEN "PROPOSED" ELSE "PENDING",
                     from |-> x.band]
             item == [status |-> "PENDING", proposed |-> t]
  <2>1. t \in Tasks /\ t \notin Known
    BY <1>1, <1>5, FreshTask
  <2>2. row \in TaskRow /\ (row.status = "PROPOSED" <=> x.band = "PROPOSAL")
          /\ row.status \in {"PROPOSED", "PENDING"} /\ row.from = x.band
    BY <1>3 DEF TaskRow, Status
  <2>3. tasks' = [tasks EXCEPT ![t] = row]
    BY <1>5
  <2> HIDE DEF row
  <2>4. /\ tasks' \in [Tasks -> TaskRow \cup {NoRow}] /\ tasks'[t] = row
        /\ \A u \in Tasks \ {t} : tasks'[u] = tasks[u]
        /\ Known' = Known \cup {t}
        /\ \A u \in Tasks \ {t} : Waiting(u)' <=> Waiting(u)
        /\ Waiting(t)' => row.status = "PROPOSED"
    BY <1>1, <2>1, <2>2, <2>3, NewTaskIsNew
  <2>5. /\ reviews' \in [ReviewItems -> ReviewRow \cup {NoReview}] /\ noted' \in BOOLEAN
        /\ \A r \in ReviewItems :
             reviews'[r] = reviews[r] \/ (reviews[r] = NoReview /\ reviews'[r] = item)
        /\ x.band = "PROPOSAL" => \E r \in ReviewItems : reviews'[r] = item
    BY <1>1, <1>5, <2>1, NewReviewMakes
  <2>6. ReviewTypeOK'
    BY <1>1, <1>2, <2>4, <2>5 DEF ReviewTypeOK
  <2>7. \A r \in ReviewItems : reviews[r] # NoReview => reviews'[r] = reviews[r]
    BY <2>5
  <2>8. Known \subseteq Tasks
    BY DEF Known
  <2>9. Onward
    BY <1>1, <2>1, <2>4, <2>7, <2>8 DEF Onward
  <2>10. NothingUnvettedIsActive'
    BY <1>1, <2>2, <2>4, <2>8 DEF ReviewInv, NothingUnvettedIsActive
  <2>11. ProposedCanBeAnswered'
    <3> SUFFICES ASSUME NEW u \in Tasks, Waiting(u)'
                 PROVE  \E r \in ReviewItems :
                          /\ reviews'[r] # NoReview /\ reviews'[r].proposed = u
                          /\ reviews'[r].status \in {"PENDING", "MERGED"}
      BY <2>6, KnownTyped DEF ProposedCanBeAnswered, Waiting, Known
    <3>1. CASE u = t
      <4>1. item \in ReviewRow
        BY <2>1 DEF ReviewRow
      <4> QED BY <2>2, <2>4, <2>5, <3>1, <4>1, NoReviewIsNone
    <3>2. CASE u # t
      BY <2>4, <2>7, <3>2 DEF ReviewInv, ProposedCanBeAnswered, Waiting
    <3> QED BY <3>1, <3>2
  <2>12. ApprovedIsAccepted'
    <3>1. \A r \in ReviewItems : reviews'[r].status = "APPROVED" => reviews'[r] = reviews[r]
      BY <2>5
    <3> QED BY <1>1, <2>1, <2>4, <2>8, <3>1 DEF ReviewInv, ApprovedIsAccepted
  <2>13. CompletedHasNothingOpen'
    BY <1>1 DEF CompletedHasNothingOpen
  <2>14. \A r \in ReviewItems :
           reviews'[r] = reviews[r] \/ LeadsNowhereUnknown(reviews[r].proposed)'
    BY <2>4, <2>5 DEF LeadsNowhereUnknown
  <2> QED BY <1>1, <1>2, <2>6, <2>9, <2>10, <2>11, <2>12, <2>13, <2>14, ReviewStepKeeps
<1> QED BY <1>4, <1>5 DEF CreateNew

----------------------------------------------------------------------------
(* People.  A resolution that goes on.                                      *)
LEMMA ResolveToTyped ==
  ASSUME ReviewTypeOK, NEW p \in Resolvers, NEW my \in Resolution \cup {Free}, ResolveTo(p, my)
  PROVE  /\ resolutions' \in [Resolvers -> Resolution \cup {Free}]
         /\ resolutions'[p] = my
         /\ \A q \in Resolvers \ {p} : resolutions'[q] = resolutions[q]
BY DEF ResolveTo, ReviewTypeOK

(* A resolution that only moves on, or is dropped, disturbs nothing else.   *)
LEMMA GoesOn ==
  ASSUME ReviewAssumption, ReviewInv, NEW p \in Resolvers, NEW my \in Resolution \cup {Free},
         ResolveTo(p, my), my = Free \/ ResolvedSoundly(my),
         UNCHANGED <<tasks, reviews, asked, verdict, analyses, plan, noted, vetted, staled>>
  PROVE  ReviewInv'
<1>1. ReviewTypeOK
  BY DEF ReviewInv
<1>2. /\ resolutions' \in [Resolvers -> Resolution \cup {Free}]
      /\ resolutions'[p] = my
      /\ \A q \in Resolvers \ {p} : resolutions'[q] = resolutions[q]
  BY <1>1, ResolveToTyped
<1>3. ReviewTypeOK'
  BY <1>1, <1>2 DEF ReviewTypeOK
<1>4. my = Free \/ ResolvedSoundly(my)'
  BY DEF ResolvedSoundly, LeadsNowhereUnknown, Clean, Waiting, Known
<1>5. \A q \in Resolvers : resolutions'[q] = resolutions[q] \/ resolutions'[q] = Free
                              \/ ResolvedSoundly(resolutions[q])'
  BY <1>2, <1>4
<1> QED BY <1>3, <1>5, TablesStay, ReviewStepKeeps

LEMMA BeginKeeps ==
  ASSUME ReviewAssumption, ReviewInv, NEW p \in Resolvers, NEW r \in ReviewItems,
         NEW how \in {"approve", "reject", "merge"}, NEW target \in Tasks \cup {NoTask},
         BeginResolution(p, r, how, target)
  PROVE  ReviewInv'
<1> DEFINE my == [step |-> "checked", how |-> how, item |-> r, target |-> target,
                  review |-> reviews[r], task |-> NoRow]
<1>1. ReviewTypeOK /\ reviews[r] # NoReview
  BY NoReviewIsNone DEF ReviewInv, BeginResolution
<1>2. my \in Resolution
  BY <1>1 DEF Resolution, ReviewTypeOK
<1>3. ResolvedSoundly(my)
  BY <1>1 DEF ResolvedSoundly, ReviewInv
<1>4. ResolveTo(p, my)
  BY DEF BeginResolution
<1> HIDE DEF my
<1> QED BY <1>2, <1>3, <1>4, GoesOn DEF BeginResolution

(* A resolution under way.                                                  *)
LEMMA MySound ==
  ASSUME ReviewInv, NEW p \in Resolvers, resolutions[p].step # "free"
  PROVE  resolutions[p] \in Resolution /\ ResolvedSoundly(resolutions[p])
<1>1. resolutions[p] # Free
  BY DEF Free
<1> QED BY <1>1 DEF ReviewInv, ReviewTypeOK

LEMMA LoadReviewKeeps ==
  ASSUME ReviewAssumption, ReviewInv, NEW p \in Resolvers, LoadReview(p)
  PROVE  ReviewInv'
<1> DEFINE my == resolutions[p]
           next == [my EXCEPT !.step = "loaded", !.review = reviews[my.item]]
<1>1. my \in Resolution /\ ResolvedSoundly(my) /\ ReviewTypeOK
  BY MySound DEF ReviewInv, LoadReview
<1>2. reviews[my.item] \in ReviewRow /\ my.item \in ReviewItems
        /\ LeadsNowhereUnknown(reviews[my.item].proposed)
  BY <1>1 DEF ResolvedSoundly, ReviewTypeOK, Resolution, ReviewInv
<1>3. /\ next \in Resolution /\ next.step = "loaded" /\ next.item = my.item
      /\ next.review = reviews[my.item]
  BY <1>1, <1>2 DEF Resolution
<1>4. ResolveTo(p, next)
  BY DEF LoadReview
<1> HIDE DEF next
<1>5. ResolvedSoundly(next)
  BY <1>1, <1>2, <1>3 DEF ResolvedSoundly
<1> QED BY <1>3, <1>4, <1>5, GoesOn DEF LoadReview

LEMMA LoadTaskKeeps ==
  ASSUME ReviewAssumption, ReviewInv, NEW p \in Resolvers, LoadTask(p)
  PROVE  ReviewInv'
<1> DEFINE my == resolutions[p]
           t == my.review.proposed
           task == IF t = NoTask THEN NoRow ELSE tasks[t]
           next == [my EXCEPT !.step = "ready", !.task = task]
<1>1. my \in Resolution /\ ResolvedSoundly(my) /\ ReviewTypeOK /\ my.step = "loaded"
  BY MySound DEF ReviewInv, LoadTask
<1>2. t # NoTask => t \in Known /\ tasks[t] \in TaskRow /\ Clean(t, tasks[t])
  BY <1>1, KnownTyped DEF ResolvedSoundly, LeadsNowhereUnknown, ReviewInv,
     NothingUnvettedIsActive, Clean
<1>3. task \in TaskRow \cup {NoRow}
  BY <1>2
<1>4. /\ next \in Resolution /\ next.step = "ready" /\ next.item = my.item
      /\ next.review = my.review /\ next.task = task
  BY <1>1, <1>3 DEF Resolution
<1>5. ResolveTo(p, next)
  BY DEF LoadTask
<1> HIDE DEF next
<1>6. ResolvedSoundly(next)
  BY <1>1, <1>2, <1>4 DEF ResolvedSoundly, Waiting
<1> QED BY <1>4, <1>5, <1>6, GoesOn DEF LoadTask

LEMMA GiveUpKeeps ==
  ASSUME ReviewAssumption, ReviewInv, NEW p \in Resolvers, GiveUpResolution(p)
  PROVE  ReviewInv'
BY GoesOn DEF GiveUpResolution

(* An answer is written: the item leads where the resolution's does, and    *)
(* nothing waits at a task it answered.                                     *)
LEMMA AnswerKeeps ==
  ASSUME ReviewAssumption, ReviewInv, NEW p \in Resolvers, NEW how \in {"approve", "reject", "merge"},
         NEW status \in {"APPROVED", "REJECTED", "MERGED"}, NEW t \in Tasks \cup {NoTask},
         Resolved(p, how, status, t),
         ReviewTypeOK', vetted \subseteq vetted', Known \subseteq Known', LeadsNowhereUnknown(t)',
         \A u \in Known : Waiting(u)' => Waiting(u),
         \A u \in Tasks \ Known : ~Waiting(u)',
         t = resolutions[p].review.proposed
           \/ (resolutions[p].review.proposed = NoTask /\ t \notin Known),
         status # "MERGED" /\ t # NoTask => ~Waiting(t)',
         status = "APPROVED" => t \in Known' /\ (tasks'[t].status = "PROPOSED" => t \in staled'),
         NothingUnvettedIsActive'
  PROVE  ReviewInv'
<1> DEFINE my == resolutions[p]
           item == [status |-> status, proposed |-> t]
<1>1. ReviewTypeOK /\ my \in Resolution /\ ResolvedSoundly(my) /\ my.step = "ready"
  BY MySound DEF ReviewInv, Resolved
<1>2. /\ my.item \in ReviewItems /\ reviews[my.item] # NoReview
      /\ \A u \in Tasks : Waiting(u) =>
           (my.review.proposed = u <=> reviews[my.item].proposed = u)
  BY <1>1 DEF Resolution, ResolvedSoundly
<1>3. item \in ReviewRow /\ item # NoReview
  BY DEF ReviewRow, NoReview
<1>4. /\ reviews' = [reviews EXCEPT ![my.item] = item] /\ ResolveTo(p, Free)
      /\ UNCHANGED <<asked, verdict, analyses, plan, noted>>
  BY DEF Resolved
<1>5. /\ reviews'[my.item] = item
      /\ \A r \in ReviewItems \ {my.item} : reviews'[r] = reviews[r]
  BY <1>1, <1>2, <1>4 DEF ReviewTypeOK
<1>6. Known \subseteq Tasks
  BY DEF Known
<1>7. \A u \in Tasks : Waiting(u)' => u \in Known /\ Waiting(u)
  OBVIOUS
<1>8. ASSUME NEW u \in Tasks, Waiting(u)'
      PROVE  t = u <=> reviews[my.item].proposed = u
  <2>1. u \in Known /\ Waiting(u) /\ u # NoTask
    BY <1>7, <1>8 DEF ReviewAssumption
  <2>2. my.review.proposed = u <=> reviews[my.item].proposed = u
    BY <1>2, <2>1
  <2> QED BY <2>1, <2>2
<1> HIDE DEF item
<1>9. Onward
  <2> SUFFICES ASSUME NEW r \in ReviewItems, reviews[r] # NoReview
               PROVE  /\ reviews'[r] # NoReview
                      /\ \A u \in Tasks : Waiting(u)' =>
                           (reviews'[r].proposed = u <=> reviews[r].proposed = u)
    BY DEF Onward
  <2>1. CASE r # my.item
    BY <1>5, <2>1
  <2>2. CASE r = my.item
    BY <1>3, <1>5, <1>8, <2>2 DEF item
  <2> QED BY <2>1, <2>2
<1>10. ProposedCanBeAnswered'
  <2> SUFFICES ASSUME NEW u \in Tasks, Waiting(u)'
               PROVE  \E r \in ReviewItems :
                        /\ reviews'[r] # NoReview /\ reviews'[r].proposed = u
                        /\ reviews'[r].status \in {"PENDING", "MERGED"}
    BY KnownTyped DEF ProposedCanBeAnswered, Waiting, Known
  <2>1. u \in Known /\ Waiting(u)
    BY <1>7
  <2>2. PICK r \in ReviewItems :
          /\ reviews[r] # NoReview /\ reviews[r].proposed = u
          /\ reviews[r].status \in {"PENDING", "MERGED"}
    BY <2>1 DEF ReviewInv, ProposedCanBeAnswered, Waiting
  <2>3. CASE r # my.item
    BY <1>5, <2>2, <2>3
  <2>4. CASE r = my.item
    <3>1. t = u /\ t # NoTask
      BY <1>8, <2>2, <2>4 DEF ReviewAssumption
    <3>2. status = "MERGED"
      BY <3>1
    <3> QED BY <1>2, <1>3, <1>5, <3>1, <3>2 DEF item
  <2> QED BY <2>3, <2>4
<1>11. ApprovedIsAccepted'
  <2> SUFFICES ASSUME NEW r \in ReviewItems, reviews'[r].status = "APPROVED"
               PROVE  /\ reviews'[r].proposed \in Known'
                      /\ tasks'[reviews'[r].proposed].status = "PROPOSED" =>
                           reviews'[r].proposed \in staled'
    BY DEF ApprovedIsAccepted
  <2>1. CASE r # my.item
    <3>1. reviews'[r] = reviews[r]
      BY <1>5, <2>1
    <3>2. PICK u \in Known : u = reviews[r].proposed
      BY <3>1 DEF ReviewInv, ApprovedIsAccepted
    <3>3. ~Waiting(u)
      BY <3>1, <3>2 DEF ReviewInv, ApprovedIsAccepted, Waiting
    <3>4. ~Waiting(u)'
      BY <3>3
    <3> QED BY <3>1, <3>2, <3>4 DEF Waiting
  <2>2. CASE r = my.item
    BY <1>5, <2>2 DEF item
  <2> QED BY <2>1, <2>2
<1>12. CompletedHasNothingOpen'
  <2>1. \A r \in ReviewItems : reviews'[r].status = "PENDING" => reviews'[r] = reviews[r]
    BY <1>5 DEF item
  <2> QED BY <1>4, <2>1 DEF ReviewInv, CompletedHasNothingOpen
<1>13. \A r \in ReviewItems : reviews'[r] = reviews[r] \/ LeadsNowhereUnknown(reviews[r].proposed)'
  <2>1. item.proposed = t
    BY DEF item
  <2> QED BY <1>5, <2>1 DEF LeadsNowhereUnknown
<1>14. \A q \in Resolvers : resolutions'[q] = resolutions[q] \/ resolutions'[q] = Free
  BY <1>1, <1>4, ResolveToTyped
<1>15. \A i \in 1..Len(plan') : \E j \in 1..Len(plan) : plan'[i] = plan[j]
  BY <1>1, <1>4
<1> QED BY <1>9, <1>10, <1>11, <1>12, <1>13, <1>14, <1>15, ReviewStepKeeps

(* The row that was read goes back with a status of its own.                *)
LEMMA SavedIsSafe ==
  ASSUME ReviewTypeOK, NothingUnvettedIsActive, NEW t \in Known, NEW old \in TaskRow,
         NEW status \in Status \ {"PROPOSED"}, Saved(t, old, status), vetted \subseteq vetted',
         t \in vetted' \/ status = "CANCELLED"
  PROVE  /\ tasks' \in [Tasks -> TaskRow \cup {NoRow}] /\ staled' \subseteq Tasks
         /\ Known' = Known /\ tasks'[t].status = status
         /\ \A u \in Known : Waiting(u)' => Waiting(u)
         /\ \A u \in Tasks \ Known : ~Waiting(u)'
         /\ ~Waiting(t)'
         /\ NothingUnvettedIsActive'
<1> DEFINE row == [old EXCEPT !.status = status]
<1>1. row \in TaskRow /\ row.status = status
  BY DEF TaskRow
<1>2. t \in Tasks /\ tasks[t] \in TaskRow
  BY KnownTyped
<1>3. tasks' = [tasks EXCEPT ![t] = row]
        /\ staled' = IF tasks[t] = old THEN staled ELSE staled \cup {t}
  BY DEF Saved
<1> HIDE DEF row
<1>4. /\ tasks' \in [Tasks -> TaskRow \cup {NoRow}] /\ tasks'[t] = row
      /\ \A u \in Tasks \ {t} : tasks'[u] = tasks[u]
  BY <1>1, <1>2, <1>3 DEF ReviewTypeOK
<1>5. Known' = Known
  BY <1>1, <1>2, <1>4, NoRowIsNone DEF Known
<1>6. staled \subseteq staled' /\ staled' \subseteq Tasks
  BY <1>2, <1>3 DEF ReviewTypeOK
<1>7. ~Waiting(t)'
  BY <1>1, <1>4 DEF Waiting
<1>8. \A u \in Known : Waiting(u)' => Waiting(u)
  BY <1>4, <1>5, <1>6, <1>7 DEF Waiting, Known
<1>9. \A u \in Tasks \ Known : ~Waiting(u)'
  BY <1>5 DEF Waiting
<1>10. NothingUnvettedIsActive'
  BY <1>1, <1>4, <1>5 DEF NothingUnvettedIsActive, Known
<1> QED BY <1>1, <1>4, <1>5, <1>6, <1>7, <1>8, <1>9, <1>10

(* The tables as they were, but for the items.                              *)
LEMMA TasksStay ==
  ASSUME NothingUnvettedIsActive, UNCHANGED <<tasks, staled, vetted>>
  PROVE  /\ Known' = Known /\ \A u : Waiting(u)' <=> Waiting(u)
         /\ NothingUnvettedIsActive'
BY DEF Known, Waiting, NothingUnvettedIsActive

LEMMA AnswerTyped ==
  ASSUME ReviewInv, NEW p \in Resolvers, NEW how, NEW status \in {"APPROVED", "REJECTED", "MERGED"},
         NEW t \in Tasks \cup {NoTask}, Resolved(p, how, status, t),
         tasks' \in [Tasks -> TaskRow \cup {NoRow}], staled' \subseteq Tasks, vetted' \subseteq Tasks
  PROVE  ReviewTypeOK'
<1> DEFINE item == [status |-> status, proposed |-> t]
<1>1. ReviewTypeOK /\ item \in ReviewRow
  BY DEF ReviewInv, ReviewRow
<1>2. reviews' = [reviews EXCEPT ![resolutions[p].item] = item]
  BY DEF Resolved
<1> HIDE DEF item
<1>3. reviews' \in [ReviewItems -> ReviewRow \cup {NoReview}]
  BY <1>1, <1>2 DEF ReviewTypeOK
<1>4. resolutions' \in [Resolvers -> Resolution \cup {Free}]
  BY <1>1, ResolveToTyped DEF Resolved
<1> QED BY <1>1, <1>3, <1>4 DEF ReviewTypeOK, Resolved

LEMMA ApproveKeeps ==
  ASSUME ReviewAssumption, ReviewInv, NEW p \in Resolvers, Approve(p)
  PROVE  ReviewInv'
<1> DEFINE my == resolutions[p]
<1>1. ReviewTypeOK /\ NothingUnvettedIsActive /\ vetted \subseteq Tasks /\ staled \subseteq Tasks
  BY DEF ReviewInv, ReviewTypeOK
<1>2. my.step = "ready" /\ my \in Resolution /\ ResolvedSoundly(my)
  BY MySound DEF Approve
<1>3. ASSUME my.review.proposed # NoTask,
             Resolved(p, "approve", "APPROVED", my.review.proposed),
             Saved(my.review.proposed, my.task,
                   IF my.task.status = "PROPOSED" THEN "PENDING" ELSE my.task.status),
             vetted' = vetted \cup {my.review.proposed}
      PROVE  ReviewInv'
  <2>1. PICK t \in Known : t = my.review.proposed
    BY <1>2, <1>3 DEF ResolvedSoundly, LeadsNowhereUnknown
  <2>2. t \in Tasks /\ my.task \in TaskRow
    BY <1>1, <1>2, <1>3, <2>1, KnownTyped DEF ResolvedSoundly
  <2>3. PICK status \in Status \ {"PROPOSED"} :
          status = IF my.task.status = "PROPOSED" THEN "PENDING" ELSE my.task.status
    BY <2>2 DEF TaskRow, Status
  <2>4. /\ tasks' \in [Tasks -> TaskRow \cup {NoRow}] /\ staled' \subseteq Tasks
        /\ Known' = Known /\ tasks'[t].status = status
        /\ \A u \in Known : Waiting(u)' => Waiting(u)
        /\ \A u \in Tasks \ Known : ~Waiting(u)'
        /\ ~Waiting(t)' /\ NothingUnvettedIsActive'
    BY <1>1, <1>3, <2>1, <2>2, <2>3, SavedIsSafe
  <2>5. vetted \subseteq vetted' /\ vetted' \subseteq Tasks
    BY <1>1, <1>3, <2>1, <2>2
  <2>6. ReviewTypeOK'
    BY <1>3, <2>1, <2>2, <2>4, <2>5, AnswerTyped
  <2> QED BY <1>3, <2>1, <2>2, <2>3, <2>4, <2>5, <2>6, AnswerKeeps DEF LeadsNowhereUnknown
<1>4. ASSUME NEW t \in IF Known = Tasks THEN {} ELSE {NewTask},
             my.review.proposed = NoTask, Resolved(p, "approve", "APPROVED", t),
             tasks' = [tasks EXCEPT ![t] = [status |-> "PENDING", from |-> "people"]],
             vetted' = vetted \cup {t}, UNCHANGED staled
      PROVE  ReviewInv'
  <2> DEFINE row == [status |-> "PENDING", from |-> "people"]
  <2>1. t \in Tasks /\ t \notin Known
    BY <1>1, FreshTask
  <2>2. row \in TaskRow /\ row.status = "PENDING" /\ row.from = "people"
    BY DEF TaskRow, Status
  <2>3. tasks' = [tasks EXCEPT ![t] = row]
    BY <1>4
  <2> HIDE DEF row
  <2>4. /\ tasks' \in [Tasks -> TaskRow \cup {NoRow}] /\ tasks'[t] = row
        /\ \A u \in Tasks \ {t} : tasks'[u] = tasks[u]
        /\ Known' = Known \cup {t}
        /\ \A u \in Tasks \ {t} : Waiting(u)' <=> Waiting(u)
        /\ Waiting(t)' => row.status = "PROPOSED"
    BY <1>1, <1>4, <2>1, <2>2, <2>3, NewTaskIsNew
  <2>5. vetted \subseteq vetted' /\ vetted' \subseteq Tasks /\ staled' \subseteq Tasks
    BY <1>1, <1>4, <2>1
  <2>6. ReviewTypeOK'
    BY <1>4, <2>1, <2>4, <2>5, AnswerTyped
  <2>7. Known \subseteq Tasks /\ \A u \in Tasks \ Known : ~Waiting(u)
    BY DEF Known, Waiting
  <2>8. NothingUnvettedIsActive'
    BY <1>1, <2>1, <2>2, <2>4, <2>5, <2>7 DEF NothingUnvettedIsActive
  <2>9. ~Waiting(t)' /\ LeadsNowhereUnknown(t)' /\ t \in Known' /\ tasks'[t].status # "PROPOSED"
    BY <2>2, <2>4 DEF LeadsNowhereUnknown
  <2>10. /\ \A u \in Known : Waiting(u)' => Waiting(u)
         /\ \A u \in Tasks \ Known : ~Waiting(u)'
         /\ Known \subseteq Known'
    BY <2>1, <2>4, <2>7, <2>9
  <2> QED BY <1>4, <2>1, <2>5, <2>6, <2>8, <2>9, <2>10, AnswerKeeps
<1> QED BY <1>3, <1>4 DEF Approve

(* What a rejection or a merge does to the proposed task.                   *)
LEMMA DiscardIsSafe ==
  ASSUME ReviewInv, NEW my \in Resolution, ResolvedSoundly(my), my.step = "ready",
         Discard(my), UNCHANGED vetted
  PROVE  /\ tasks' \in [Tasks -> TaskRow \cup {NoRow}] /\ staled' \subseteq Tasks
         /\ Known' = Known
         /\ \A u \in Known : Waiting(u)' => Waiting(u)
         /\ \A u \in Tasks \ Known : ~Waiting(u)'
         /\ my.review.proposed # NoTask => ~Waiting(my.review.proposed)'
         /\ NothingUnvettedIsActive'
<1>1. ReviewTypeOK /\ NothingUnvettedIsActive
  BY DEF ReviewInv
<1>2. CASE my.task.status = "PROPOSED"
  <2>1. my.review.proposed # NoTask /\ my.task \in TaskRow
    BY <1>2, NoRowIsNone DEF ResolvedSoundly
  <2>2. PICK t \in Known : t = my.review.proposed
    BY <2>1 DEF ResolvedSoundly, LeadsNowhereUnknown
  <2>3. Saved(t, my.task, "CANCELLED") /\ "CANCELLED" \in Status \ {"PROPOSED"}
    BY <1>2, <2>2 DEF Discard, Status
  <2>4. /\ tasks' \in [Tasks -> TaskRow \cup {NoRow}] /\ staled' \subseteq Tasks
        /\ Known' = Known
        /\ \A u \in Known : Waiting(u)' => Waiting(u)
        /\ \A u \in Tasks \ Known : ~Waiting(u)'
        /\ ~Waiting(t)' /\ NothingUnvettedIsActive'
    BY <1>1, <2>1, <2>3, SavedIsSafe
  <2> QED BY <2>2, <2>4 DEF Waiting
<1>3. CASE my.task.status # "PROPOSED"
  <2>1. UNCHANGED <<tasks, staled>>
    BY <1>3 DEF Discard
  <2>2. my.review.proposed # NoTask => ~Waiting(my.review.proposed)
    BY <1>3 DEF ResolvedSoundly
  <2>3. \A u \in Tasks \ Known : ~Waiting(u)
    BY DEF Waiting
  <2> QED BY <1>1, <2>1, <2>2, <2>3, TasksStay DEF ReviewTypeOK, Waiting, Known
<1> QED BY <1>2, <1>3

LEMMA RejectKeeps ==
  ASSUME ReviewAssumption, ReviewInv, NEW p \in Resolvers, Reject(p)
  PROVE  ReviewInv'
<1> DEFINE my == resolutions[p]
<1>1. my.step = "ready" /\ my \in Resolution /\ ResolvedSoundly(my)
  BY MySound DEF Reject
<1>2. PICK t \in Tasks \cup {NoTask} : t = my.review.proposed
  BY <1>1 DEF Resolution, ReviewRow
<1>3. Resolved(p, "reject", "REJECTED", t) /\ Discard(my) /\ UNCHANGED vetted
  BY <1>2 DEF Reject
<1>4. /\ tasks' \in [Tasks -> TaskRow \cup {NoRow}] /\ staled' \subseteq Tasks
      /\ Known' = Known
      /\ \A u \in Known : Waiting(u)' => Waiting(u)
      /\ \A u \in Tasks \ Known : ~Waiting(u)'
      /\ t # NoTask => ~Waiting(t)'
      /\ NothingUnvettedIsActive'
  BY <1>1, <1>2, <1>3, DiscardIsSafe DEF Waiting
<1>5. vetted' \subseteq Tasks
  BY <1>3 DEF ReviewInv, ReviewTypeOK
<1>6. ReviewTypeOK'
  BY <1>3, <1>4, <1>5, AnswerTyped
<1>7. LeadsNowhereUnknown(t)'
  BY <1>1, <1>2, <1>4 DEF ResolvedSoundly, LeadsNowhereUnknown
<1> QED BY <1>2, <1>3, <1>4, <1>6, <1>7, AnswerKeeps

LEMMA MergeKeeps ==
  ASSUME ReviewAssumption, ReviewInv, NEW p \in Resolvers, Merge(p)
  PROVE  ReviewInv'
<1> DEFINE my == resolutions[p]
<1>1. my.step = "ready" /\ my \in Resolution /\ ResolvedSoundly(my)
        /\ ReviewTypeOK /\ NothingUnvettedIsActive
  BY MySound DEF Merge, ReviewInv
<1>2. PICK t \in Tasks \cup {NoTask} : t = my.review.proposed
  BY <1>1 DEF Resolution, ReviewRow
<1>3. Resolved(p, "merge", "MERGED", t) /\ UNCHANGED vetted
  BY <1>2 DEF Merge
<1>4. /\ tasks' \in [Tasks -> TaskRow \cup {NoRow}] /\ staled' \subseteq Tasks
      /\ Known' = Known
      /\ \A u \in Known : Waiting(u)' => Waiting(u)
      /\ \A u \in Tasks \ Known : ~Waiting(u)'
      /\ NothingUnvettedIsActive'
  <2>1. CASE Discard(my)
    BY <1>1, <1>3, <2>1, DiscardIsSafe
  <2>2. CASE UNCHANGED <<tasks, staled>>
    <3>1. \A u \in Tasks \ Known : ~Waiting(u)
      BY DEF Waiting
    <3> QED BY <1>1, <1>3, <2>2, <3>1, TasksStay DEF ReviewTypeOK
  <2> QED BY <2>1, <2>2 DEF Merge
<1>5. vetted' \subseteq Tasks
  BY <1>1, <1>3 DEF ReviewTypeOK
<1>6. ReviewTypeOK'
  BY <1>3, <1>4, <1>5, AnswerTyped
<1>7. LeadsNowhereUnknown(t)'
  BY <1>1, <1>2, <1>4 DEF ResolvedSoundly, LeadsNowhereUnknown
<1> QED BY <1>2, <1>3, <1>4, <1>6, <1>7, AnswerKeeps

(* No command of the board makes a proposal of a task.                      *)
LEMMA MoveKeeps ==
  ASSUME ReviewAssumption, ReviewInv, NEW t \in Tasks, NEW to \in MovesTo, PeopleMove(t, to)
  PROVE  ReviewInv'
<1> DEFINE row == [tasks[t] EXCEPT !.status = to]
<1>1. /\ ReviewTypeOK /\ t \in Known /\ tasks[t] \in TaskRow /\ to \in Status
      /\ NothingUnvettedIsActive
  BY KnownTyped DEF ReviewInv, PeopleMove, ReviewAssumption
<1>2. CanTransition(tasks[t].status, to, "USER", t \in asked) /\ tasks[t].status \in Status
  BY <1>1 DEF PeopleMove, TaskRow
<1>3. to # "PROPOSED"
  BY <1>2 DEF CanTransition, HumanTransitions, Status, OpenForProposal
<1>4. row \in TaskRow /\ row.status = to
  BY <1>1 DEF TaskRow
<1>5. tasks' = [tasks EXCEPT ![t] = row]
  BY <1>1 DEF PeopleMove, ReviewTypeOK
<1> HIDE DEF row
<1>6. /\ tasks' \in [Tasks -> TaskRow \cup {NoRow}] /\ tasks'[t] = row
      /\ \A u \in Tasks \ {t} : tasks'[u] = tasks[u]
  BY <1>1, <1>4, <1>5 DEF ReviewTypeOK
<1>7. vetted' = vetted \cup {t} /\ asked' \subseteq asked
        /\ UNCHANGED <<reviews, verdict, analyses, plan, noted, resolutions, staled>>
  BY DEF PeopleMove
<1>8. ReviewTypeOK'
  BY <1>1, <1>6, <1>7 DEF ReviewTypeOK
<1>9. Known' = Known /\ Known \subseteq Tasks
  BY <1>1, <1>4, <1>6, NoRowIsNone DEF Known
<1>10. \A u \in Tasks : Waiting(u)' => Waiting(u) /\ u # t
  BY <1>3, <1>4, <1>6, <1>7, <1>9 DEF Waiting
<1>11. Onward
  BY <1>7, <1>9, <1>10 DEF Onward
<1>12. NothingUnvettedIsActive'
  BY <1>1, <1>6, <1>7, <1>9 DEF NothingUnvettedIsActive
<1>13. ProposedCanBeAnswered'
  BY <1>7, <1>9, <1>10 DEF ReviewInv, ProposedCanBeAnswered, Waiting
<1>14. ApprovedIsAccepted'
  BY <1>3, <1>4, <1>6, <1>7, <1>9 DEF ReviewInv, ApprovedIsAccepted
<1>15. CompletedHasNothingOpen'
  BY <1>7 DEF ReviewInv, CompletedHasNothingOpen
<1>16. \A i \in 1..Len(plan') : \E j \in 1..Len(plan) : plan'[i] = plan[j]
  BY <1>7
<1> QED BY <1>7, <1>8, <1>11, <1>12, <1>13, <1>14, <1>15, <1>16, ReviewStepKeeps

LEMMA ReviewStutters ==
  ASSUME ReviewAssumption, ReviewInv, UNCHANGED reviewVars
  PROVE  ReviewInv'
<1>1. ReviewTypeOK'
  BY DEF ReviewInv, ReviewTypeOK, reviewVars
<1>2. \A i \in 1..Len(plan') : \E j \in 1..Len(plan) : plan'[i] = plan[j]
  BY DEF reviewVars
<1> QED BY <1>1, <1>2, TablesStay, ReviewStepKeeps DEF reviewVars

(* Every action of analyses and resolutions keeps the inductive invariant.  *)
THEOREM ReviewStep ==
  ASSUME ReviewAssumption, HearingAssumption, ReviewInv, [ReviewNext]_reviewVars
  PROVE  ReviewInv'
<1>1. CASE Analysis
  <2>1. CASE HumanReview
    BY <2>1, HumanReviewKeeps DEF HumanReview
  <2> QED BY <1>1, <2>1, PlanKeeps, ConcludeKeeps, DecisionsKeep, CreateKeeps DEF Analysis
<1>2. ASSUME NEW p \in Resolvers,
             LoadReview(p) \/ LoadTask(p) \/ Approve(p) \/ Reject(p) \/ Merge(p)
               \/ GiveUpResolution(p)
      PROVE  ReviewInv'
  BY <1>2, LoadReviewKeeps, LoadTaskKeeps, ApproveKeeps, RejectKeeps, MergeKeeps, GiveUpKeeps
<1>3. ASSUME NEW p \in Resolvers, NEW r \in ReviewItems, NEW how \in {"approve", "reject", "merge"},
             NEW t \in Tasks \cup {NoTask}, BeginResolution(p, r, how, t)
      PROVE  ReviewInv'
  BY <1>3, BeginKeeps
<1>4. ASSUME NEW t \in Tasks, NEW to \in MovesTo, PeopleMove(t, to)
      PROVE  ReviewInv'
  BY <1>4, MoveKeeps
<1>5. CASE UNCHANGED reviewVars
  BY <1>5, ReviewStutters
<1> QED BY <1>1, <1>2, <1>3, <1>4, <1>5 DEF ReviewNext

(* Whatever analyses and resolutions overlap, the tables stay sound and     *)
(* every plan or resolution under way claims no more than the tables did    *)
(* when it read them (reconcile-action-items.ts, resolve-ai-review.ts).     *)
THEOREM ReviewInvariance == ReviewSpec => []ReviewInv
<1>1. ReviewInit => ReviewInv
  BY ReviewStarts, ReviewAssumption
<1>2. ReviewInv /\ [ReviewNext]_reviewVars => ReviewInv'
  BY ReviewStep, ReviewAssumption, HearingAssumption
<1> QED BY <1>1, <1>2, PTL DEF ReviewSpec

(* The tables, plans and resolutions keep their types.                      *)
THEOREM ReviewTypesHold == ReviewSpec => []ReviewTypeOK
<1>1. ReviewInv => ReviewTypeOK
  BY DEF ReviewInv
<1> QED BY <1>1, ReviewInvariance, PTL

(* What the AI was not sure of is nobody's task until a person took it      *)
(* (applyReconciliation, approveAiReview).                                  *)
THEOREM UnvettedStayProposals == ReviewSpec => []NothingUnvettedIsActive
<1>1. ReviewInv => NothingUnvettedIsActive
  BY DEF ReviewInv
<1> QED BY <1>1, ReviewInvariance, PTL

(* A proposed task that no stale row revived has an open item, or one that  *)
(* was merged into it (rejectAiReview and mergeAiReview discard it).        *)
THEOREM ProposalsCanBeAnswered == ReviewSpec => []ProposedCanBeAnswered
<1>1. ReviewInv => ProposedCanBeAnswered
  BY DEF ReviewInv
<1> QED BY <1>1, ReviewInvariance, PTL

(* An approved item leads to a task that is no proposal any more, unless a  *)
(* stale row revived it (approveAiReview).                                  *)
THEOREM ApprovalsAreKept == ReviewSpec => []ApprovedIsAccepted
<1>1. ReviewInv => ApprovedIsAccepted
  BY DEF ReviewInv
<1> QED BY <1>1, ReviewInvariance, PTL

(* A meeting that shows as completed has no open item, of whatever analysis *)
(* (the end of analyzeMeeting).                                             *)
THEOREM CompletedIsQuiet == ReviewSpec => []CompletedHasNothingOpen
<1>1. ReviewInv => CompletedHasNothingOpen
  BY DEF ReviewInv
<1> QED BY <1>1, ReviewInvariance, PTL

----------------------------------------------------------------------------
(* What an analysis may write.                                              *)
Decided ==
  \A t \in Tasks : tasks'[t] # tasks[t] =>
    \/ tasks[t] = NoRow /\ tasks'[t].status \in {"PROPOSED", "PENDING"}
    \/ /\ t = Now.target
       /\ \/ tasks'[t] = Now.read
          \/ /\ tasks'[t].status = "COMPLETION_PROPOSED"
             /\ Now.read.status \in OpenForProposal

LEMMA SavesDecideNothing ==
  ASSUME ReviewInv, NEW decision, Applying(decision),
         decision \notin {"CREATE_NEW", "REQUIRES_HUMAN_REVIEW"},
         NEW status, SaveTarget(status),
         status = Now.read.status \/ (Now.read.status \in OpenForProposal /\ status = "COMPLETION_PROPOSED")
  PROVE  Decided
<1> DEFINE row == [Now.read EXCEPT !.status = status]
<1>1. ReviewTypeOK /\ Now.target \in Tasks /\ Now.read \in TaskRow
  BY NowSound, KnownTyped DEF ReviewInv, Applying, PlannedSoundly
<1>2. row.status = status /\ (status = Now.read.status => row = Now.read)
  BY <1>1 DEF TaskRow
<1>3. tasks' = [tasks EXCEPT ![Now.target] = row]
  BY DEF SaveTarget
<1> HIDE DEF row
<1>4. /\ tasks'[Now.target] = row
      /\ \A t \in Tasks \ {Now.target} : tasks'[t] = tasks[t]
  BY <1>1, <1>3 DEF ReviewTypeOK
<1> QED BY <1>2, <1>4 DEF Decided

LEMMA AnalysisDecidesNothing ==
  ASSUME ReviewInv, [ReviewNext]_reviewVars, verdict' = "APPLYING"
  PROVE  Decided
<1>1. CASE LinkExisting \/ UpdateExisting \/ ReopenCandidate
  BY <1>1, SavesDecideNothing DEF LinkExisting, UpdateExisting, ReopenCandidate
<1>2. CASE MarkDoneCandidate
  BY <1>2, SavesDecideNothing DEF MarkDoneCandidate, CanProposeCompletion
<1>3. CASE HumanReview
  BY <1>3 DEF HumanReview, Decided
<1>4. CASE CreateNew
  <2>1. ReviewTypeOK
    BY DEF ReviewInv
  <2>2. CASE UNCHANGED tasks
    BY <2>2 DEF Decided
  <2>3. ASSUME NEW t \in IF Known = Tasks THEN {} ELSE {NewTask}, NEW row,
               row.status \in {"PROPOSED", "PENDING"}, tasks' = [tasks EXCEPT ![t] = row]
        PROVE  Decided
    <3>1. t \in Tasks /\ tasks[t] = NoRow
      BY <2>1, <2>3, FreshTask DEF Known
    <3>2. tasks'[t] = row /\ \A u \in Tasks \ {t} : tasks'[u] = tasks[u]
      BY <2>1, <2>3, <3>1 DEF ReviewTypeOK
    <3> QED BY <2>3, <3>1, <3>2 DEF Decided
  <2> DEFINE band == Now.extraction.band
             made == [status |-> IF band = "PROPOSAL" THEN "PROPOSED" ELSE "PENDING",
                      from |-> band]
  <2>4. made.status \in {"PROPOSED", "PENDING"}
    OBVIOUS
  <2>5. \/ UNCHANGED tasks
        \/ \E t \in IF Known = Tasks THEN {} ELSE {NewTask} : tasks' = [tasks EXCEPT ![t] = made]
    BY <1>4 DEF CreateNew
  <2> HIDE DEF made
  <2> QED BY <2>2, <2>3, <2>4, <2>5
<1>5. CASE PlanReconciliation \/ Conclude \/ Reanalyze
  <2>1. UNCHANGED tasks
    BY <1>5 DEF PlanReconciliation, Conclude, Reanalyze
  <2> QED BY <2>1 DEF Decided
<1>6. ASSUME NEW p \in Resolvers,
             LoadReview(p) \/ LoadTask(p) \/ Approve(p) \/ Reject(p) \/ Merge(p)
               \/ GiveUpResolution(p)
      PROVE  Decided
  <2>1. Visible /\ verdict' = verdict
    <3>1. CASE LoadReview(p) \/ LoadTask(p) \/ GiveUpResolution(p)
      BY <3>1 DEF LoadReview, LoadTask, GiveUpResolution
    <3>2. CASE Approve(p)
      BY <3>2 DEF Approve, Resolved
    <3>3. CASE Reject(p) \/ Merge(p)
      BY <3>3 DEF Reject, Merge, Resolved
    <3> QED BY <1>6, <3>1, <3>2, <3>3
  <2> QED BY <2>1 DEF Visible
<1>7. ASSUME NEW p \in Resolvers, NEW r \in ReviewItems, NEW how, NEW t, BeginResolution(p, r, how, t)
      PROVE  Decided
  BY <1>7 DEF BeginResolution, Visible
<1>8. ASSUME NEW t \in Tasks, NEW to \in MovesTo, PeopleMove(t, to)
      PROVE  Decided
  BY <1>8 DEF PeopleMove, Visible
<1>9. CASE UNCHANGED reviewVars
  BY <1>9 DEF reviewVars, Decided
<1> QED BY <1>1, <1>2, <1>3, <1>4, <1>5, <1>6, <1>7, <1>8, <1>9 DEF ReviewNext, Analysis

(* An analysis never decides the fate of a task: it makes proposed and      *)
(* pending ones, and writes back what its plan read or a proposed closure   *)
(* of an open task (applyReconciliation).                                   *)
THEOREM AnalysesNeverDecide == ReviewSpec => AnalysisNeverDecides
<1>1. ReviewInv /\ [ReviewNext]_reviewVars =>
        [verdict' = "APPLYING" => Decided]_reviewVars
  BY AnalysisDecidesNothing
<1>2. AnalysisNeverDecides <=> [][verdict' = "APPLYING" => Decided]_reviewVars
  BY DEF AnalysisNeverDecides, Decided
<1> QED BY <1>1, <1>2, ReviewInvariance, PTL DEF ReviewSpec

----------------------------------------------------------------------------
(* The model adapter.  What its loops make is shown for every input by      *)
(* counting up to the least step that would go wrong.                       *)

(* A set of numbers that is not empty has a least one.                      *)
LEMMA LeastOfNaturals ==
  ASSUME NEW S \in SUBSET Nat, S # {}
  PROVE  \E n \in S : \A m \in S : n <= m
<1>1. PICK n \in S : \A m \in S : <<m, n>> \notin OpToRel(<, Nat)
  BY NatLessThanWellFounded, WFMin
<1>2. \A m \in S : ~(m < n)
  BY <1>1 DEF OpToRel
<1> QED BY <1>2

(* A set of steps that has the first, and of every step the next.           *)
LEMMA CountingUp ==
  ASSUME NEW n \in Nat, NEW I, 0 \in I, \A i \in 1..n : i - 1 \in I => i \in I
  PROVE  0..n \subseteq I
<1> DEFINE Missed == {i \in 0..n : i \notin I}
<1>1. SUFFICES ASSUME Missed # {} PROVE FALSE
  OBVIOUS
<1>2. Missed \in SUBSET Nat
  OBVIOUS
<1>3. PICK i \in Missed : \A j \in Missed : i <= j
  BY <1>1, <1>2, LeastOfNaturals
<1>4. i \in 1..n /\ i - 1 \in 0..n /\ ~(i <= i - 1)
  BY <1>3
<1>5. i - 1 \notin Missed
  BY <1>3, <1>4
<1> QED BY <1>3, <1>4, <1>5

(* The greatest of some numbers with a greater one.                         *)
LEMMA GreatestIsLast ==
  ASSUME NEW k \in Nat, NEW T \in SUBSET (1..k), k \in T
  PROVE  Max(T) = k
<1>1. \A y \in T : k >= y
  OBVIOUS
<1>2. \A x \in T : x \in Int /\ (x >= k => x = k)
  BY <1>1
<1> QED BY <1>1, <1>2 DEF Max

(* How a fold goes through some of the numbers up to n, with F for a step.  *)
Iterates(g, F, base, n) ==
  g = [T \in SUBSET (1..n) |-> IF T = {} THEN base ELSE F[<<g[T \ {Max(T)}], Max(T)>>]]

LEMMA IterationExists ==
  ASSUME NEW A, NEW base \in A, NEW n \in Nat, NEW F \in [A \X (1..n) -> A]
  PROVE  \E g \in [SUBSET (1..n) -> A] : Iterates(g, F, base, n)
<1> DEFINE I == {i \in 0..n : \E g \in [SUBSET (1..i) -> A] : Iterates(g, F, base, i)}
<1>1. 0 \in I
  <2> DEFINE g == [T \in SUBSET (1..0) |-> base]
  <2>1. 1..0 = {} /\ SUBSET (1..0) = {{}}
    OBVIOUS
  <2>2. g \in [SUBSET (1..0) -> A] /\ Iterates(g, F, base, 0)
    BY <2>1 DEF Iterates
  <2> QED BY <2>2
<1>2. ASSUME NEW i \in 1..n, i - 1 \in I
      PROVE  i \in I
  <2>1. PICK g \in [SUBSET (1..(i - 1)) -> A] : Iterates(g, F, base, i - 1)
    BY <1>2
  <2> DEFINE h == [T \in SUBSET (1..i) |-> IF i \in T THEN F[<<g[T \ {i}], i>>] ELSE g[T]]
  <2>2. ASSUME NEW T \in SUBSET (1..i)
        PROVE  /\ h[T] \in A
               /\ h[T] = IF T = {} THEN base ELSE F[<<h[T \ {Max(T)}], Max(T)>>]
    <3>1. CASE i \in T
      <4>1. Max(T) = i
        BY <3>1, GreatestIsLast
      <4>2. T \ {i} \in SUBSET (1..(i - 1)) /\ T \ {i} \in SUBSET (1..i) /\ i \notin T \ {i}
        OBVIOUS
      <4>3. h[T \ {i}] = g[T \ {i}] /\ g[T \ {i}] \in A
        BY <4>2
      <4>4. h[T] = F[<<g[T \ {i}], i>>] /\ F[<<g[T \ {i}], i>>] \in A
        BY <3>1, <4>3
      <4> QED BY <3>1, <4>1, <4>3, <4>4
    <3>2. CASE i \notin T
      <4>1. T \in SUBSET (1..(i - 1))
        BY <3>2
      <4>2. h[T] = g[T] /\ g[T] \in A
        BY <3>2, <4>1
      <4>3. g[T] = IF T = {} THEN base ELSE F[<<g[T \ {Max(T)}], Max(T)>>]
        BY <2>1, <4>1 DEF Iterates
      <4>4. /\ T \ {Max(T)} \in SUBSET (1..(i - 1)) /\ T \ {Max(T)} \in SUBSET (1..i)
            /\ i \notin T \ {Max(T)}
        BY <3>2, <4>1
      <4>5. h[T \ {Max(T)}] = g[T \ {Max(T)}]
        BY <4>4
      <4> QED BY <4>2, <4>3, <4>5
    <3> QED BY <3>1, <3>2
  <2>3. h \in [SUBSET (1..i) -> A] /\ h = [T \in SUBSET (1..i) |-> h[T]]
    BY <2>2
  <2> HIDE DEF h
  <2>4. Iterates(h, F, base, i)
    BY <2>2, <2>3 DEF Iterates
  <2>5. i \in 0..n
    OBVIOUS
  <2> QED BY <2>3, <2>4, <2>5
<1> HIDE DEF I
<1>3. n \in I
  BY <1>1, <1>2, CountingUp
<1> QED BY <1>3 DEF I

(* The first i numbers, when the last of them was taken.                    *)
LEMMA FirstNumbers ==
  ASSUME NEW n \in Nat, NEW i \in 1..n
  PROVE  /\ 1..i \in SUBSET (1..n) /\ 1..i # {} /\ Max(1..i) = i /\ (1..i) \ {i} = 1..(i - 1)
         /\ 1..(i - 1) \in SUBSET (1..n)
<1>1. 1..i \in SUBSET (1..i) /\ i \in 1..i /\ i \in Nat
  OBVIOUS
<1>2. Max(1..i) = i
  BY <1>1, GreatestIsLast
<1> QED BY <1>1, <1>2

LEMMA GreatestIsOne ==
  ASSUME NEW n \in Nat, NEW T \in SUBSET (1..n), T # {}
  PROVE  Max(T) \in T
<1> DEFINE Below == {i \in 0..n : n - i \in T}
<1>1. Below \in SUBSET Nat
  OBVIOUS
<1>2. Below # {}
  <2>1. PICK x \in T : TRUE
    OBVIOUS
  <2>2. x \in 1..n
    BY <2>1
  <2>3. n - x \in 0..n /\ n - (n - x) = x
    BY <2>2
  <2> QED BY <2>1, <2>3
<1>3. PICK i \in Below : \A j \in Below : i <= j
  BY <1>1, <1>2, LeastOfNaturals
<1>4. \A y \in T : n - i >= y
  <2> TAKE y \in T
  <2>1. y \in 1..n
    OBVIOUS
  <2>2. n - y \in 0..n /\ n - (n - y) = y
    BY <2>1
  <2>3. n - y \in Below
    BY <2>2
  <2>4. i <= n - y /\ i \in 0..n
    BY <1>3, <2>3
  <2> QED BY <2>1, <2>4
<1>5. \E x \in T : \A y \in T : x >= y
  BY <1>3, <1>4
<1> QED BY <1>5 DEF Max

(* The size of a block, added up.                                           *)
TotalOf(segments) == FoldLeft(LAMBDA n, s : n + SizeOf(s), 0, segments)

LEMMA TotalLoops ==
  ASSUME NEW segments \in Seq(Segment)
  PROVE  \E h \in [0..Len(segments) -> Nat] :
           /\ h[0] = 0 /\ TotalOf(segments) = h[Len(segments)]
           /\ \A i \in 1..Len(segments) : h[i] = h[i - 1] + SizeOf(segments[i])
<1> DEFINE n == Len(segments)
           F == [p \in Nat \X (1..n) |-> p[1] + SizeOf(segments[p[2]])]
           Iter(g) == g = [T \in SUBSET DOMAIN segments |->
                             IF T = {} THEN 0 ELSE g[T \ {Max(T)}] + SizeOf(segments[Max(T)])]
           f == CHOOSE g : Iter(g)
           h == [i \in 0..n |-> f[1..i]]
<1>1. n \in Nat /\ DOMAIN segments = 1..n
  OBVIOUS
<1>2. \A i \in 1..n : SizeOf(segments[i]) \in Nat
  <2>1. \A i \in 1..n : segments[i] \in Segment
    OBVIOUS
  <2> QED BY <2>1 DEF SizeOf, Segment
<1>3. TotalOf(segments) = f[DOMAIN segments]
  BY DEF TotalOf, FoldLeft, MapThenFoldSet
<1>4. PICK g \in [SUBSET (1..n) -> Nat] : Iterates(g, F, 0, n)
  <2> HIDE DEF n
  <2>1. F \in [Nat \X (1..n) -> Nat]
    BY <1>2
  <2> QED BY <1>1, <2>1, IterationExists
<1>5. \A T \in SUBSET (1..n) : T # {} =>
        g[T \ {Max(T)}] \in Nat /\ Max(T) \in 1..n
  <2> HIDE DEF n
  <2> QED BY <1>1, GreatestIsOne
<1>6. \A T \in SUBSET (1..n) :
        g[T] = IF T = {} THEN 0 ELSE g[T \ {Max(T)}] + SizeOf(segments[Max(T)])
  <2> HIDE DEF n
  <2> QED BY <1>4, <1>5 DEF Iterates
<1>7. Iter(g)
  <2> HIDE DEF n
  <2> QED BY <1>1, <1>6
<1> HIDE DEF Iter
<1>8. Iter(f)
  BY <1>7
<1> USE DEF Iter
<1> HIDE DEF f, n
<1>9. h[0] = 0
  <2>1. 1..0 = {} /\ {} \in SUBSET DOMAIN segments
    OBVIOUS
  <2> QED BY <1>1, <1>8, <2>1
<1>10. ASSUME NEW i \in 1..n
       PROVE  h[i] = h[i - 1] + SizeOf(segments[i])
  <2>1. /\ 1..i \in SUBSET DOMAIN segments /\ 1..i # {} /\ Max(1..i) = i
        /\ (1..i) \ {i} = 1..(i - 1)
    BY <1>1, FirstNumbers
  <2>2. f[1..i] = f[(1..i) \ {Max(1..i)}] + SizeOf(segments[Max(1..i)])
    BY <1>8, <2>1
  <2>3. i \in 0..n /\ i - 1 \in 0..n
    BY <1>1
  <2> QED BY <2>1, <2>2, <2>3
<1>11. h[n] = TotalOf(segments)
  BY <1>1, <1>3
<1> HIDE DEF h
<1>12. 0..n \subseteq {i \in 0..n : h[i] \in Nat}
  <2> DEFINE I == {i \in 0..n : h[i] \in Nat}
  <2>1. 0 \in I
    BY <1>1, <1>9
  <2>2. \A i \in 1..n : i - 1 \in I => i \in I
    BY <1>1, <1>2, <1>10
  <2> HIDE DEF I
  <2>3. 0..n \subseteq I
    BY <1>1, <2>1, <2>2, CountingUp
  <2> QED BY <2>3 DEF I
<1>13. h \in [0..n -> Nat]
  BY <1>12 DEF h
<1> QED BY <1>9, <1>10, <1>11, <1>13 DEF n

LEMMA TotalAppend ==
  ASSUME NEW segments \in Seq(Segment), NEW s \in Segment
  PROVE  /\ TotalOf(segments) \in Nat /\ TotalOf(<<>>) = 0 /\ SizeOf(s) \in Nat
         /\ TotalOf(Append(segments, s)) = TotalOf(segments) + SizeOf(s)
<1> DEFINE longer == Append(segments, s)
           n == Len(segments)
<1>1. /\ longer \in Seq(Segment) /\ Len(longer) = n + 1 /\ n \in Nat
      /\ longer[n + 1] = s /\ \A i \in 1..n : longer[i] = segments[i]
  OBVIOUS
<1>2. SizeOf(s) \in Nat
  BY DEF SizeOf, Segment
<1>3. TotalOf(<<>>) = 0
  <2>1. <<>> \in Seq(Segment) /\ Len(<<>>) = 0
    OBVIOUS
  <2> QED BY <2>1, TotalLoops
<1>4. PICK h \in [0..n -> Nat] :
        /\ h[0] = 0 /\ TotalOf(segments) = h[n]
        /\ \A i \in 1..n : h[i] = h[i - 1] + SizeOf(segments[i])
  BY TotalLoops
<1>5. PICK k \in [0..Len(longer) -> Nat] :
        /\ k[0] = 0 /\ TotalOf(longer) = k[Len(longer)]
        /\ \A i \in 1..Len(longer) : k[i] = k[i - 1] + SizeOf(longer[i])
  <2> HIDE DEF longer
  <2> QED BY <1>1, TotalLoops
<1> HIDE DEF longer, n
<1> DEFINE I == {i \in 0..n : h[i] = k[i]}
<1>6. 0 \in I
  BY <1>1, <1>4, <1>5
<1>7. \A i \in 1..n : i - 1 \in I => i \in I
  <2> SUFFICES ASSUME NEW i \in 1..n, i - 1 \in I PROVE i \in I
    OBVIOUS
  <2>1. longer[i] = segments[i] /\ i \in 1..Len(longer)
    BY <1>1
  <2>2. k[i] = k[i - 1] + SizeOf(segments[i]) /\ h[i] = h[i - 1] + SizeOf(segments[i])
    BY <1>4, <1>5, <2>1
  <2> QED BY <1>1, <2>2
<1> HIDE DEF I
<1>8. 0..n \subseteq I
  BY <1>1, <1>6, <1>7, CountingUp
<1>9. h[n] = k[n]
  BY <1>1, <1>8 DEF I
<1>10. k[n + 1] = k[n] + SizeOf(s)
  <2>1. n + 1 \in 1..Len(longer) /\ (n + 1) - 1 = n
    BY <1>1
  <2> QED BY <1>1, <1>5, <2>1
<1>11. h[n] \in Nat
  BY <1>1, <1>4
<1> QED BY <1>1, <1>2, <1>3, <1>4, <1>5, <1>9, <1>10, <1>11 DEF longer

(* What a loop has made after each of its steps.                            *)
Loops(h, F, base, n) == h[0] = base /\ \A i \in 1..n : h[i] = F[<<h[i - 1], i>>]

LEMMA LoopExists ==
  ASSUME NEW A, NEW base \in A, NEW n \in Nat, NEW F \in [A \X (1..n) -> A]
  PROVE  \E h \in [0..n -> A] : Loops(h, F, base, n)
<1>1. PICK g \in [SUBSET (1..n) -> A] : Iterates(g, F, base, n)
  BY IterationExists
<1> DEFINE h == [i \in 0..n |-> g[1..i]]
<1>2. h \in [0..n -> A]
  <2>1. \A i \in 0..n : 1..i \in SUBSET (1..n)
    OBVIOUS
  <2> QED BY <2>1
<1>3. h[0] = base
  <2>1. 1..0 = {} /\ {} \in SUBSET (1..n) /\ 0 \in 0..n
    OBVIOUS
  <2> QED BY <1>1, <2>1 DEF Iterates
<1>4. ASSUME NEW i \in 1..n
      PROVE  h[i] = F[<<h[i - 1], i>>]
  <2>1. /\ 1..i \in SUBSET (1..n) /\ 1..i # {} /\ Max(1..i) = i
        /\ (1..i) \ {i} = 1..(i - 1)
    BY FirstNumbers
  <2>2. g[1..i] = F[<<g[(1..i) \ {Max(1..i)}], Max(1..i)>>]
    BY <1>1, <2>1 DEF Iterates
  <2>3. i \in 0..n /\ i - 1 \in 0..n
    OBVIOUS
  <2> QED BY <2>1, <2>2, <2>3
<1> QED BY <1>2, <1>3, <1>4 DEF Loops

(* The pieces of a sequence, put together one after another.                *)
LEMMA FlattenLoops ==
  ASSUME NEW E, NEW pieces \in Seq(Seq(E))
  PROVE  \E h \in [0..Len(pieces) -> Seq(E)] :
           /\ h[0] = <<>> /\ FlattenSeq(pieces) = h[Len(pieces)]
           /\ \A i \in 1..Len(pieces) : h[i] = h[i - 1] \o pieces[i]
<1> DEFINE n == Len(pieces)
           F == [p \in Seq(E) \X (1..n) |-> p[1] \o pieces[p[2]]]
           Joins(f) == f = [i \in 1..Len(pieces) |-> IF i = 1 THEN pieces[i] ELSE f[i - 1] \o pieces[i]]
           joined == CHOOSE f : Joins(f)
<1>1. n \in Nat /\ \A i \in 1..n : pieces[i] \in Seq(E)
  OBVIOUS
<1>2. FlattenSeq(pieces) = IF n = 0 THEN pieces ELSE joined[n]
  BY DEF FlattenSeq
<1>3. PICK h \in [0..n -> Seq(E)] : Loops(h, F, <<>>, n)
  <2> HIDE DEF n
  <2>1. F \in [Seq(E) \X (1..n) -> Seq(E)]
    BY <1>1
  <2>2. <<>> \in Seq(E)
    OBVIOUS
  <2> DEFINE A == Seq(E)
  <2>3. n \in Nat /\ F \in [A \X (1..n) -> A] /\ <<>> \in A
    BY <1>1, <2>1, <2>2
  <2> HIDE DEF F, A
  <2> QED BY <2>3, LoopExists DEF A
<1>4. \A i \in 1..n : h[i] = h[i - 1] \o pieces[i] /\ h[i - 1] \in Seq(E) /\ h[i] \in Seq(E)
  <2> HIDE DEF n
  <2> SUFFICES ASSUME NEW i \in 1..n PROVE h[i] = h[i - 1] \o pieces[i] /\ h[i - 1] \in Seq(E) /\ h[i] \in Seq(E)
    OBVIOUS
  <2>1. i - 1 \in 0..n /\ i \in 0..n
    BY <1>1
  <2>2. h[i - 1] \in Seq(E) /\ h[i] \in Seq(E)
    BY <1>3, <2>1
  <2>3. <<h[i - 1], i>> \in Seq(E) \X (1..n)
    BY <2>2
  <2>4. F[<<h[i - 1], i>>] = h[i - 1] \o pieces[i]
    BY <2>3
  <2> QED BY <1>3, <2>2, <2>4 DEF Loops
<1>12. \A i \in 1..n : h[0] \o pieces[i] = pieces[i]
  <2>1. \A s \in Seq(E) : <<>> \o s = s
    BY ConcatEmptySeq
  <2> QED BY <1>1, <1>3, <2>1 DEF Loops
<1> DEFINE g == [i \in 1..n |-> h[i]]
<1>5. Joins(g)
  <2> HIDE DEF n
  <2>1. ASSUME NEW i \in 1..n
        PROVE  h[i] = IF i = 1 THEN pieces[i] ELSE g[i - 1] \o pieces[i]
    <3>1. CASE i = 1
      <4>1. h[i] = h[0] \o pieces[i]
        <5>1. i - 1 = 0
          BY <3>1
        <5> QED BY <1>4, <5>1
      <4> QED BY <1>12, <3>1, <4>1
    <3>2. CASE i # 1
      <4>1. i - 1 \in 1..n
        BY <1>1, <3>2
      <4> QED BY <1>4, <3>2, <4>1
    <3> QED BY <3>1, <3>2
  <2>2. Len(pieces) = n
    BY DEF n
  <2> QED BY <2>1, <2>2
<1> HIDE DEF Joins, g
<1>6. Joins(joined)
  BY <1>5
<1> USE DEF Joins
<1> HIDE DEF joined, n
<1>7. Len(pieces) = n
  BY DEF n
<1> DEFINE I == {i \in 0..n : i # 0 => joined[i] = h[i]}
<1>8. 0 \in I
  BY <1>1
<1>9. \A i \in 1..n : i - 1 \in I => i \in I
  <2> SUFFICES ASSUME NEW i \in 1..n, i - 1 \in I PROVE joined[i] = h[i]
    BY <1>1
  <2>1. joined[i] = IF i = 1 THEN pieces[i] ELSE joined[i - 1] \o pieces[i]
    BY <1>6, <1>7
  <2>2. CASE i = 1
    <3>1. h[i] = h[0] \o pieces[i]
      <4>1. i - 1 = 0
        BY <2>2
      <4> QED BY <1>4, <4>1
    <3> QED BY <1>12, <2>1, <2>2, <3>1
  <2>3. CASE i # 1
    <3>1. joined[i - 1] = h[i - 1]
      BY <2>3
    <3> QED BY <1>4, <2>1, <2>3, <3>1
  <2> QED BY <2>2, <2>3
<1> HIDE DEF I
<1>10. 0..n \subseteq I
  BY <1>1, <1>8, <1>9, CountingUp
<1>11. FlattenSeq(pieces) = h[n]
  <2>1. CASE n = 0
    <3>1. pieces = <<>>
      BY <1>7, <2>1, EmptySeq
    <3>2. h[n] = <<>>
      BY <1>3, <2>1 DEF Loops
    <3> QED BY <1>2, <2>1, <3>1, <3>2
  <2>2. CASE n # 0
    BY <1>1, <1>2, <1>10, <2>2 DEF I
  <2> QED BY <2>1, <2>2
<1>13. h[0] = <<>>
  BY <1>3 DEF Loops
<1> QED BY <1>3, <1>4, <1>7, <1>11, <1>13

LEMMA FlattenAppend ==
  ASSUME NEW E, NEW pieces \in Seq(Seq(E)), NEW s \in Seq(E)
  PROVE  /\ FlattenSeq(pieces) \in Seq(E) /\ FlattenSeq(<<>>) = <<>> /\ FlattenSeq(<<s>>) = s
         /\ FlattenSeq(Append(pieces, s)) = FlattenSeq(pieces) \o s
<1> DEFINE longer == Append(pieces, s)
           n == Len(pieces)
<1>1. /\ longer \in Seq(Seq(E)) /\ Len(longer) = n + 1 /\ n \in Nat
      /\ longer[n + 1] = s /\ \A i \in 1..n : longer[i] = pieces[i]
  OBVIOUS
<1>2. FlattenSeq(<<>>) = <<>>
  BY DEF FlattenSeq
<1>3. FlattenSeq(<<s>>) = s
  <2>1. <<s>> \in Seq(Seq(E)) /\ Len(<<s>>) = 1 /\ <<s>>[1] = s
    OBVIOUS
  <2>2. PICK h \in [0..1 -> Seq(E)] :
          /\ h[0] = <<>> /\ FlattenSeq(<<s>>) = h[1]
          /\ \A i \in 1..1 : h[i] = h[i - 1] \o <<s>>[i]
    BY <2>1, FlattenLoops
  <2>3. h[1] = h[0] \o s
    BY <2>1, <2>2
  <2> QED BY <2>2, <2>3, ConcatEmptySeq
<1>4. PICK h \in [0..n -> Seq(E)] :
        /\ h[0] = <<>> /\ FlattenSeq(pieces) = h[n]
        /\ \A i \in 1..n : h[i] = h[i - 1] \o pieces[i]
  BY FlattenLoops
<1>5. PICK k \in [0..Len(longer) -> Seq(E)] :
        /\ k[0] = <<>> /\ FlattenSeq(longer) = k[Len(longer)]
        /\ \A i \in 1..Len(longer) : k[i] = k[i - 1] \o longer[i]
  <2> HIDE DEF longer
  <2> QED BY <1>1, FlattenLoops
<1> HIDE DEF longer, n
<1> DEFINE I == {i \in 0..n : h[i] = k[i]}
<1>6. 0 \in I
  BY <1>1, <1>4, <1>5
<1>7. \A i \in 1..n : i - 1 \in I => i \in I
  <2> SUFFICES ASSUME NEW i \in 1..n, i - 1 \in I PROVE i \in I
    OBVIOUS
  <2>1. longer[i] = pieces[i] /\ i \in 1..Len(longer)
    BY <1>1
  <2>2. k[i] = k[i - 1] \o pieces[i] /\ h[i] = h[i - 1] \o pieces[i]
    BY <1>4, <1>5, <2>1
  <2>3. h[i - 1] = k[i - 1] /\ i \in 0..n
    BY <1>1
  <2> HIDE DEF I
  <2>4. h[i] = k[i]
    BY <2>2, <2>3
  <2> QED BY <2>3, <2>4 DEF I
<1> HIDE DEF I
<1>8. 0..n \subseteq I
  BY <1>1, <1>6, <1>7, CountingUp
<1>9. h[n] = k[n] /\ h[n] \in Seq(E)
  BY <1>1, <1>4, <1>8 DEF I
<1>10. k[n + 1] = k[n] \o s
  <2>1. n + 1 \in 1..Len(longer) /\ (n + 1) - 1 = n
    BY <1>1
  <2> QED BY <1>1, <1>5, <2>1
<1> QED BY <1>1, <1>2, <1>3, <1>4, <1>5, <1>9, <1>10 DEF longer

(* The blocks a transcript is cut into, while they are being cut.           *)
Blocks == [done: Seq(Seq(Segment)), current: Seq(Segment), size: Nat]

LEMMA AddSegmentMakesBlocks ==
  ASSUME NEW b \in Blocks, NEW s \in Segment
  PROVE  /\ AddSegment(b, s) \in Blocks /\ AddSegment(b, s).current # <<>>
         /\ \/ /\ b.current # <<>> /\ b.size + SizeOf(s) > BlockSize
               /\ AddSegment(b, s).done = Append(b.done, b.current)
               /\ AddSegment(b, s).current = <<s>> /\ AddSegment(b, s).size = SizeOf(s)
            \/ /\ b.current = <<>> \/ ~(b.size + SizeOf(s) > BlockSize)
               /\ AddSegment(b, s).done = b.done
               /\ AddSegment(b, s).current = Append(b.current, s)
               /\ AddSegment(b, s).size = b.size + SizeOf(s)
<1>1. /\ b.done \in Seq(Seq(Segment)) /\ b.current \in Seq(Segment) /\ b.size \in Nat
      /\ b = [done |-> b.done, current |-> b.current, size |-> b.size]
  BY DEF Blocks
<1>2. SizeOf(s) \in Nat
  BY TotalAppend, EmptySeq
<1>3. <<s>> \in Seq(Segment) /\ <<s>> # <<>>
  OBVIOUS
<1>4. Append(b.done, b.current) \in Seq(Seq(Segment))
  BY <1>1, AppendProperties
<1>5. Append(b.current, s) \in Seq(Segment) /\ Append(b.current, s) # <<>>
  BY <1>1, AppendProperties
<1>6. CASE b.size + SizeOf(s) > BlockSize /\ b.current # <<>>
  <2>1. AddSegment(b, s) = [done |-> Append(b.done, b.current), current |-> <<s>>, size |-> SizeOf(s)]
    BY <1>6 DEF AddSegment
  <2> QED BY <1>2, <1>3, <1>4, <1>6, <2>1 DEF Blocks
<1>7. CASE ~(b.size + SizeOf(s) > BlockSize /\ b.current # <<>>)
  <2>1. AddSegment(b, s) =
          [done |-> b.done, current |-> Append(b.current, s), size |-> b.size + SizeOf(s)]
    BY <1>1, <1>7 DEF AddSegment
  <2>2. b.size + SizeOf(s) \in Nat
    BY <1>1, <1>2
  <2> QED BY <1>1, <1>5, <1>7, <2>1, <2>2 DEF Blocks
<1> QED BY <1>6, <1>7

LEMMA BlocksLoop ==
  ASSUME NEW segments \in Seq(Segment)
  PROVE  \E h \in [0..Len(segments) -> Blocks] :
           /\ h[0] = NoBlocks /\ FoldLeft(AddSegment, NoBlocks, segments) = h[Len(segments)]
           /\ \A i \in 1..Len(segments) : h[i] = AddSegment(h[i - 1], segments[i])
<1> DEFINE n == Len(segments)
           F == [p \in Blocks \X (1..n) |-> AddSegment(p[1], segments[p[2]])]
           Iter(g) == g = [T \in SUBSET DOMAIN segments |->
                             IF T = {} THEN NoBlocks
                             ELSE AddSegment(g[T \ {Max(T)}], segments[Max(T)])]
           f == CHOOSE g : Iter(g)
           h == [i \in 0..n |-> f[1..i]]
<1>1. n \in Nat /\ DOMAIN segments = 1..n
  OBVIOUS
<1>2. \A i \in 1..n, b \in Blocks : AddSegment(b, segments[i]) \in Blocks
  <2>1. \A i \in 1..n : segments[i] \in Segment
    OBVIOUS
  <2> QED BY <2>1, AddSegmentMakesBlocks
<1>3. FoldLeft(AddSegment, NoBlocks, segments) = f[DOMAIN segments]
  BY DEF FoldLeft, MapThenFoldSet
<1>4. NoBlocks \in Blocks
  BY EmptySeq DEF NoBlocks, Blocks
<1>5. PICK g \in [SUBSET (1..n) -> Blocks] : Iterates(g, F, NoBlocks, n)
  <2> HIDE DEF n
  <2>1. F \in [Blocks \X (1..n) -> Blocks]
    BY <1>2
  <2> HIDE DEF F
  <2> QED BY <1>1, <1>4, <2>1, IterationExists
<1>6. \A T \in SUBSET (1..n) : T # {} =>
        g[T \ {Max(T)}] \in Blocks /\ Max(T) \in 1..n
  <2> HIDE DEF n
  <2> QED BY <1>1, GreatestIsOne
<1>7. \A T \in SUBSET (1..n) :
        g[T] = IF T = {} THEN NoBlocks ELSE AddSegment(g[T \ {Max(T)}], segments[Max(T)])
  <2> HIDE DEF n
  <2> QED BY <1>5, <1>6 DEF Iterates
<1>8. Iter(g)
  <2> HIDE DEF n
  <2> QED BY <1>1, <1>7
<1> HIDE DEF Iter
<1>9. Iter(f)
  BY <1>8
<1> USE DEF Iter
<1> HIDE DEF f, n
<1>10. h[0] = NoBlocks
  <2>1. 1..0 = {} /\ {} \in SUBSET DOMAIN segments
    OBVIOUS
  <2> QED BY <1>1, <1>9, <2>1
<1>11. ASSUME NEW i \in 1..n
       PROVE  h[i] = AddSegment(h[i - 1], segments[i])
  <2>1. /\ 1..i \in SUBSET DOMAIN segments /\ 1..i # {} /\ Max(1..i) = i
        /\ (1..i) \ {i} = 1..(i - 1)
    BY <1>1, FirstNumbers
  <2>2. f[1..i] = AddSegment(f[(1..i) \ {Max(1..i)}], segments[Max(1..i)])
    BY <1>9, <2>1
  <2>3. i \in 0..n /\ i - 1 \in 0..n
    BY <1>1
  <2> QED BY <2>1, <2>2, <2>3
<1>12. h[n] = FoldLeft(AddSegment, NoBlocks, segments)
  BY <1>1, <1>3
<1> HIDE DEF h
<1>13. 0..n \subseteq {i \in 0..n : h[i] \in Blocks}
  <2> DEFINE I == {i \in 0..n : h[i] \in Blocks}
  <2>1. 0 \in I
    BY <1>1, <1>4, <1>10
  <2>2. \A i \in 1..n : i - 1 \in I => i \in I
    BY <1>1, <1>2, <1>11
  <2> HIDE DEF I
  <2>3. 0..n \subseteq I
    BY <1>1, <2>1, <2>2, CountingUp
  <2> QED BY <2>3 DEF I
<1>14. h \in [0..n -> Blocks]
  BY <1>13 DEF h
<1> QED BY <1>10, <1>11, <1>12, <1>14 DEF n

FitsBlock(block) == Len(block) > 1 => TotalOf(block) <= BlockSize

(* The blocks made of some segments, and of no others.                      *)
BlocksOf(b, segments, i) ==
  /\ FlattenSeq(b.done) \o b.current = SubSeq(segments, 1, i)
  /\ b.size = TotalOf(b.current) /\ FitsBlock(b.current)
  /\ \A j \in DOMAIN b.done : FitsBlock(b.done[j])
  /\ i > 0 => b.current # <<>>

LEMMA NextSegmentIsPut ==
  ASSUME GeminiAssumption, NEW segments \in Seq(Segment), NEW i \in 1..Len(segments),
         NEW b \in Blocks, BlocksOf(b, segments, i - 1)
  PROVE  BlocksOf(AddSegment(b, segments[i]), segments, i)
<1> DEFINE s == segments[i]
           c == AddSegment(b, s)
<1> SUFFICES BlocksOf(c, segments, i)
  OBVIOUS
<1>1. /\ s \in Segment /\ <<s>> \in Seq(Segment)
      /\ b.done \in Seq(Seq(Segment)) /\ b.current \in Seq(Segment) /\ b.size \in Nat
      /\ Len(b.current) \in Nat
  BY DEF Blocks
<1>2. c \in Blocks /\ c.current # <<>>
  BY <1>1, AddSegmentMakesBlocks
<1>3. /\ FlattenSeq(b.done) \in Seq(Segment) /\ FlattenSeq(b.done) \o b.current \in Seq(Segment)
      /\ FlattenSeq(Append(b.done, b.current)) = FlattenSeq(b.done) \o b.current
  BY <1>1, FlattenAppend, ConcatProperties
<1>4. SubSeq(segments, 1, i) = SubSeq(segments, 1, i - 1) \o <<s>>
  <2>1. 1 \in 1..Len(segments) /\ i \in 1..Len(segments)
    OBVIOUS
  <2> QED BY <2>1, SubSeqRecursiveSecond
<1>5. /\ TotalOf(b.current) \in Nat /\ SizeOf(s) \in Nat
      /\ TotalOf(Append(b.current, s)) = TotalOf(b.current) + SizeOf(s)
  BY <1>1, TotalAppend
<1>6. TotalOf(<<s>>) = SizeOf(s)
  <2>1. <<>> \in Seq(Segment) /\ Append(<<>>, s) = <<s>>
    BY <1>1
  <2>2. TotalOf(Append(<<>>, s)) = TotalOf(<<>>) + SizeOf(s) /\ TotalOf(<<>>) = 0
    BY <1>1, <2>1, TotalAppend
  <2> QED BY <1>5, <2>1, <2>2
<1>7. /\ FlattenSeq(b.done) \o b.current = SubSeq(segments, 1, i - 1)
      /\ b.size = TotalOf(b.current) /\ FitsBlock(b.current)
      /\ \A j \in DOMAIN b.done : FitsBlock(b.done[j])
  BY DEF BlocksOf
<1>8. CASE /\ b.current # <<>> /\ b.size + SizeOf(s) > BlockSize
           /\ c.done = Append(b.done, b.current)
           /\ c.current = <<s>> /\ c.size = SizeOf(s)
  <2>1. FlattenSeq(c.done) \o c.current = SubSeq(segments, 1, i)
    BY <1>3, <1>4, <1>7, <1>8
  <2>2. c.size = TotalOf(c.current) /\ FitsBlock(c.current)
    <3>1. Len(<<s>>) = 1
      OBVIOUS
    <3> QED BY <1>6, <1>8, <3>1 DEF FitsBlock
  <2>3. \A j \in DOMAIN c.done : FitsBlock(c.done[j])
    <3>1. /\ DOMAIN c.done = 1..(Len(b.done) + 1) /\ DOMAIN b.done = 1..Len(b.done)
          /\ Len(b.done) \in Nat
          /\ c.done[Len(b.done) + 1] = b.current
          /\ \A j \in 1..Len(b.done) : c.done[j] = b.done[j]
      BY <1>1, <1>8
    <3> HIDE DEF c
    <3> TAKE j \in DOMAIN c.done
    <3>2. j = Len(b.done) + 1 \/ j \in 1..Len(b.done)
      BY <3>1
    <3> QED BY <1>7, <3>1, <3>2
  <2> HIDE DEF c
  <2> QED BY <1>2, <2>1, <2>2, <2>3 DEF BlocksOf
<1>9. CASE /\ b.current = <<>> \/ ~(b.size + SizeOf(s) > BlockSize)
           /\ c.done = b.done
           /\ c.current = Append(b.current, s)
           /\ c.size = b.size + SizeOf(s)
  <2>1. FlattenSeq(c.done) \o c.current = SubSeq(segments, 1, i)
    <3>1. Append(b.current, s) = b.current \o <<s>>
      BY <1>1, AppendIsConcat
    <3>2. (FlattenSeq(b.done) \o b.current) \o <<s>> = FlattenSeq(b.done) \o (b.current \o <<s>>)
      <4>1. \A t, u, v \in Seq(Segment) : (t \o u) \o v = t \o (u \o v)
        BY ConcatAssociative
      <4> HIDE DEF s, c
      <4> QED BY <1>1, <1>3, <4>1
    <3> HIDE DEF c, s
    <3> QED BY <1>4, <1>7, <1>9, <3>1, <3>2
  <2>2. c.size = TotalOf(c.current)
    BY <1>5, <1>7, <1>9
  <2>3. FitsBlock(c.current)
    <3>1. CASE b.current = <<>>
      <4>1. Len(c.current) = 1
        BY <1>9, <3>1
      <4> QED BY <4>1 DEF FitsBlock
    <3>2. CASE ~(b.size + SizeOf(s) > BlockSize)
      <4>1. BlockSize \in Nat
        BY DEF GeminiAssumption
      <4>2. TotalOf(c.current) <= BlockSize
        BY <1>1, <1>5, <1>7, <1>9, <3>2, <4>1
      <4> QED BY <4>2 DEF FitsBlock
    <3> QED BY <1>9, <3>1, <3>2
  <2>4. \A j \in DOMAIN c.done : FitsBlock(c.done[j])
    BY <1>7, <1>9
  <2> HIDE DEF c
  <2> QED BY <1>2, <2>1, <2>2, <2>3, <2>4 DEF BlocksOf
<1> QED BY <1>1, <1>8, <1>9, AddSegmentMakesBlocks

(* A transcript is cut into blocks that, put together, are it.              *)
SplitsWell(segments) ==
  /\ SplitSegments(segments) \in Seq(Seq(Segment))
  /\ FlattenSeq(SplitSegments(segments)) = segments
  /\ \A j \in DOMAIN SplitSegments(segments) : FitsBlock(SplitSegments(segments)[j])
  /\ segments # <<>> => SplitSegments(segments) # <<>>

LEMMA TranscriptSplitsWell ==
  ASSUME GeminiAssumption, NEW segments \in Seq(Segment)
  PROVE  SplitsWell(segments)
<1> DEFINE n == Len(segments)
<1>1. PICK h \in [0..n -> Blocks] :
        /\ h[0] = NoBlocks /\ FoldLeft(AddSegment, NoBlocks, segments) = h[n]
        /\ \A i \in 1..n : h[i] = AddSegment(h[i - 1], segments[i])
  BY BlocksLoop
<1>2. n \in Nat /\ \A i \in 1..n : i \in 0..n /\ i - 1 \in 0..n
  OBVIOUS
<1> DEFINE I == {i \in 0..n : BlocksOf(h[i], segments, i)}
<1>3. 0 \in I
  <2>1. FlattenSeq(<<>>) = <<>> /\ TotalOf(<<>>) = 0
    BY FlattenAppend, TotalAppend, EmptySeq DEF FlattenSeq
  <2>2. SubSeq(segments, 1, 0) = <<>> /\ <<>> \o <<>> = <<>>
    OBVIOUS
  <2>3. FitsBlock(<<>>)
    BY EmptySeq DEF FitsBlock
  <2>4. /\ NoBlocks.done = <<>> /\ NoBlocks.current = <<>> /\ NoBlocks.size = 0
        /\ DOMAIN <<>> = {} /\ ~(0 > 0) /\ 0 \in 0..n
    BY <1>2 DEF NoBlocks
  <2> HIDE DEF n
  <2>5. BlocksOf(NoBlocks, segments, 0)
    BY <2>1, <2>2, <2>3, <2>4 DEF BlocksOf
  <2> QED BY <1>1, <2>4, <2>5
<1>4. \A i \in 1..n : i - 1 \in I => i \in I
  <2> SUFFICES ASSUME NEW i \in 1..n, i - 1 \in I PROVE i \in I
    OBVIOUS
  <2>1. h[i - 1] \in Blocks /\ BlocksOf(h[i - 1], segments, i - 1) /\ i \in 0..n
    BY <1>1, <1>2
  <2>2. BlocksOf(AddSegment(h[i - 1], segments[i]), segments, i)
    BY <2>1, NextSegmentIsPut
  <2>3. BlocksOf(h[i], segments, i)
    BY <1>1, <2>2
  <2> QED BY <2>1, <2>3
<1> HIDE DEF I, n
<1>5. 0..n \subseteq I
  BY <1>2, <1>3, <1>4, CountingUp
<1> DEFINE b == h[n]
<1>6. b \in Blocks /\ BlocksOf(b, segments, n)
  BY <1>1, <1>2, <1>5 DEF I
<1>7. SplitSegments(segments) = IF b.current = <<>> THEN b.done ELSE Append(b.done, b.current)
  BY <1>1 DEF SplitSegments
<1> HIDE DEF b
<1>8. /\ b.done \in Seq(Seq(Segment)) /\ b.current \in Seq(Segment)
      /\ FlattenSeq(b.done) \in Seq(Segment)
      /\ FlattenSeq(Append(b.done, b.current)) = FlattenSeq(b.done) \o b.current
  BY <1>6, FlattenAppend DEF Blocks
<1>9. SubSeq(segments, 1, n) = segments
  BY SubSeqFull DEF n
<1>10. CASE b.current = <<>>
  <2>1. FlattenSeq(b.done) = segments
    BY <1>6, <1>8, <1>9, <1>10, ConcatEmptySeq DEF BlocksOf
  <2>2. segments = <<>>
    BY <1>2, <1>6, <1>10, EmptySeq DEF BlocksOf, n
  <2> QED BY <1>6, <1>7, <1>8, <1>10, <2>1, <2>2 DEF BlocksOf, SplitsWell
<1>11. CASE b.current # <<>>
  <2> DEFINE c == Append(b.done, b.current)
  <2>1. /\ c \in Seq(Seq(Segment)) /\ c # <<>> /\ DOMAIN c = 1..(Len(b.done) + 1)
        /\ DOMAIN b.done = 1..Len(b.done)
        /\ Len(b.done) \in Nat /\ c[Len(b.done) + 1] = b.current
        /\ \A j \in 1..Len(b.done) : c[j] = b.done[j]
    <3>1. /\ c \in Seq(Seq(Segment)) /\ c # <<>> /\ Len(c) = Len(b.done) + 1
          /\ \A j \in 1..Len(b.done) : c[j] = b.done[j]
          /\ c[Len(b.done) + 1] = b.current
      <4> DEFINE A == Seq(Segment)
                 d == b.done
                 e == b.current
      <4>1. d \in Seq(A) /\ e \in A
        BY <1>8
      <4> HIDE DEF A, d, e
      <4>2. /\ Append(d, e) \in Seq(A) /\ Append(d, e) # <<>> /\ Len(Append(d, e)) = Len(d) + 1
            /\ \A j \in 1..Len(d) : Append(d, e)[j] = d[j]
            /\ Append(d, e)[Len(d) + 1] = e
        BY <4>1, AppendProperties
      <4> QED BY <4>2 DEF A, d, e
    <3> HIDE DEF c
    <3>2. DOMAIN c = 1..Len(c) /\ DOMAIN b.done = 1..Len(b.done) /\ Len(b.done) \in Nat
      BY <1>8, <3>1, LenProperties
    <3> QED BY <3>1, <3>2
  <2>2. FlattenSeq(c) = segments
    BY <1>6, <1>8, <1>9 DEF BlocksOf
  <2>3. SplitSegments(segments) = c
    BY <1>7, <1>11
  <2> HIDE DEF c
  <2>4. ASSUME NEW j \in DOMAIN c
        PROVE  FitsBlock(c[j])
    <3>1. j = Len(b.done) + 1 \/ j \in 1..Len(b.done)
      BY <2>1
    <3> QED BY <1>6, <2>1, <3>1 DEF BlocksOf
  <2> QED BY <2>1, <2>2, <2>3, <2>4 DEF SplitsWell
<1> QED BY <1>10, <1>11

LEMMA NothingIsNoText ==
  TextOf(<<>>) = 0
<1> DEFINE Iter(g) == g = [T \in SUBSET DOMAIN <<>> |->
                             IF T = {} THEN 0 ELSE g[T \ {Max(T)}] + <<>>[Max(T)].text]
           f == CHOOSE g : Iter(g)
           none == [T \in SUBSET DOMAIN <<>> |-> 0]
<1>1. TextOf(<<>>) = f[DOMAIN <<>>]
  BY DEF TextOf, FoldLeft, MapThenFoldSet
<1>2. DOMAIN <<>> = {}
  OBVIOUS
<1>3. Iter(none)
  BY <1>2
<1> HIDE DEF Iter
<1>4. Iter(f)
  BY <1>3
<1> USE DEF Iter
<1> HIDE DEF f
<1>5. f[{}] = 0
  BY <1>2, <1>4
<1> QED BY <1>1, <1>2, <1>5

Prompts == [about: {"transcript", "consolidate", "reconcile", "digest"}, segments: Seq(Segment), notes: BOOLEAN]

(* The prompts of an analysis hold the transcript, whole and in order.      *)
AskedWhole(prompts, transcript) ==
  LET several == Len(prompts) > 1
      blocks == IF several THEN Front(prompts) ELSE prompts IN
  /\ \A i \in DOMAIN blocks : blocks[i].about = "transcript"
  /\ FlattenSeq([i \in DOMAIN blocks |-> blocks[i].segments]) = transcript
  /\ {i \in DOMAIN blocks : blocks[i].notes} = {1}
  /\ several => \A i \in DOMAIN blocks : FitsBlock(blocks[i].segments)

LEMMA AnalysisAsksWhole ==
  ASSUME GeminiAssumption, NEW transcript \in Seq(Segment)
  PROVE  /\ AnalyzePrompts(transcript) \in Seq(Prompts)
         /\ Len(AnalyzePrompts(transcript)) > 0
         /\ AskedWhole(AnalyzePrompts(transcript), transcript)
         /\ Len(AnalyzePrompts(transcript)) > 1 =>
              AnalyzePrompts(transcript)[Len(AnalyzePrompts(transcript))].about = "consolidate"
<1> DEFINE asks == AnalyzePrompts(transcript)
<1>1. CASE TextOf(transcript) <= Threshold
  <2>1. asks = <<Prompt("transcript", transcript, TRUE)>>
    BY <1>1 DEF AnalyzePrompts
  <2>2. Prompt("transcript", transcript, TRUE) \in Prompts
    BY DEF Prompt, Prompts
  <2> HIDE DEF asks
  <2>3. /\ asks \in Seq(Prompts) /\ Len(asks) = 1 /\ DOMAIN asks = {1}
        /\ asks[1] = Prompt("transcript", transcript, TRUE)
    <3> DEFINE p == Prompt("transcript", transcript, TRUE)
    <3>1. p \in Prompts /\ asks = <<p>>
      BY <2>1, <2>2
    <3> HIDE DEF p
    <3>2. /\ <<p>> \in Seq(Prompts) /\ Len(<<p>>) = 1
          /\ DOMAIN <<p>> = 1..1 /\ <<p>>[1] = p
      BY <3>1
    <3>3. 1..1 = {1}
      OBVIOUS
    <3> QED BY <3>1, <3>2, <3>3 DEF p
  <2>4. asks[1].about = "transcript" /\ asks[1].segments = transcript /\ asks[1].notes = TRUE
    BY <2>3 DEF Prompt
  <2>5. [i \in DOMAIN asks |-> asks[i].segments] = <<transcript>>
    <3>1. 1..1 = {1} /\ <<transcript>> = [i \in 1..1 |-> transcript]
      OBVIOUS
    <3> QED BY <2>3, <2>4, <3>1
  <2>6. FlattenSeq(<<transcript>>) = transcript
    BY FlattenAppend, EmptySeq
  <2>7. AskedWhole(asks, transcript)
    <3>1. ~(Len(asks) > 1)
      BY <2>3
    <3>2. \A i \in DOMAIN asks : asks[i].about = "transcript"
      BY <2>3, <2>4
    <3>3. {i \in DOMAIN asks : asks[i].notes} = {1}
      BY <2>3, <2>4
    <3> QED BY <2>5, <2>6, <3>1, <3>2, <3>3 DEF AskedWhole
  <2> QED BY <2>3, <2>7 DEF asks
<1>2. CASE ~(TextOf(transcript) <= Threshold)
  <2> DEFINE blocks == SplitSegments(transcript)
             cut == [i \in DOMAIN blocks |-> Prompt("transcript", blocks[i], i = 1)]
             end == Prompt("consolidate", <<>>, FALSE)
  <2>1. asks = Append(cut, end)
    BY <1>2 DEF AnalyzePrompts
  <2>2. transcript # <<>>
    BY <1>2, NothingIsNoText DEF GeminiAssumption
  <2>3. /\ blocks \in Seq(Seq(Segment)) /\ FlattenSeq(blocks) = transcript
        /\ \A i \in DOMAIN blocks : FitsBlock(blocks[i])
        /\ blocks # <<>>
    BY <2>2, TranscriptSplitsWell DEF SplitsWell
  <2> HIDE DEF blocks, asks
  <2>4. /\ DOMAIN blocks = 1..Len(blocks) /\ Len(blocks) \in Nat /\ Len(blocks) > 0
        /\ \A i \in 1..Len(blocks) : blocks[i] \in Seq(Segment)
    BY <2>3, EmptySeq, LenProperties, ElementOfSeq
  <2>5. ASSUME NEW i \in 1..Len(blocks)
        PROVE  /\ cut[i] \in Prompts /\ cut[i].about = "transcript" /\ cut[i].segments = blocks[i]
               /\ cut[i].notes = (i = 1)
    <3>1. cut[i] = Prompt("transcript", blocks[i], i = 1)
      BY <2>4
    <3> QED BY <2>4, <3>1 DEF Prompt, Prompts
  <2>6. end \in Prompts /\ end.about = "consolidate"
    BY EmptySeq DEF Prompt, Prompts
  <2>7. cut \in Seq(Prompts) /\ Len(cut) = Len(blocks) /\ DOMAIN cut = 1..Len(blocks)
    <3>1. DOMAIN cut = 1..Len(blocks)
      BY <2>4
    <3>2. cut \in [1..Len(blocks) -> Prompts]
      BY <2>4, <2>5
    <3> HIDE DEF cut
    <3> QED BY <2>4, <3>1, <3>2
  <2>8. [i \in DOMAIN cut |-> cut[i].segments] = blocks
    <3>1. \A i \in DOMAIN cut : cut[i].segments = blocks[i]
      BY <2>5, <2>7
    <3>2. blocks = [i \in DOMAIN cut |-> blocks[i]]
      BY <2>3, <2>4, <2>7
    <3> HIDE DEF cut
    <3> QED BY <3>1, <3>2
  <2> HIDE DEF cut, end
  <2>9. /\ asks \in Seq(Prompts) /\ Len(asks) = Len(blocks) + 1
        /\ asks[Len(blocks) + 1] = end
    BY <2>1, <2>6, <2>7, AppendProperties
  <2>10. Front(asks) = cut
    <3>1. SubSeq(asks, 1, Len(cut)) = cut
      BY <2>1, <2>6, <2>7
    <3> QED BY <2>4, <2>7, <2>9, <3>1 DEF Front
  <2>11. AskedWhole(asks, transcript)
    <3>1. Len(asks) > 1
      BY <2>4, <2>9
    <3>2. \A i \in DOMAIN cut : cut[i].about = "transcript"
      BY <2>5, <2>7
    <3>3. {i \in DOMAIN cut : cut[i].notes} = {1}
      <4>1. \A i \in DOMAIN cut : cut[i].notes <=> i = 1
        BY <2>5, <2>7
      <4>2. 1 \in DOMAIN cut
        BY <2>4, <2>7
      <4> QED BY <4>1, <4>2
    <3>4. \A i \in DOMAIN cut : FitsBlock(cut[i].segments)
      BY <2>3, <2>4, <2>5, <2>7
    <3> QED BY <2>3, <2>8, <2>10, <3>1, <3>2, <3>3, <3>4 DEF AskedWhole
  <2>12. Len(asks) > 0 /\ asks[Len(asks)].about = "consolidate"
    BY <2>4, <2>6, <2>9
  <2> QED BY <2>9, <2>11, <2>12 DEF asks
<1> QED BY <1>1, <1>2

(* What a task heard is kept as.                                            *)
KeepHeard(kept, item) ==
  LET alike == {i \in DOMAIN kept : kept[i].topic = item.topic} IN
  IF alike = {} THEN Append(kept, item)
  ELSE [i \in DOMAIN kept |-> IF i \in alike THEN MergeAlike(kept[i], item) ELSE kept[i]]

LEMMA MergedStaysAlike ==
  ASSUME NEW kept \in HeardTask, NEW item \in HeardTask, kept.topic = item.topic
  PROVE  /\ MergeAlike(kept, item) \in HeardTask /\ MergeAlike(kept, item).topic = kept.topic
         /\ kept.dated \/ item.dated => MergeAlike(kept, item).dated
<1>1. /\ kept = [topic |-> kept.topic, confidence |-> kept.confidence, dated |-> kept.dated, owned |-> kept.owned]
      /\ item = [topic |-> item.topic, confidence |-> item.confidence, dated |-> item.dated, owned |-> item.owned]
      /\ kept.topic \in Nat /\ kept.confidence \in Nat /\ kept.dated \in BOOLEAN /\ kept.owned \in BOOLEAN
      /\ item.topic \in Nat /\ item.confidence \in Nat /\ item.dated \in BOOLEAN /\ item.owned \in BOOLEAN
  BY DEF HeardTask
<1>2. CASE item.confidence > kept.confidence
  <2>1. MergeAlike(kept, item) = [topic |-> item.topic, confidence |-> item.confidence,
          dated |-> item.dated \/ kept.dated, owned |-> item.owned \/ kept.owned]
    BY <1>1, <1>2 DEF MergeAlike
  <2> QED BY <1>1, <2>1 DEF HeardTask
<1>3. CASE ~(item.confidence > kept.confidence)
  <2>1. MergeAlike(kept, item) = [topic |-> kept.topic, confidence |-> kept.confidence,
          dated |-> kept.dated \/ item.dated, owned |-> kept.owned]
    BY <1>1, <1>3 DEF MergeAlike
  <2> QED BY <1>1, <2>1 DEF HeardTask
<1> QED BY <1>2, <1>3

LEMMA KeepHeardMakesTasks ==
  ASSUME NEW kept \in Seq(HeardTask), NEW item \in HeardTask
  PROVE  KeepHeard(kept, item) \in Seq(HeardTask)
<1> DEFINE alike == {i \in DOMAIN kept : kept[i].topic = item.topic}
           merged == [i \in DOMAIN kept |-> IF i \in alike THEN MergeAlike(kept[i], item) ELSE kept[i]]
<1>1. KeepHeard(kept, item) = IF alike = {} THEN Append(kept, item) ELSE merged
  BY DEF KeepHeard
<1>2. DOMAIN kept = 1..Len(kept) /\ Len(kept) \in Nat /\ \A i \in 1..Len(kept) : kept[i] \in HeardTask
  OBVIOUS
<1>3. \A i \in DOMAIN kept : merged[i] \in HeardTask
  BY <1>2, MergedStaysAlike
<1>4. merged \in [1..Len(kept) -> HeardTask]
  BY <1>2, <1>3
<1> HIDE DEF merged, alike
<1>5. merged \in Seq(HeardTask)
  BY <1>2, <1>4
<1> QED BY <1>1, <1>5

LEMMA DedupeLoop ==
  ASSUME NEW items \in Seq(HeardTask)
  PROVE  \E h \in [0..Len(items) -> Seq(HeardTask)] :
           /\ h[0] = <<>> /\ Dedupe(items) = h[Len(items)]
           /\ \A i \in 1..Len(items) : h[i] = KeepHeard(h[i - 1], items[i])
<1> DEFINE n == Len(items)
           A == Seq(HeardTask)
           F == [p \in A \X (1..n) |-> KeepHeard(p[1], items[p[2]])]
           Iter(g) == g = [T \in SUBSET DOMAIN items |->
                             IF T = {} THEN <<>>
                             ELSE KeepHeard(g[T \ {Max(T)}], items[Max(T)])]
           f == CHOOSE g : Iter(g)
           h == [i \in 0..n |-> f[1..i]]
<1>1. n \in Nat /\ DOMAIN items = 1..n
  OBVIOUS
<1>2. \A i \in 1..n, kept \in A : KeepHeard(kept, items[i]) \in A
  <2>1. \A i \in 1..n : items[i] \in HeardTask
    OBVIOUS
  <2> QED BY <2>1, KeepHeardMakesTasks
<1>3. Dedupe(items) = f[DOMAIN items]
  BY DEF Dedupe, FoldLeft, MapThenFoldSet, KeepHeard
<1>4. <<>> \in A
  OBVIOUS
<1> HIDE DEF A
<1>5. PICK g \in [SUBSET (1..n) -> A] : Iterates(g, F, <<>>, n)
  <2> HIDE DEF n
  <2>1. F \in [A \X (1..n) -> A]
    BY <1>2
  <2> HIDE DEF F
  <2> QED BY <1>1, <1>4, <2>1, IterationExists
<1>6. \A T \in SUBSET (1..n) : T # {} =>
        g[T \ {Max(T)}] \in A /\ Max(T) \in 1..n
  <2> HIDE DEF n
  <2> QED BY <1>1, GreatestIsOne
<1>7. \A T \in SUBSET (1..n) :
        g[T] = IF T = {} THEN <<>> ELSE KeepHeard(g[T \ {Max(T)}], items[Max(T)])
  <2> HIDE DEF n
  <2> QED BY <1>5, <1>6 DEF Iterates
<1>8. Iter(g)
  <2> HIDE DEF n
  <2> QED BY <1>1, <1>7
<1> HIDE DEF Iter
<1>9. Iter(f)
  BY <1>8
<1> USE DEF Iter
<1> HIDE DEF f, n
<1>10. h[0] = <<>>
  <2>1. 1..0 = {} /\ {} \in SUBSET DOMAIN items
    OBVIOUS
  <2> QED BY <1>1, <1>9, <2>1
<1>11. ASSUME NEW i \in 1..n
       PROVE  h[i] = KeepHeard(h[i - 1], items[i])
  <2>1. /\ 1..i \in SUBSET DOMAIN items /\ 1..i # {} /\ Max(1..i) = i
        /\ (1..i) \ {i} = 1..(i - 1)
    BY <1>1, FirstNumbers
  <2>2. f[1..i] = KeepHeard(f[(1..i) \ {Max(1..i)}], items[Max(1..i)])
    BY <1>9, <2>1
  <2>3. i \in 0..n /\ i - 1 \in 0..n
    BY <1>1
  <2> QED BY <2>1, <2>2, <2>3
<1>12. h[n] = Dedupe(items)
  BY <1>1, <1>3
<1> HIDE DEF h
<1>13. 0..n \subseteq {i \in 0..n : h[i] \in A}
  <2> DEFINE I == {i \in 0..n : h[i] \in A}
  <2>1. 0 \in I
    BY <1>1, <1>4, <1>10
  <2>2. \A i \in 1..n : i - 1 \in I => i \in I
    BY <1>1, <1>2, <1>11
  <2> HIDE DEF I
  <2>3. 0..n \subseteq I
    BY <1>1, <2>1, <2>2, CountingUp
  <2> QED BY <2>3 DEF I
<1>14. h \in [0..n -> A]
  BY <1>13 DEF h
<1> QED BY <1>10, <1>11, <1>12, <1>14 DEF n, A

(* The first i tasks said are kept once each, with a date if any had one.   *)
KeptOnce(kept, said, i) ==
  /\ \A x, y \in DOMAIN kept : kept[x].topic = kept[y].topic => x = y
  /\ \A x \in DOMAIN kept : \E j \in 1..i : kept[x].topic = said[j].topic
  /\ \A j \in 1..i : \E x \in DOMAIN kept :
       kept[x].topic = said[j].topic /\ (said[j].dated => kept[x].dated)

LEMMA NextTaskIsKept ==
  ASSUME NEW said \in Seq(HeardTask), NEW i \in 1..Len(said), NEW kept \in Seq(HeardTask),
         KeptOnce(kept, said, i - 1)
  PROVE  KeptOnce(KeepHeard(kept, said[i]), said, i)
<1> DEFINE item == said[i]
           now == KeepHeard(kept, item)
           alike == {x \in DOMAIN kept : kept[x].topic = item.topic}
<1> SUFFICES KeptOnce(now, said, i)
  OBVIOUS
<1>1. item \in HeardTask
  OBVIOUS
<1>2. /\ DOMAIN kept = 1..Len(kept) /\ Len(kept) \in Nat
      /\ \A x \in DOMAIN kept : kept[x] \in HeardTask
  OBVIOUS
<1>3. 1..i = (1..(i - 1)) \cup {i} /\ \A j \in 1..(i - 1) : j # i
  OBVIOUS
<1>4. CASE alike = {}
  <2>1. now = Append(kept, item)
    BY <1>4 DEF KeepHeard
  <2>2. /\ DOMAIN now = DOMAIN kept \cup {Len(kept) + 1}
        /\ now[Len(kept) + 1] = item /\ \A x \in DOMAIN kept : now[x] = kept[x]
    <3> HIDE DEF item
    <3>1. Len(Append(kept, item)) = Len(kept) + 1 /\ Append(kept, item) \in Seq(HeardTask)
          /\ Append(kept, item)[Len(kept) + 1] = item
          /\ \A x \in 1..Len(kept) : Append(kept, item)[x] = kept[x]
      BY <1>1, AppendProperties
    <3>2. DOMAIN Append(kept, item) = 1..(Len(kept) + 1)
      BY <3>1, LenProperties
    <3>3. 1..(Len(kept) + 1) = (1..Len(kept)) \cup {Len(kept) + 1}
      BY <1>2
    <3> QED BY <1>2, <2>1, <3>1, <3>2, <3>3
  <2>3. \A x \in DOMAIN kept : kept[x].topic # item.topic
    BY <1>4
  <2> HIDE DEF now, alike, item
  <2>4. \A x, y \in DOMAIN now : now[x].topic = now[y].topic => x = y
    BY <2>2, <2>3 DEF KeptOnce
  <2>5. \A x \in DOMAIN now : \E j \in 1..i : now[x].topic = said[j].topic
    <3> TAKE x \in DOMAIN now
    <3>1. CASE x \in DOMAIN kept
      <4>1. \E j \in 1..(i - 1) : kept[x].topic = said[j].topic
        BY <3>1 DEF KeptOnce
      <4> QED BY <1>3, <2>2, <3>1, <4>1
    <3>2. CASE x = Len(kept) + 1
      <4>1. now[x].topic = said[i].topic
        BY <2>2, <3>2 DEF item
      <4> QED BY <1>3, <4>1
    <3> QED BY <2>2, <3>1, <3>2
  <2>6. ASSUME NEW j \in 1..i
        PROVE  \E x \in DOMAIN now : now[x].topic = said[j].topic /\ (said[j].dated => now[x].dated)
    <3>1. CASE j = i
      BY <2>2, <3>1 DEF item
    <3>2. CASE j # i
      <4>1. j \in 1..(i - 1)
        BY <3>2
      <4>2. PICK x \in DOMAIN kept : kept[x].topic = said[j].topic /\ (said[j].dated => kept[x].dated)
        BY <4>1 DEF KeptOnce
      <4> QED BY <2>2, <4>2
    <3> QED BY <3>1, <3>2
  <2> QED BY <2>4, <2>5, <2>6 DEF KeptOnce
<1>5. CASE alike # {}
  <2>1. now = [x \in DOMAIN kept |-> IF x \in alike THEN MergeAlike(kept[x], item) ELSE kept[x]]
    BY <1>5 DEF KeepHeard
  <2>2. DOMAIN now = DOMAIN kept
    BY <2>1
  <2> HIDE DEF now, item
  <2>3. ASSUME NEW x \in DOMAIN kept
        PROVE  /\ now[x].topic = kept[x].topic /\ (kept[x].dated => now[x].dated)
               /\ kept[x].topic = item.topic => (item.dated => now[x].dated)
    <3>1. CASE x \in alike
      <4>1. now[x] = MergeAlike(kept[x], item) /\ kept[x].topic = item.topic /\ kept[x] \in HeardTask
        BY <1>2, <2>1, <3>1
      <4> QED BY <1>1, <4>1, MergedStaysAlike
    <3>2. CASE x \notin alike
      <4>1. now[x] = kept[x] /\ kept[x].topic # item.topic
        BY <2>1, <3>2
      <4> QED BY <4>1
    <3> QED BY <3>1, <3>2
  <2>4. \A x, y \in DOMAIN now : now[x].topic = now[y].topic => x = y
    BY <2>2, <2>3 DEF KeptOnce
  <2>5. \A x \in DOMAIN now : \E j \in 1..i : now[x].topic = said[j].topic
    BY <1>3, <2>2, <2>3 DEF KeptOnce
  <2>6. ASSUME NEW j \in 1..i
        PROVE  \E x \in DOMAIN now : now[x].topic = said[j].topic /\ (said[j].dated => now[x].dated)
    <3>1. CASE j = i
      <4>1. PICK x \in DOMAIN kept : kept[x].topic = item.topic
        BY <1>5
      <4> QED BY <2>2, <2>3, <3>1, <4>1 DEF item
    <3>2. CASE j # i
      <4>1. j \in 1..(i - 1)
        BY <3>2
      <4>2. PICK x \in DOMAIN kept : kept[x].topic = said[j].topic /\ (said[j].dated => kept[x].dated)
        BY <4>1 DEF KeptOnce
      <4> QED BY <2>2, <2>3, <4>2
    <3> QED BY <3>1, <3>2
  <2> QED BY <2>4, <2>5, <2>6 DEF KeptOnce
<1> QED BY <1>4, <1>5

(* One task for each topic said, dated if any task about it was.            *)
ConsolidatesWell(made, said) ==
  LET TopicsOf(items) == {item.topic : item \in ToSet(items)} IN
  /\ TopicsOf(made) = TopicsOf(said)
  /\ Len(made) = Cardinality(TopicsOf(said))
  /\ \A item \in ToSet(said) : item.dated =>
       \E kept \in ToSet(made) : kept.topic = item.topic /\ kept.dated

LEMMA DedupeConsolidates ==
  ASSUME NEW said \in Seq(HeardTask)
  PROVE  Dedupe(said) \in Seq(HeardTask) /\ ConsolidatesWell(Dedupe(said), said)
<1> DEFINE n == Len(said)
<1>1. PICK h \in [0..n -> Seq(HeardTask)] :
        /\ h[0] = <<>> /\ Dedupe(said) = h[n]
        /\ \A i \in 1..n : h[i] = KeepHeard(h[i - 1], said[i])
  BY DedupeLoop
<1>2. n \in Nat /\ DOMAIN said = 1..n /\ \A i \in 1..n : i \in 0..n /\ i - 1 \in 0..n
  OBVIOUS
<1> DEFINE I == {i \in 0..n : KeptOnce(h[i], said, i)}
<1>3. 0 \in I
  <2>1. DOMAIN h[0] = {} /\ 1..0 = {}
    BY <1>1
  <2> QED BY <1>2, <2>1 DEF KeptOnce
<1>4. \A i \in 1..n : i - 1 \in I => i \in I
  <2> SUFFICES ASSUME NEW i \in 1..n, i - 1 \in I PROVE i \in I
    OBVIOUS
  <2>1. h[i - 1] \in Seq(HeardTask) /\ KeptOnce(h[i - 1], said, i - 1) /\ i \in 0..n
    BY <1>1, <1>2
  <2>2. KeptOnce(KeepHeard(h[i - 1], said[i]), said, i)
    BY <2>1, NextTaskIsKept
  <2>3. KeptOnce(h[i], said, i)
    BY <1>1, <2>2
  <2> QED BY <2>1, <2>3
<1> HIDE DEF I
<1>5. 0..n \subseteq I
  <2> HIDE DEF n
  <2> QED BY <1>2, <1>3, <1>4, CountingUp
<1> HIDE DEF n
<1> DEFINE made == Dedupe(said)
<1>6. made \in Seq(HeardTask) /\ KeptOnce(made, said, n)
  BY <1>1, <1>2, <1>5 DEF I
<1> HIDE DEF made
<1> DEFINE topics == {item.topic : item \in ToSet(said)}
<1>7. topics = {said[j].topic : j \in 1..n}
  BY <1>2 DEF ToSet
<1>8. {item.topic : item \in ToSet(made)} = {made[x].topic : x \in DOMAIN made}
  BY DEF ToSet
<1>9. {made[x].topic : x \in DOMAIN made} = {said[j].topic : j \in 1..n}
  <2>1. \A x \in DOMAIN made : \E j \in 1..n : made[x].topic = said[j].topic
    BY <1>6 DEF KeptOnce
  <2>2. \A j \in 1..n : \E x \in DOMAIN made : made[x].topic = said[j].topic
    BY <1>6 DEF KeptOnce
  <2> QED BY <2>1, <2>2
<1>10. Len(made) = Cardinality(topics)
  <2>1. DOMAIN made = 1..Len(made) /\ Len(made) \in Nat
    BY <1>6, LenProperties
  <2> DEFINE f == [x \in 1..Len(made) |-> made[x].topic]
  <2>2. f \in [1..Len(made) -> topics] /\ \A t \in topics : \E x \in 1..Len(made) : f[x] = t
    <3>1. \A x \in 1..Len(made) : f[x] = made[x].topic
      OBVIOUS
    <3>2. topics = {f[x] : x \in 1..Len(made)}
      BY <1>7, <1>9, <2>1, <3>1
    <3> HIDE DEF topics
    <3> QED BY <3>2
  <2>3. \A x, y \in 1..Len(made) : f[x] = f[y] => x = y
    BY <1>6, <2>1 DEF KeptOnce
  <2> HIDE DEF f, topics
  <2>4. f \in Bijection(1..Len(made), topics)
    BY <2>2, <2>3 DEF Bijection, Injection, Surjection, IsInjective
  <2>5. ExistsBijection(1..Len(made), topics)
    BY <2>4 DEF ExistsBijection
  <2> QED BY <2>1, <2>5, FS_CountingElements
<1>11. ASSUME NEW item \in ToSet(said), item.dated
       PROVE  \E kept \in ToSet(made) : kept.topic = item.topic /\ kept.dated
  <2>1. PICK j \in 1..n : item = said[j]
    BY <1>2 DEF ToSet
  <2>2. PICK x \in DOMAIN made : made[x].topic = said[j].topic /\ (said[j].dated => made[x].dated)
    BY <1>6 DEF KeptOnce
  <2>3. made[x] \in ToSet(made)
    BY DEF ToSet
  <2> QED BY <1>11, <2>1, <2>2, <2>3
<1>12. {item.topic : item \in ToSet(made)} = topics
  BY <1>7, <1>8, <1>9
<1> HIDE DEF topics
<1>13. ConsolidatesWell(made, said)
  BY <1>10, <1>11, <1>12 DEF ConsolidatesWell, topics
<1> QED BY <1>6, <1>13 DEF made

(* What has been heard so far is what has been asked.                       *)
Consultings ==
  [step: {"asking", "returned", "failed"}, kind: {"analyze", "reconcile", "digest"},
   transcript: Transcripts, prompts: Seq(Prompts), at: Nat, attempt: 0..MaxRetries,
   repairing: BOOLEAN, heard: Seq(Prompts), verdict: Verdicts, said: Seq(HeardTask),
   tasks: Seq(HeardTask)]

Hears(c) ==
  /\ c \in Consultings /\ c.at \in DOMAIN c.prompts
  /\ c.kind = "analyze" => c.prompts = AnalyzePrompts(c.transcript)
  /\ c.step = "asking" => c.heard = SubSeq(c.prompts, 1, c.at - 1)
  /\ c.step = "returned" =>
       /\ c.heard = c.prompts
       /\ c.prompts[Len(c.prompts)].about = "consolidate" => c.tasks = Dedupe(c.said)

HearingInv ==
  /\ usage \in [tokens: Nat, calls: Nat] /\ answered \in Nat /\ usage.tokens = answered
  /\ consulting # NotConsulting => Hears(consulting)

(* The fields of an operation that goes on.                                 *)
LEMMA ConsultingFields ==
  ASSUME NEW c \in Consultings
  PROVE  /\ c.step \in {"asking", "returned", "failed"} /\ c.kind \in {"analyze", "reconcile", "digest"}
         /\ c.transcript \in Transcripts /\ c.prompts \in Seq(Prompts) /\ c.at \in Nat
         /\ c.attempt \in 0..MaxRetries /\ c.repairing \in BOOLEAN /\ c.heard \in Seq(Prompts)
         /\ c.verdict \in Verdicts /\ c.said \in Seq(HeardTask) /\ c.tasks \in Seq(HeardTask)
         /\ c = [step |-> c.step, kind |-> c.kind, transcript |-> c.transcript, prompts |-> c.prompts,
                 at |-> c.at, attempt |-> c.attempt, repairing |-> c.repairing, heard |-> c.heard,
                 verdict |-> c.verdict, said |-> c.said, tasks |-> c.tasks]
BY DEF Consultings

LEMMA BeginningHears ==
  ASSUME GeminiAssumption, NEW kind \in {"analyze", "reconcile", "digest"}, NEW t \in Transcripts,
         BeginConsulting(kind, t)
  PROVE  HearingInv'
<1> DEFINE p == IF kind = "analyze" THEN AnalyzePrompts(t) ELSE <<Prompt(kind, <<>>, FALSE)>>
<1>1. p \in Seq(Prompts) /\ Len(p) \in Nat /\ Len(p) > 0
  <2>1. CASE kind = "analyze"
    <3>1. t \in Seq(Segment)
      BY DEF GeminiAssumption
    <3>2. p \in Seq(Prompts) /\ Len(p) > 0
      BY <2>1, <3>1, AnalysisAsksWhole
    <3> HIDE DEF p
    <3> QED BY <3>2
  <2>2. CASE kind # "analyze"
    <3> DEFINE q == Prompt(kind, <<>>, FALSE)
    <3>1. q \in Prompts
      BY <2>2, EmptySeq DEF Prompt, Prompts
    <3>2. p = <<q>>
      BY <2>2
    <3> HIDE DEF p, q
    <3> QED BY <3>1, <3>2
  <2> QED BY <2>1, <2>2
<1>2. consulting' =
        [step |-> "asking", kind |-> kind, transcript |-> t, prompts |-> p,
         at |-> 1, attempt |-> 0, repairing |-> FALSE, heard |-> <<>>,
         verdict |-> "none", said |-> <<>>, tasks |-> <<>>]
  BY DEF BeginConsulting
<1>3. kind = "analyze" => p = AnalyzePrompts(t)
  OBVIOUS
<1> HIDE DEF p
<1>4. consulting' \in Consultings
  <2>1. 0 \in 0..MaxRetries /\ <<>> \in Seq(Prompts) /\ <<>> \in Seq(HeardTask)
    BY EmptySeq DEF GeminiAssumption
  <2> QED BY <1>1, <1>2, <2>1 DEF Consultings, Verdicts
<1>5. SubSeq(p, 1, 0) = <<>> /\ 1 \in DOMAIN p
  BY <1>1, SubSeqEmpty
<1>6. Hears(consulting')
  BY <1>2, <1>3, <1>4, <1>5 DEF Hears
<1>7. usage' = NoUsage /\ answered' = 0
  BY DEF BeginConsulting
<1> QED BY <1>6, <1>7 DEF HearingInv, NoUsage

(* A step that goes on asking, or ends for want of an answer.               *)
LEMMA UnheardHears ==
  ASSUME GeminiAssumption, HearingInv, Awaiting,
         AnswerMisfits \/ AnswerEmpty \/ Unanswered \/ Denied
  PROVE  HearingInv'
<1> DEFINE c == consulting
<1>1. c.step = "asking" /\ Hears(c) /\ c \in Consultings
  <2>1. c.step = "asking"
    BY DEF Awaiting
  <2>2. c # NotConsulting
    BY <2>1 DEF NotConsulting
  <2> QED BY <2>1, <2>2 DEF HearingInv, Hears
<1>2. \/ c' = [c EXCEPT !.step = "failed"]
      \/ c' = [c EXCEPT !.repairing = TRUE, !.attempt = 0]
      \/ c.attempt < MaxRetries /\ c' = [c EXCEPT !.attempt = @ + 1]
  BY DEF AnswerMisfits, AnswerEmpty, Unanswered, Denied, Failed
<1>3. /\ usage' \in [tokens: Nat, calls: Nat] /\ answered' \in Nat /\ usage'.tokens = answered'
  <2>1. /\ usage.tokens \in Nat /\ usage.calls \in Nat /\ answered \in Nat /\ usage.tokens = answered
    BY DEF HearingInv
  <2>2. \/ usage' = [tokens |-> usage.tokens + 1, calls |-> usage.calls + 1] /\ answered' = answered + 1
        \/ usage' = [tokens |-> usage.tokens + 1, calls |-> usage.calls + 2] /\ answered' = answered + 1
        \/ usage' = [tokens |-> usage.tokens + 0, calls |-> usage.calls + 1] /\ answered' = answered
    BY DEF AnswerMisfits, AnswerEmpty, Unanswered, Denied, Counted
  <2> QED BY <2>1, <2>2
<1>4. Hears(c')
  <2> DEFINE d == c'
  <2> HIDE DEF c, d
  <2> SUFFICES Hears(d)
    BY DEF d
  <2>1. /\ c.attempt \in 0..MaxRetries /\ c.at \in DOMAIN c.prompts
        /\ c.kind = "analyze" => c.prompts = AnalyzePrompts(c.transcript)
        /\ c.heard = SubSeq(c.prompts, 1, c.at - 1)
    BY <1>1, ConsultingFields DEF Hears
  <2>2. CASE d = [c EXCEPT !.step = "failed"]
    <3>1. d \in Consultings
      BY <1>1, <2>2 DEF Consultings
    <3>2. d.step = "failed" /\ d.at = c.at /\ d.prompts = c.prompts /\ d.kind = c.kind /\ d.transcript = c.transcript
      BY <1>1, <2>2 DEF Consultings
    <3> QED BY <2>1, <3>1, <3>2 DEF Hears
  <2>3. CASE d = [c EXCEPT !.repairing = TRUE, !.attempt = 0]
    <3>1. 0 \in 0..MaxRetries
      BY DEF GeminiAssumption
    <3>2. d \in Consultings
      BY <1>1, <2>3, <3>1 DEF Consultings
    <3>3. /\ d.step = "asking" /\ d.at = c.at /\ d.prompts = c.prompts /\ d.kind = c.kind
          /\ d.transcript = c.transcript /\ d.heard = c.heard
      BY <1>1, <2>3 DEF Consultings
    <3> QED BY <2>1, <3>2, <3>3 DEF Hears
  <2>4. CASE c.attempt < MaxRetries /\ d = [c EXCEPT !.attempt = @ + 1]
    <3>1. c.attempt + 1 \in 0..MaxRetries
      BY <2>1, <2>4 DEF GeminiAssumption
    <3>2. d \in Consultings
      BY <1>1, <2>4, <3>1 DEF Consultings
    <3>3. /\ d.step = "asking" /\ d.at = c.at /\ d.prompts = c.prompts /\ d.kind = c.kind
          /\ d.transcript = c.transcript /\ d.heard = c.heard
      BY <1>1, <2>4 DEF Consultings
    <3> QED BY <2>1, <3>2, <3>3 DEF Hears
  <2> QED BY <1>2, <2>2, <2>3, <2>4 DEF d
<1> QED BY <1>3, <1>4 DEF HearingInv

(* An answer that fits: the next prompt, or the end.                        *)
LEMMA HeardHears ==
  ASSUME GeminiAssumption, HearingInv, NEW matched \in {"none", "shown", "foreign"},
         NEW items \in Consolidated, AnswerFits(matched, items)
  PROVE  HearingInv'
<1> DEFINE c == consulting
           p == c.prompts
<1>1. c.step = "asking" /\ Hears(c) /\ c \in Consultings
  <2>1. c.step = "asking"
    BY DEF AnswerFits, Awaiting
  <2>2. c # NotConsulting
    BY <2>1 DEF NotConsulting
  <2> QED BY <2>1, <2>2 DEF HearingInv, Hears
<1>2. usage' \in [tokens: Nat, calls: Nat] /\ answered' \in Nat /\ usage'.tokens = answered'
  <2>1. /\ usage.tokens \in Nat /\ usage.calls \in Nat /\ answered \in Nat /\ usage.tokens = answered
    BY DEF HearingInv
  <2>2. usage' = [tokens |-> usage.tokens + 1, calls |-> usage.calls + 1] /\ answered' = answered + 1
    BY DEF AnswerFits, Counted
  <2> QED BY <2>1, <2>2
<1> DEFINE next == [c EXCEPT !.heard = Append(@, p[c.at]), !.attempt = 0, !.repairing = FALSE]
<1>3. c' = IF c.at # Len(p) THEN [next EXCEPT !.at = @ + 1]
           ELSE [next EXCEPT !.step = "returned", !.verdict = VerdictOf(matched),
                   !.said = items,
                   !.tasks = IF p[c.at].about = "consolidate" THEN Dedupe(items) ELSE items]
  BY DEF AnswerFits, IsLast, Current
<1>4. /\ p \in Seq(Prompts) /\ c.at \in 1..Len(p) /\ Len(p) \in Nat /\ p[c.at] \in Prompts
      /\ c.kind = "analyze" => p = AnalyzePrompts(c.transcript)
      /\ c.heard = SubSeq(p, 1, c.at - 1) /\ c.heard \in Seq(Prompts)
  <2>1. p \in Seq(Prompts) /\ c.heard \in Seq(Prompts) /\ c.at \in DOMAIN p
    BY <1>1, ConsultingFields DEF Hears
  <2>2. DOMAIN p = 1..Len(p) /\ Len(p) \in Nat
    BY <2>1, LenProperties
  <2>3. p[c.at] \in Prompts
    BY <2>1, <2>2, ElementOfSeq
  <2> QED BY <1>1, <2>1, <2>2, <2>3 DEF Hears
<1>5. Append(c.heard, p[c.at]) = SubSeq(p, 1, c.at) /\ Append(c.heard, p[c.at]) \in Seq(Prompts)
  <2> HIDE DEF c, p
  <2>1. 1 \in 1..Len(p) /\ c.at \in 1..Len(p)
    BY <1>4
  <2>2. SubSeq(p, 1, c.at) = SubSeq(p, 1, c.at - 1) \o <<p[c.at]>>
    BY <1>4, <2>1, SubSeqRecursiveSecond
  <2>3. Append(c.heard, p[c.at]) = c.heard \o <<p[c.at]>>
    BY <1>4, AppendIsConcat
  <2> QED BY <1>4, <2>2, <2>3, AppendProperties
<1>6. /\ next \in Consultings /\ next.heard = SubSeq(p, 1, c.at)
      /\ next.at = c.at /\ next.prompts = p /\ next.kind = c.kind /\ next.transcript = c.transcript
      /\ next.step = "asking"
  <2>1. 0 \in 0..MaxRetries
    BY DEF GeminiAssumption
  <2>2. next = [step |-> c.step, kind |-> c.kind, transcript |-> c.transcript, prompts |-> p,
                at |-> c.at, attempt |-> 0, repairing |-> FALSE, heard |-> Append(c.heard, p[c.at]),
                verdict |-> c.verdict, said |-> c.said, tasks |-> c.tasks]
    <3> DEFINE longer == Append(c.heard, p[c.at])
    <3>1. next = [c EXCEPT !.heard = longer, !.attempt = 0, !.repairing = FALSE]
      OBVIOUS
    <3> HIDE DEF longer, c, p, next
    <3>2. p = c.prompts
      BY DEF p
    <3>3. next = [step |-> c.step, kind |-> c.kind, transcript |-> c.transcript, prompts |-> c.prompts,
                  at |-> c.at, attempt |-> 0, repairing |-> FALSE, heard |-> longer,
                  verdict |-> c.verdict, said |-> c.said, tasks |-> c.tasks]
      BY <1>1, <3>1 DEF Consultings
    <3> QED BY <3>2, <3>3 DEF longer
  <2> HIDE DEF next, c
  <2>3. next \in Consultings
    BY <1>1, <1>5, <2>1, <2>2, ConsultingFields DEF Consultings
  <2> QED BY <1>1, <1>5, <2>2, <2>3
<1> HIDE DEF next
<1> DEFINE d == c'
<1>7. d = IF c.at # Len(p) THEN [next EXCEPT !.at = @ + 1]
          ELSE [next EXCEPT !.step = "returned", !.verdict = VerdictOf(matched),
                  !.said = items,
                  !.tasks = IF p[c.at].about = "consolidate" THEN Dedupe(items) ELSE items]
  BY <1>3
<1>8. SUFFICES Hears(d)
  BY <1>2 DEF HearingInv
<1> HIDE DEF c, p, d
<1>9. CASE c.at # Len(p)
  <2>1. d = [next EXCEPT !.at = @ + 1]
    BY <1>7, <1>9
  <2>2. c.at + 1 \in 1..Len(p) /\ (c.at + 1) - 1 = c.at
    BY <1>4, <1>9
  <2>3. d = [step |-> next.step, kind |-> next.kind, transcript |-> next.transcript,
             prompts |-> next.prompts, at |-> next.at + 1, attempt |-> next.attempt,
             repairing |-> next.repairing, heard |-> next.heard, verdict |-> next.verdict,
             said |-> next.said, tasks |-> next.tasks]
    BY <1>6, <2>1 DEF Consultings
  <2>4. d \in Consultings
    BY <1>6, <2>2, <2>3, ConsultingFields DEF Consultings
  <2>5. /\ d.step = "asking" /\ d.at = c.at + 1 /\ d.prompts = p /\ d.kind = c.kind
        /\ d.transcript = c.transcript /\ d.heard = SubSeq(p, 1, c.at)
    BY <1>6, <2>3
  <2>6. d.at \in DOMAIN p
    BY <1>4, <2>2, <2>5, LenProperties
  <2> QED BY <1>4, <2>2, <2>4, <2>5, <2>6 DEF Hears
<1>10. CASE c.at = Len(p)
  <2> DEFINE made == IF p[c.at].about = "consolidate" THEN Dedupe(items) ELSE items
  <2>1. items \in Seq(HeardTask)
    BY DEF GeminiAssumption
  <2>2. made \in Seq(HeardTask) /\ (p[c.at].about = "consolidate" => made = Dedupe(items))
    BY <2>1, DedupeConsolidates
  <2>3. VerdictOf(matched) \in Verdicts
    BY DEF VerdictOf, Verdicts
  <2>4. d = [next EXCEPT !.step = "returned", !.verdict = VerdictOf(matched), !.said = items,
               !.tasks = made]
    BY <1>7, <1>10
  <2> HIDE DEF made
  <2>5. d = [step |-> "returned", kind |-> next.kind, transcript |-> next.transcript,
             prompts |-> next.prompts, at |-> next.at, attempt |-> next.attempt,
             repairing |-> next.repairing, heard |-> next.heard, verdict |-> VerdictOf(matched),
             said |-> items, tasks |-> made]
    BY <1>6, <2>4 DEF Consultings
  <2>6. d \in Consultings
    BY <1>6, <2>1, <2>2, <2>3, <2>5, ConsultingFields DEF Consultings
  <2>7. /\ d.step = "returned" /\ d.at = c.at /\ d.prompts = p /\ d.kind = c.kind
        /\ d.transcript = c.transcript /\ d.heard = SubSeq(p, 1, c.at)
        /\ d.said = items /\ d.tasks = made
    BY <1>6, <2>5
  <2>8. d.heard = p
    BY <1>4, <1>10, <2>7, SubSeqFull
  <2>9. d.at \in DOMAIN p
    BY <1>4, <2>7, LenProperties
  <2> QED BY <1>4, <1>10, <2>2, <2>6, <2>7, <2>8, <2>9 DEF Hears
<1> QED BY <1>9, <1>10

LEMMA HearingKeeps == HearingInv /\ [GeminiNext]_geminiVars => HearingInv'
<1> SUFFICES ASSUME HearingInv, [GeminiNext]_geminiVars PROVE HearingInv'
  OBVIOUS
<1>1. GeminiAssumption
  BY GeminiAssumption
<1>2. ASSUME NEW kind \in {"analyze", "reconcile", "digest"}, NEW t \in Transcripts,
             BeginConsulting(kind, t)
      PROVE  HearingInv'
  BY <1>1, <1>2, BeginningHears
<1>3. ASSUME NEW matched \in {"none", "shown", "foreign"}, NEW items \in Consolidated,
             AnswerFits(matched, items)
      PROVE  HearingInv'
  BY <1>1, <1>3, HeardHears
<1>4. CASE AnswerMisfits \/ AnswerEmpty \/ Unanswered \/ Denied
  <2>1. Awaiting
    BY <1>4 DEF AnswerMisfits, AnswerEmpty, Unanswered, Denied
  <2> QED BY <1>1, <1>4, <2>1, UnheardHears
<1>5. CASE UNCHANGED geminiVars
  BY <1>5 DEF geminiVars, HearingInv
<1> QED BY <1>2, <1>3, <1>4, <1>5 DEF GeminiNext

LEMMA HearingHolds == GeminiSpec => []HearingInv
<1>1. GeminiInit => HearingInv
  BY DEF GeminiInit, HearingInv, NoUsage
<1> QED BY <1>1, HearingKeeps, PTL DEF GeminiSpec

(* The adapter keeps the types of what it is asked.                         *)
THEOREM GeminiTypesHold == GeminiSpec => []GeminiTypeOK
<1>1. HearingInv => GeminiTypeOK
  <2> SUFFICES ASSUME HearingInv PROVE GeminiTypeOK
    OBVIOUS
  <2>1. CASE consulting = NotConsulting
    <3>1. consulting.step = "idle"
      BY <2>1 DEF NotConsulting
    <3> QED BY <3>1 DEF HearingInv, GeminiTypeOK
  <2>2. CASE consulting # NotConsulting
    <3>1. Hears(consulting)
      BY <2>2 DEF HearingInv
    <3> DEFINE c == consulting
    <3>2. c \in Consultings /\ c.at \in DOMAIN c.prompts
      BY <3>1 DEF Hears
    <3>3. /\ c.step \in {"asking", "returned", "failed"} /\ c.kind \in {"analyze", "reconcile", "digest"}
          /\ c.transcript \in Transcripts /\ c.attempt \in 0..MaxRetries /\ c.repairing \in BOOLEAN
          /\ c.verdict \in Verdicts /\ c.tasks \in Seq(HeardTask)
      BY <3>2, ConsultingFields
    <3> QED BY <3>2, <3>3 DEF HearingInv, GeminiTypeOK
  <2> QED BY <2>1, <2>2
<1> QED BY <1>1, HearingHolds, PTL

(* Whatever a transcript is long, and whatever is retried and repaired: an  *)
(* analysis that returns has had every segment of it heard once, in order,  *)
(* in blocks of the size allowed; its tasks are one for each topic the      *)
(* model named, and its usage that of every answer (analyzer.ts).           *)
THEOREM AllIsAlwaysHeard == GeminiSpec => []HeardWhole
<1>1. ASSUME HearingInv PROVE HeardWhole
  <2> DEFINE c == consulting
  <2> SUFFICES ASSUME c.step = "returned", c.kind = "analyze" PROVE HeardWhole
    BY DEF HeardWhole
  <2>1. c # NotConsulting
    BY DEF NotConsulting
  <2>2. /\ c \in Consultings /\ c.at \in DOMAIN c.prompts
        /\ c.prompts = AnalyzePrompts(c.transcript) /\ c.heard = c.prompts
        /\ c.prompts[Len(c.prompts)].about = "consolidate" => c.tasks = Dedupe(c.said)
        /\ usage.tokens = answered
    BY <1>1, <2>1 DEF HearingInv, Hears
  <2>3. c.transcript \in Seq(Segment) /\ c.said \in Seq(HeardTask)
    BY <2>2, ConsultingFields, GeminiAssumption DEF GeminiAssumption
  <2> DEFINE heard == c.heard
             several == Len(heard) > 1
             blocks == IF several THEN Front(heard) ELSE heard
  <2>4. AskedWhole(heard, c.transcript) /\ (several => heard[Len(heard)].about = "consolidate")
    BY <2>2, <2>3, AnalysisAsksWhole, GeminiAssumption
  <2>5. several => ConsolidatesWell(c.tasks, c.said)
    BY <2>2, <2>3, <2>4, DedupeConsolidates
  <2>6. /\ \A i \in DOMAIN blocks : blocks[i].about = "transcript"
        /\ FlattenSeq([i \in DOMAIN blocks |-> blocks[i].segments]) = c.transcript
        /\ {i \in DOMAIN blocks : blocks[i].notes} = {1}
        /\ several => \A i \in DOMAIN blocks : FitsBlock(blocks[i].segments)
    BY <2>4 DEF AskedWhole
  <2>7. several => \A i \in DOMAIN blocks :
          Len(blocks[i].segments) > 1 =>
            FoldLeft(LAMBDA n, s : n + SizeOf(s), 0, blocks[i].segments) <= BlockSize
    BY <2>6 DEF FitsBlock, TotalOf
  <2> QED BY <2>2, <2>5, <2>6, <2>7 DEF HeardWhole, ConsolidatesWell
<1> QED BY <1>1, HearingHolds, PTL

=============================================================================
