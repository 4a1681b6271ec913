----------------------- MODULE PipelineOwnershipProofs -----------------------
(***************************************************************************)
(* A meeting in the middle of the pipeline is never orphaned, for any      *)
(* number of meetings, jobs, attempts, notices and crashes, as long as all *)
(* meetings are hosted here and users only ask for reprocessing.  The      *)
(* three things excluded do orphan one: a meeting of another company is    *)
(* closed without a look at its status, a saved edit brings an old status  *)
(* back, and an import whose process dies never sends its job.             *)
(*                                                                         *)
(* Ownership is claimed of the jobs and the dead letters alone: a request  *)
(* about to send an analysis may die, and then nothing is left of it.      *)
(***************************************************************************)
EXTENDS MeetingPipelineProofs

OwnPeople == External = {} /\ Ops \subseteq {"reprocess"}

FetchOwns(job, m) ==
  job # None /\ job.meeting = m /\ job.step \notin {"closing", "finished"}

AnalysisOwns(job, m) == job # None /\ job.meeting = m /\ job.step # "finished"

Kept(m) ==
  \/ \E j \in Fetches : FetchOwns(fetches[j], m)
  \/ \E j \in Analyses : AnalysisOwns(analyses[j], m)
  \/ m \in dead

(* Nobody excludes a meeting, so no analysis skips one and no row says so.  *)
FetchPlain(job) == job # None => job.step # "closing"
AnalysisPlain(job) ==
  job # None => job.step # "skipping" /\ (job.row # None => ~job.row.excluded)
RequestPlain(request) == request # None => request.step # "update"

NothingExcluded ==
  /\ \A m \in Meetings : Known(m) => ~meetings[m].excluded
  /\ \A j \in Fetches : FetchPlain(fetches[j])
  /\ \A j \in Analyses : AnalysisPlain(analyses[j])
  /\ \A r \in Requests : RequestPlain(requests[r])

InFlightIsKept == \A m \in Meetings : InFlight(m) => Kept(m)

OwnInv == IInv /\ NothingExcluded /\ InFlightIsKept

(* What a step may do to the owner of a meeting: take it along, bury it, or *)
(* end with the meeting settled.                                            *)
OwnedStep ==
  /\ NothingExcluded'
  /\ \A m \in Meetings : Kept(m) => Kept(m)' \/ ~InFlight(m)'
  /\ \A m \in Meetings : InFlight(m)' => InFlight(m) \/ Kept(m)'

LEMMA OwnedStepsKeep ==
  ASSUME InFlightIsKept, OwnedStep
  PROVE  NothingExcluded' /\ InFlightIsKept'
BY DEF InFlightIsKept, OwnedStep

----------------------------------------------------------------------------
(* What one write does to the meetings that show as in flight.              *)

LEMMA Untouched ==
  ASSUME meetings' = meetings
  PROVE  /\ \A m \in Meetings : InFlight(m)' = InFlight(m)
         /\ (\A m \in Meetings : Known(m) => ~meetings[m].excluded)
              => (\A m \in Meetings : Known(m) => ~meetings[m].excluded)'
BY DEF InFlight, Known

LEMMA Written ==
  ASSUME TypeOK, NEW n \in Meetings, NEW row \in Row, Write(n, row)
  PROVE  /\ \A m \in Meetings \ {n} : InFlight(m)' = InFlight(m)
         /\ InFlight(n)' <=> row.status \in {"INGESTED", "ANALYZING"}
         /\ (\A m \in Meetings : Known(m) => ~meetings[m].excluded) /\ ~row.excluded
              => (\A m \in Meetings : Known(m) => ~meetings[m].excluded)'
BY NoneIsNoMeeting DEF InFlight, Known, Write, TypeOK

LEMMA StatusWritten ==
  ASSUME TypeOK, NEW n \in Meetings, Known(n), NEW status \in ProcessingStatus,
         WriteStatus(n, status)
  PROVE  /\ \A m \in Meetings \ {n} : InFlight(m)' = InFlight(m)
         /\ InFlight(n)' <=> status \in {"INGESTED", "ANALYZING"}
         /\ (\A m \in Meetings : Known(m) => ~meetings[m].excluded)
              => (\A m \in Meetings : Known(m) => ~meetings[m].excluded)'
<1>1. meetings[n] \in Row
  BY DEF TypeOK, Known
<1>2. PICK row \in Row : row = [meetings[n] EXCEPT !.status = status]
  BY <1>1 DEF Row
<1>3. row.status = status /\ row.excluded = meetings[n].excluded
  BY <1>1, <1>2 DEF Row
<1>4. Write(n, row)
  BY <1>1, <1>2 DEF Write, WriteStatus, TypeOK
<1> QED BY <1>3, <1>4, Written

(* A fetch moves: what it owned it still owns, unless it went on without.   *)
LEMMA FetchMoved ==
  ASSUME TypeOK, NEW j \in Fetches, NEW job, fetches' = [fetches EXCEPT ![j] = job],
         \A i \in Analyses, m \in Meetings :
           AnalysisOwns(analyses[i], m) => AnalysisOwns(analyses[i], m)',
         dead \subseteq dead',
         \A i \in Fetches : FetchPlain(fetches[i]), FetchPlain(job)
  PROVE  /\ (\A i \in Fetches : FetchPlain(fetches[i]))'
         /\ \A m \in Meetings : Kept(m) /\ ~FetchOwns(fetches[j], m) => Kept(m)'
         /\ \A m \in Meetings : FetchOwns(job, m) => Kept(m)'
<1>1. /\ fetches'[j] = job
      /\ \A i \in Fetches \ {j} : fetches'[i] = fetches[i]
  BY DEF TypeOK
<1>2. (\A i \in Fetches : FetchPlain(fetches[i]))'
  BY <1>1 DEF FetchPlain
<1>3. ASSUME NEW m \in Meetings, Kept(m), ~FetchOwns(fetches[j], m) PROVE Kept(m)'
  <2>1. \A i \in Fetches : FetchOwns(fetches[i], m) => FetchOwns(fetches[i], m)'
    BY <1>1, <1>3 DEF FetchOwns
  <2> QED BY <1>3, <2>1 DEF Kept
<1>4. ASSUME NEW m \in Meetings, FetchOwns(job, m) PROVE Kept(m)'
  BY <1>1, <1>4 DEF FetchOwns, Kept
<1> QED BY <1>2, <1>3, <1>4

LEMMA AnalysisMoved ==
  ASSUME TypeOK, NEW j \in Analyses, NEW job, analyses' = [analyses EXCEPT ![j] = job],
         \A i \in Fetches, m \in Meetings :
           FetchOwns(fetches[i], m) => FetchOwns(fetches[i], m)' \/ Kept(m)',
         dead \subseteq dead',
         \A i \in Analyses : AnalysisPlain(analyses[i]), AnalysisPlain(job)
  PROVE  /\ (\A i \in Analyses : AnalysisPlain(analyses[i]))'
         /\ \A m \in Meetings : Kept(m) /\ ~AnalysisOwns(analyses[j], m) => Kept(m)'
         /\ \A m \in Meetings : AnalysisOwns(job, m) => Kept(m)'
<1>1. /\ analyses'[j] = job
      /\ \A i \in Analyses \ {j} : analyses'[i] = analyses[i]
  BY DEF TypeOK
<1>2. (\A i \in Analyses : AnalysisPlain(analyses[i]))'
  BY <1>1 DEF AnalysisPlain
<1>3. ASSUME NEW m \in Meetings, Kept(m), ~AnalysisOwns(analyses[j], m) PROVE Kept(m)'
  <2>1. \A i \in Analyses : AnalysisOwns(analyses[i], m) => AnalysisOwns(analyses[i], m)'
    BY <1>1, <1>3 DEF AnalysisOwns
  <2> QED BY <1>3, <2>1 DEF Kept
<1>4. ASSUME NEW m \in Meetings, AnalysisOwns(job, m) PROVE Kept(m)'
  BY <1>1, <1>4 DEF AnalysisOwns, Kept
<1> QED BY <1>2, <1>3, <1>4
----------------------------------------------------------------------------
(* Each action is an owned step.                                            *)

(* A job with attempts left is queued again for the same meeting.           *)
LEMMA RetriedAgain ==
  ASSUME NEW Steps, "queued" \in Steps, NEW job \in Job(Steps), job.attempt < MaxAttempts,
         None \notin Job(Steps)
  PROVE  /\ Retried(job) # None /\ Retried(job).step = "queued"
         /\ Retried(job).meeting = job.meeting /\ Retried(job).row = None
<1> DEFINE next == [job EXCEPT !.step = "queued", !.row = None, !.attempt = @ + 1]
<1>1. job.attempt + 1 \in 1..MaxAttempts
  BY PipelineAssumption DEF Job
<1>2. next \in Job(Steps) /\ next.step = "queued" /\ next.meeting = job.meeting /\ next.row = None
  BY <1>1 DEF Job
<1>3. Retried(job) = next
  BY DEF Retried
<1> QED BY <1>2, <1>3

LEMMA FetchIsOwned ==
  ASSUME OwnInv, OwnPeople, NEW j \in Fetches, Fetch(j)
  PROVE  OwnedStep
<1>1. fetches[j] # None
  BY DEF Fetch, FetchStart, FetchDefers, FetchGivesUp, FetchUnreachable, FetchCloses,
         IngestRead, IngestCommit, EnqueueAnalysis, FetchBreaks, FetchAt
<1>n. PICK n \in Meetings : n = fetches[j].meeting
  BY <1>1, JobHolds DEF OwnInv
<1>2. /\ TypeOK /\ fetches[j] \in Job(FetchSteps) /\ n = fetches[j].meeting
      /\ meetings[n] \in Row /\ Known(n)
  BY <1>1, <1>n, JobHolds DEF OwnInv, IInv
<1>3. NothingExcluded /\ InFlightIsKept
  BY DEF OwnInv
<1>4. ~FetchUnreachable(j) /\ ~FetchCloses(j)
  BY <1>1, <1>3 DEF OwnPeople, FetchUnreachable, FetchCloses, FetchAt, NothingExcluded, FetchPlain
<1>5. requests' = requests /\ dead \subseteq dead'
  BY DEF Fetch, FetchStart, FetchDefers, FetchGivesUp, FetchUnreachable, FetchCloses,
         IngestRead, IngestCommit, EnqueueAnalysis, FetchBreaks, ThrowFetch, Buried
<1>6. (\A r \in Requests : RequestPlain(requests[r]))'
  BY <1>3, <1>5 DEF NothingExcluded, RequestPlain
<1>7. analyses' = analyses =>
        /\ (\A i \in Analyses : AnalysisPlain(analyses[i]))'
        /\ \A i \in Analyses, m \in Meetings :
             AnalysisOwns(analyses[i], m) => AnalysisOwns(analyses[i], m)'
  BY <1>3 DEF NothingExcluded, AnalysisPlain, AnalysisOwns
<1>8. ASSUME NEW job, fetches' = [fetches EXCEPT ![j] = job], analyses' = analyses,
             FetchPlain(job), FetchOwns(job, n) \/ n \in dead' \/ ~InFlight(n)',
             \/ meetings' = meetings
             \/ \E status \in ProcessingStatus :
                  /\ WriteStatus(n, status)
                  /\ status \in {"INGESTED", "ANALYZING"} => FetchOwns(job, n)
      PROVE  OwnedStep
  <2>1. /\ (\A i \in Fetches : FetchPlain(fetches[i]))'
        /\ \A m \in Meetings : Kept(m) /\ ~FetchOwns(fetches[j], m) => Kept(m)'
        /\ \A m \in Meetings : FetchOwns(job, m) => Kept(m)'
    BY <1>2, <1>3, <1>5, <1>7, <1>8, FetchMoved DEF NothingExcluded
  <2>2. \A m \in Meetings : FetchOwns(fetches[j], m) => m = n
    BY <1>2 DEF FetchOwns
  <2>3. \A m \in dead' : Kept(m)'
    BY DEF Kept
  <2>4. \A m \in Meetings : Kept(m) => Kept(m)' \/ ~InFlight(m)'
    <3>1. ASSUME NEW m \in Meetings, Kept(m), FetchOwns(fetches[j], m)
          PROVE  Kept(m)' \/ ~InFlight(m)'
      <4>1. m = n
        BY <2>2, <3>1
      <4> QED BY <1>2, <1>8, <2>1, <2>3, <4>1
    <3> QED BY <2>1, <3>1
  <2>5. /\ (\A m \in Meetings : Known(m) => ~meetings[m].excluded)'
        /\ \A m \in Meetings : InFlight(m)' => InFlight(m) \/ Kept(m)'
    <3>1. CASE meetings' = meetings
      BY <3>1, <1>3, Untouched DEF NothingExcluded
    <3>2. CASE \E status \in ProcessingStatus :
                 /\ WriteStatus(n, status)
                 /\ status \in {"INGESTED", "ANALYZING"} => FetchOwns(job, n)
      BY <3>2, <1>2, <1>3, <2>1, StatusWritten DEF NothingExcluded
    <3> QED BY <1>8, <3>1, <3>2
  <2> QED BY <1>6, <1>7, <1>8, <2>1, <2>4, <2>5 DEF OwnedStep, NothingExcluded
<1>9. ASSUME ThrowFetch(j), analyses' = analyses,
             meetings' = meetings \/ WriteStatus(n, "FAILED")
      PROVE  OwnedStep
  <2> DEFINE job == Retried(fetches[j])
  <2>1. FetchPlain(job) /\ (FetchOwns(job, n) \/ n \in dead')
    <3>1. CASE fetches[j].attempt < MaxAttempts
      <4>1. job # None /\ job.step = "queued" /\ job.meeting = n
        BY <1>2, <3>1, RetriedAgain, NoneIsNoJob DEF FetchSteps
      <4> QED BY <4>1 DEF FetchPlain, FetchOwns
    <3>2. CASE ~(fetches[j].attempt < MaxAttempts)
      BY <1>2, <1>9, <3>2 DEF Retried, Buried, ThrowFetch, FetchPlain
    <3> QED BY <3>1, <3>2
  <2>2. fetches' = [fetches EXCEPT ![j] = job]
    BY <1>9 DEF ThrowFetch
  <2> QED BY <1>8, <1>9, <2>1, <2>2 DEF ProcessingStatus
<1>10. ASSUME NEW step \in FetchSteps, NEW row \in Row \cup {None},
              FetchTo(j, step, row), analyses' = analyses, step \notin {"closing", "finished"},
              meetings' = meetings \/ \E status \in ProcessingStatus : WriteStatus(n, status)
       PROVE  OwnedStep
  <2> DEFINE job == [fetches[j] EXCEPT !.step = step, !.row = row]
  <2>1. fetches' = [fetches EXCEPT ![j] = job]
    BY <1>2, <1>10 DEF FetchTo, TypeOK
  <2>2. FetchPlain(job) /\ FetchOwns(job, n)
    <3>1. job \in Job(FetchSteps) /\ job.step = step /\ job.meeting = n
      BY <1>2, <1>10 DEF Job
    <3>2. job # None
      BY <3>1, NoneIsNoJob
    <3> QED BY <1>10, <3>1, <3>2 DEF FetchPlain, FetchOwns
  <2> QED BY <1>8, <1>10, <2>1, <2>2
<1>11. CASE FetchStart(j)
  <2>1. n \in Meetings /\ meetings' = meetings /\ analyses' = analyses
    BY <1>2, <1>11 DEF FetchStart, data
  <2>2. CASE meetings[n].excluded /\ meetings[n].status = "EXCLUDED"
    BY <1>2, <1>3, <2>2 DEF NothingExcluded
  <2>3. CASE ~(meetings[n].excluded /\ meetings[n].status = "EXCLUDED")
    <3>1. PICK step \in {"calling", "unlinked"} : FetchTo(j, step, None)
      BY <1>2, <1>11, <2>3 DEF FetchStart
    <3> QED BY <1>10, <2>1, <3>1 DEF FetchSteps
  <2> QED BY <2>2, <2>3
<1>12. CASE FetchDefers(j)
  BY <1>9, <1>12 DEF FetchDefers, data
<1>13. CASE FetchGivesUp(j)
  <2>1. CASE FetchTo(j, "finished", None)
    <3> DEFINE job == [fetches[j] EXCEPT !.step = "finished", !.row = None]
    <3>1. fetches' = [fetches EXCEPT ![j] = job] /\ FetchPlain(job)
      BY <1>2, <2>1 DEF FetchTo, TypeOK, FetchPlain, Job
    <3>2. analyses' = analyses
      BY <1>13 DEF FetchGivesUp
    <3>3. PICK status \in ProcessingStatus :
            WriteStatus(n, status) /\ status \notin {"INGESTED", "ANALYZING"}
      BY <1>2, <1>13 DEF FetchGivesUp, ProcessingStatus
    <3>4. ~InFlight(n)'
      BY <1>2, <3>2, <3>3, StatusWritten
    <3> QED BY <1>8, <3>1, <3>2, <3>3, <3>4
  <2>2. CASE ThrowFetch(j)
    BY <1>2, <1>9, <1>13, <2>2 DEF FetchGivesUp
  <2> QED BY <1>13, <2>1, <2>2 DEF FetchGivesUp
<1>14. CASE IngestRead(j)
  <2>1. PICK step \in {"deduplicating", "ingesting"} : FetchTo(j, step, meetings[n])
    BY <1>2, <1>14 DEF IngestRead
  <2> QED BY <1>2, <1>10, <1>14, <2>1 DEF IngestRead, data, FetchSteps
<1>15. CASE IngestCommit(j)
  <2>1. FetchTo(j, "ingested", None) /\ analyses' = analyses
    BY <1>2, <1>3, <1>15 DEF IngestCommit, NothingExcluded
  <2>2. PICK status \in {"INGESTED", meetings[n].status} : WriteStatus(n, status)
    BY <1>2, <1>3, <1>15 DEF IngestCommit, NothingExcluded
  <2>3. status \in ProcessingStatus
    BY <1>2, <2>2 DEF Row, ProcessingStatus
  <2> QED BY <1>10, <2>1, <2>2, <2>3 DEF FetchSteps
<1>16. CASE EnqueueAnalysis(j)
  <2>1. PICK i \in Analyses :
          analyses[i] = None /\ analyses' = [analyses EXCEPT ![i] = NewJob(n)]
    BY <1>2, <1>16 DEF EnqueueAnalysis, SendAnalysis
  <2>2. FetchTo(j, "finished", None) /\ meetings' = meetings /\ dead' = dead
    BY <1>16 DEF EnqueueAnalysis, data
  <2>3. /\ NewJob(n) # None /\ AnalysisPlain(NewJob(n)) /\ AnalysisOwns(NewJob(n), n)
    <3>1. NewJob(n) \in Job(AnalysisSteps)
      BY <1>2, PipelineAssumption DEF NewJob, Job, AnalysisSteps
    <3> QED BY <3>1, NoneIsNoJob DEF NewJob, AnalysisPlain, AnalysisOwns
  <2>4. /\ \A k \in Fetches \ {j} : fetches'[k] = fetches[k]
        /\ FetchPlain(fetches[j])'
    BY <1>2, <2>2 DEF FetchTo, TypeOK, FetchPlain, Job
  <2>5. /\ analyses'[i] = NewJob(n)
        /\ \A k \in Analyses \ {i} : analyses'[k] = analyses[k]
    BY <1>2, <2>1 DEF TypeOK
  <2>6. Kept(n)'
    BY <2>3, <2>5 DEF Kept, AnalysisOwns
  <2>7. ASSUME NEW m \in Meetings, Kept(m) PROVE Kept(m)'
    <3>1. CASE m = n
      BY <2>6, <3>1
    <3>2. CASE m # n
      <4>1. \A k \in Fetches : FetchOwns(fetches[k], m) => FetchOwns(fetches[k], m)'
        BY <1>2, <2>4, <3>2 DEF FetchOwns
      <4>2. \A k \in Analyses : AnalysisOwns(analyses[k], m) => AnalysisOwns(analyses[k], m)'
        BY <2>1, <2>5 DEF AnalysisOwns
      <4> QED BY <2>2, <2>7, <4>1, <4>2 DEF Kept
    <3> QED BY <3>1, <3>2
  <2>8. /\ (\A k \in Fetches : FetchPlain(fetches[k]))'
        /\ (\A k \in Analyses : AnalysisPlain(analyses[k]))'
    BY <1>3, <2>3, <2>4, <2>5 DEF NothingExcluded, FetchPlain, AnalysisPlain
  <2>9. /\ \A m \in Meetings : InFlight(m)' = InFlight(m)
        /\ (\A m \in Meetings : Known(m) => ~meetings[m].excluded)'
    BY <1>3, <2>2, Untouched DEF NothingExcluded
  <2> QED BY <1>6, <2>7, <2>8, <2>9 DEF OwnedStep, NothingExcluded
<1>17. CASE FetchBreaks(j)
  BY <1>2, <1>9, <1>17 DEF FetchBreaks
<1> QED BY <1>4, <1>11, <1>12, <1>13, <1>14, <1>15, <1>16, <1>17 DEF Fetch

LEMMA AnalyzeIsOwned ==
  ASSUME OwnInv, OwnPeople, NEW j \in Analyses, Analyze(j)
  PROVE  OwnedStep
<1>1. analyses[j] # None
  BY DEF Analyze, AnalysisStart, AnalysisSkips, ClaimRead, ClaimCommit, AnalysisBreaks,
         AnswerRead, SaveCommit, SaveBreaks, AnalysisAt
<1>n. PICK n \in Meetings : n = analyses[j].meeting
  BY <1>1, JobHolds DEF OwnInv
<1>2. /\ TypeOK /\ analyses[j] \in Job(AnalysisSteps) /\ n = analyses[j].meeting
      /\ meetings[n] \in Row /\ Known(n) /\ analyses[j].row \in Row \cup {None}
      /\ analyses[j].step \in {"claiming", "saving"} => analyses[j].row # None
  BY <1>1, <1>n, JobHolds DEF OwnInv, IInv, AnalysesOK, AnalysisOK
<1>3. NothingExcluded /\ InFlightIsKept
  BY DEF OwnInv
<1>4. ~AnalysisSkips(j)
  BY <1>1, <1>3 DEF AnalysisSkips, AnalysisAt, NothingExcluded, AnalysisPlain
<1>5. requests' = requests /\ fetches' = fetches /\ dead \subseteq dead'
  BY DEF Analyze, AnalysisStart, AnalysisSkips, ClaimRead, ClaimCommit, AnalysisBreaks,
         AnswerRead, SaveCommit, SaveBreaks, ThrowAnalysis, Buried
<1>6. /\ (\A r \in Requests : RequestPlain(requests[r]))'
      /\ (\A i \in Fetches : FetchPlain(fetches[i]))'
      /\ \A i \in Fetches, m \in Meetings :
           FetchOwns(fetches[i], m) => FetchOwns(fetches[i], m)'
  BY <1>3, <1>5 DEF NothingExcluded, RequestPlain, FetchPlain, FetchOwns
<1>7. ASSUME NEW job, analyses' = [analyses EXCEPT ![j] = job], AnalysisPlain(job),
             AnalysisOwns(job, n) \/ n \in dead' \/ ~InFlight(n)',
             \/ meetings' = meetings
             \/ \E row \in Row :
                  /\ Write(n, row) /\ ~row.excluded
                  /\ row.status \in {"INGESTED", "ANALYZING"} => AnalysisOwns(job, n)
      PROVE  OwnedStep
  <2>1. /\ (\A i \in Analyses : AnalysisPlain(analyses[i]))'
        /\ \A m \in Meetings : Kept(m) /\ ~AnalysisOwns(analyses[j], m) => Kept(m)'
        /\ \A m \in Meetings : AnalysisOwns(job, m) => Kept(m)'
    BY <1>2, <1>3, <1>5, <1>6, <1>7, AnalysisMoved DEF NothingExcluded
  <2>2. \A m \in Meetings : AnalysisOwns(analyses[j], m) => m = n
    BY <1>2 DEF AnalysisOwns
  <2>3. \A m \in dead' : Kept(m)'
    BY DEF Kept
  <2>4. \A m \in Meetings : Kept(m) => Kept(m)' \/ ~InFlight(m)'
    <3>1. ASSUME NEW m \in Meetings, Kept(m), AnalysisOwns(analyses[j], m)
          PROVE  Kept(m)' \/ ~InFlight(m)'
      <4>1. m = n
        BY <2>2, <3>1
      <4> QED BY <1>2, <1>7, <2>1, <2>3, <4>1
    <3> QED BY <2>1, <3>1
  <2>5. /\ (\A m \in Meetings : Known(m) => ~meetings[m].excluded)'
        /\ \A m \in Meetings : InFlight(m)' => InFlight(m) \/ Kept(m)'
    <3>1. CASE meetings' = meetings
      BY <3>1, <1>3, Untouched DEF NothingExcluded
    <3>2. CASE \E row \in Row :
                 /\ Write(n, row) /\ ~row.excluded
                 /\ row.status \in {"INGESTED", "ANALYZING"} => AnalysisOwns(job, n)
      BY <3>2, <1>2, <1>3, <2>1, Written DEF NothingExcluded
    <3> QED BY <1>7, <3>1, <3>2
  <2> QED BY <1>6, <2>1, <2>4, <2>5 DEF OwnedStep, NothingExcluded
<1>8. ASSUME NEW status \in ProcessingStatus, WriteStatus(n, status)
      PROVE  \E row \in Row : Write(n, row) /\ ~row.excluded /\ row.status = status
  <2>1. PICK row \in Row : row = [meetings[n] EXCEPT !.status = status]
    BY <1>2 DEF Row
  <2>2. row.status = status /\ row.excluded = meetings[n].excluded
    BY <1>2, <2>1 DEF Row
  <2> QED BY <1>2, <1>3, <1>8, <2>1, <2>2 DEF Write, WriteStatus, NothingExcluded, TypeOK
<1>9. ASSUME ThrowAnalysis(j), meetings' = meetings \/ WriteStatus(n, "FAILED")
      PROVE  OwnedStep
  <2> DEFINE job == Retried(analyses[j])
  <2>1. AnalysisPlain(job) /\ (AnalysisOwns(job, n) \/ n \in dead')
    <3>1. CASE analyses[j].attempt < MaxAttempts
      <4>1. job # None /\ job.step = "queued" /\ job.meeting = n /\ job.row = None
        BY <1>2, <3>1, RetriedAgain, NoneIsNoJob DEF AnalysisSteps
      <4> QED BY <4>1 DEF AnalysisPlain, AnalysisOwns
    <3>2. CASE ~(analyses[j].attempt < MaxAttempts)
      BY <1>2, <1>9, <3>2 DEF Retried, Buried, ThrowAnalysis, AnalysisPlain
    <3> QED BY <3>1, <3>2
  <2>2. analyses' = [analyses EXCEPT ![j] = job]
    BY <1>9 DEF ThrowAnalysis
  <2>3. CASE meetings' = meetings
    BY <1>7, <2>1, <2>2, <2>3
  <2>4. CASE WriteStatus(n, "FAILED")
    <3>1. PICK row \in Row : Write(n, row) /\ ~row.excluded /\ row.status = "FAILED"
      BY <1>8, <2>4 DEF ProcessingStatus
    <3> QED BY <1>7, <2>1, <2>2, <3>1
  <2> QED BY <1>9, <2>3, <2>4
<1>10. ASSUME NEW step \in AnalysisSteps, NEW row \in Row \cup {None}, AnalysisTo(j, step, row),
              step \notin {"skipping", "finished"}, row # None => ~row.excluded,
              meetings' = meetings \/ \E status \in ProcessingStatus : WriteStatus(n, status)
       PROVE  OwnedStep
  <2> DEFINE job == [analyses[j] EXCEPT !.step = step, !.row = row]
  <2>1. analyses' = [analyses EXCEPT ![j] = job]
    BY <1>2, <1>10 DEF AnalysisTo, TypeOK
  <2>2. AnalysisPlain(job) /\ AnalysisOwns(job, n)
    <3>1. job \in Job(AnalysisSteps) /\ job.step = step /\ job.meeting = n /\ job.row = row
      BY <1>2, <1>10 DEF Job
    <3>2. job # None
      BY <3>1, NoneIsNoJob
    <3> QED BY <1>10, <3>1, <3>2 DEF AnalysisPlain, AnalysisOwns
  <2> QED BY <1>7, <1>8, <1>10, <2>1, <2>2
<1>11. meetings[n] # None /\ ~meetings[n].excluded
  BY <1>2, <1>3 DEF NothingExcluded, Known
<1>12. CASE AnalysisStart(j)
  <2>1. AnalysisTo(j, "loaded", None) /\ meetings' = meetings
    BY <1>2, <1>11, <1>12 DEF AnalysisStart, data
  <2> QED BY <1>10, <2>1 DEF AnalysisSteps
<1>13. CASE ClaimRead(j)
  BY <1>2, <1>10, <1>11, <1>13 DEF ClaimRead, data, AnalysisSteps
<1>14. CASE ClaimCommit(j)
  BY <1>2, <1>10, <1>14 DEF ClaimCommit, AnalysisSteps, ProcessingStatus
<1>15. CASE AnalysisBreaks(j)
  BY <1>2, <1>9, <1>15 DEF AnalysisBreaks
<1>16. CASE AnswerRead(j)
  BY <1>2, <1>10, <1>11, <1>16 DEF AnswerRead, data, AnalysisSteps
<1>17. CASE SaveCommit(j)
  <2> DEFINE job == [analyses[j] EXCEPT !.step = "finished", !.row = None]
  <2>1. analyses' = [analyses EXCEPT ![j] = job] /\ AnalysisPlain(job)
    BY <1>2, <1>17 DEF SaveCommit, AnalysisTo, TypeOK, AnalysisPlain, Job
  <2>2. analyses[j].row \in Row /\ ~analyses[j].row.excluded
    BY <1>1, <1>2, <1>3, <1>17 DEF SaveCommit, AnalysisAt, NothingExcluded, AnalysisPlain
  <2>3. PICK outcome \in {"REVIEW_REQUIRED", "COMPLETED"} :
          Write(n, [analyses[j].row EXCEPT !.status = outcome])
    BY <1>2, <1>17 DEF SaveCommit
  <2>4. PICK row \in Row : row = [analyses[j].row EXCEPT !.status = outcome]
    BY <2>2 DEF Row, ProcessingStatus
  <2>5. Write(n, row) /\ ~row.excluded /\ row.status \notin {"INGESTED", "ANALYZING"}
    BY <2>2, <2>3, <2>4 DEF Row
  <2>6. ~InFlight(n)'
    BY <1>2, <2>5, Written
  <2> QED BY <1>7, <2>1, <2>5, <2>6
<1>18. CASE SaveBreaks(j)
  BY <1>9, <1>18 DEF SaveBreaks, data
<1> QED BY <1>4, <1>12, <1>13, <1>14, <1>15, <1>16, <1>17, <1>18 DEF Analyze

(* A step that leaves the jobs alone, or only sends new ones, takes no      *)
(* meeting from its owner.                                                  *)
JobsUntaken ==
  /\ \A j \in Fetches : fetches'[j] = fetches[j] \/ (fetches[j] = None /\ FetchPlain(fetches[j])')
  /\ \A j \in Analyses :
       analyses'[j] = analyses[j] \/ (analyses[j] = None /\ AnalysisPlain(analyses[j])')
  /\ dead' = dead

LEMMA JobsSent ==
  ASSUME TypeOK, NEW n \in Meetings, dead' = dead,
         fetches' = fetches \/ SendFetch(n), analyses' = analyses \/ SendAnalysis(n)
  PROVE  JobsUntaken
<1>1. FetchPlain(NewJob(n)) /\ AnalysisPlain(NewJob(n))
  BY DEF NewJob, FetchPlain, AnalysisPlain
<1>2. \A j \in Fetches : fetches'[j] = fetches[j] \/ (fetches[j] = None /\ fetches'[j] = NewJob(n))
  BY DEF TypeOK, SendFetch
<1>3. \A j \in Analyses :
        analyses'[j] = analyses[j] \/ (analyses[j] = None /\ analyses'[j] = NewJob(n))
  BY DEF TypeOK, SendAnalysis
<1> QED BY <1>1, <1>2, <1>3 DEF JobsUntaken, FetchPlain, AnalysisPlain

LEMMA UntakenIsKept ==
  ASSUME NothingExcluded, JobsUntaken
  PROVE  /\ (\A j \in Fetches : FetchPlain(fetches[j]))'
         /\ (\A j \in Analyses : AnalysisPlain(analyses[j]))'
         /\ \A m \in Meetings : Kept(m) => Kept(m)'
<1>1. (\A j \in Fetches : FetchPlain(fetches[j]))'
  BY DEF NothingExcluded, JobsUntaken, FetchPlain
<1>2. (\A j \in Analyses : AnalysisPlain(analyses[j]))'
  BY DEF NothingExcluded, JobsUntaken, AnalysisPlain
<1>3. ASSUME NEW m \in Meetings, Kept(m) PROVE Kept(m)'
  <2>1. \A j \in Fetches : FetchOwns(fetches[j], m) => FetchOwns(fetches[j], m)'
    BY DEF JobsUntaken, FetchOwns
  <2>2. \A j \in Analyses : AnalysisOwns(analyses[j], m) => AnalysisOwns(analyses[j], m)'
    BY DEF JobsUntaken, AnalysisOwns
  <2> QED BY <1>3, <2>1, <2>2 DEF Kept, JobsUntaken
<1> QED BY <1>1, <1>2, <1>3

(* A step of somebody who holds no job: it may write one meeting, but into  *)
(* no status in the middle of the pipeline.                                 *)
LEMMA BystandersOwnNothing ==
  ASSUME OwnInv, JobsUntaken,
         \/ meetings' = meetings
         \/ \E m \in Meetings, row \in Row :
              /\ Write(m, row) /\ ~row.excluded
              /\ row.status \in {"INGESTED", "ANALYZING"} => InFlight(m),
         \A r \in Requests : RequestPlain(requests[r])'
  PROVE  OwnedStep
<1>1. TypeOK /\ NothingExcluded
  BY DEF OwnInv, IInv
<1>2. /\ (\A m \in Meetings : Known(m) => ~meetings[m].excluded)'
      /\ \A m \in Meetings : InFlight(m)' => InFlight(m)
  <2>1. CASE meetings' = meetings
    BY <1>1, <2>1, Untouched DEF NothingExcluded
  <2>2. CASE \E m \in Meetings, row \in Row :
               /\ Write(m, row) /\ ~row.excluded
               /\ row.status \in {"INGESTED", "ANALYZING"} => InFlight(m)
    BY <1>1, <2>2, Written DEF NothingExcluded
  <2> QED BY <2>1, <2>2
<1> QED BY <1>1, <1>2, UntakenIsKept DEF OwnedStep, NothingExcluded

LEMMA AckIsOwned ==
  ASSUME OwnInv, Ack
  PROVE  OwnedStep
<1>1. TypeOK /\ NothingExcluded
  BY DEF OwnInv, IInv
<1>2. meetings' = meetings /\ dead' = dead /\ requests' = requests
  BY DEF Ack, data
<1>3. /\ \A j \in Fetches :
           fetches'[j] = fetches[j] \/ (FetchAt(j, "finished") /\ fetches'[j] = None)
      /\ \A j \in Analyses :
           analyses'[j] = analyses[j] \/ (AnalysisAt(j, "finished") /\ analyses'[j] = None)
  BY <1>1 DEF Ack, TypeOK
<1>4. \A m \in Meetings : Kept(m) => Kept(m)'
  <2>1. ASSUME NEW m \in Meetings, Kept(m) PROVE Kept(m)'
    <3>1. \A j \in Fetches : FetchOwns(fetches[j], m) => FetchOwns(fetches[j], m)'
      BY <1>3 DEF FetchOwns, FetchAt
    <3>2. \A j \in Analyses : AnalysisOwns(analyses[j], m) => AnalysisOwns(analyses[j], m)'
      BY <1>3 DEF AnalysisOwns, AnalysisAt
    <3> QED BY <1>2, <2>1, <3>1, <3>2 DEF Kept
  <2> QED BY <2>1
<1>5. NothingExcluded'
  <2>1. (\A m \in Meetings : Known(m) => ~meetings[m].excluded)'
    BY <1>1, <1>2, Untouched DEF NothingExcluded
  <2>2. (\A j \in Fetches : FetchPlain(fetches[j]))'
    BY <1>1, <1>3 DEF NothingExcluded, FetchPlain
  <2>3. (\A j \in Analyses : AnalysisPlain(analyses[j]))'
    BY <1>1, <1>3 DEF NothingExcluded, AnalysisPlain
  <2>4. (\A r \in Requests : RequestPlain(requests[r]))'
    BY <1>1, <1>2 DEF NothingExcluded, RequestPlain
  <2> QED BY <2>1, <2>2, <2>3, <2>4 DEF NothingExcluded
<1> QED BY <1>2, <1>4, <1>5, Untouched DEF OwnedStep

LEMMA CrashIsOwned ==
  ASSUME OwnInv, Crash
  PROVE  OwnedStep
<1>1. TypeOK /\ NothingExcluded
  BY DEF OwnInv, IInv
<1>2. meetings' = meetings /\ requests' = requests
  BY DEF Crash, data
<1>3. /\ (\A m \in Meetings : Known(m) => ~meetings[m].excluded)'
      /\ (\A r \in Requests : RequestPlain(requests[r]))'
      /\ \A m \in Meetings : InFlight(m)' = InFlight(m)
  BY <1>1, <1>2, Untouched DEF NothingExcluded, RequestPlain
<1>4. ASSUME NEW j \in Fetches, fetches[j] # None, ThrowFetch(j), analyses' = analyses
      PROVE  OwnedStep
  <2>1. fetches[j] \in Job(FetchSteps)
    BY <1>1, <1>4 DEF TypeOK
  <2>2. PICK job : job = Retried(fetches[j])
    OBVIOUS
  <2>3. FetchPlain(job) /\ (FetchOwns(job, fetches[j].meeting) \/ fetches[j].meeting \in dead')
    <3>1. CASE fetches[j].attempt < MaxAttempts
      <4>1. job # None /\ job.step = "queued" /\ job.meeting = fetches[j].meeting
        BY <2>1, <2>2, <3>1, RetriedAgain, NoneIsNoJob DEF FetchSteps
      <4> QED BY <4>1 DEF FetchPlain, FetchOwns
    <3>2. CASE ~(fetches[j].attempt < MaxAttempts)
      BY <1>4, <2>2, <3>2 DEF Retried, Buried, ThrowFetch, FetchPlain
    <3> QED BY <3>1, <3>2
  <2>4. fetches' = [fetches EXCEPT ![j] = job] /\ dead \subseteq dead'
    BY <1>4, <2>2 DEF ThrowFetch, Buried
  <2>5. /\ (\A i \in Fetches : FetchPlain(fetches[i]))'
        /\ \A m \in Meetings : Kept(m) /\ ~FetchOwns(fetches[j], m) => Kept(m)'
        /\ \A m \in Meetings : FetchOwns(job, m) => Kept(m)'
    <3>1. \A i \in Analyses, m \in Meetings :
            AnalysisOwns(analyses[i], m) => AnalysisOwns(analyses[i], m)'
      BY <1>4 DEF AnalysisOwns
    <3> QED BY <1>1, <2>3, <2>4, <3>1, FetchMoved DEF NothingExcluded
  <2>6. \A m \in Meetings : Kept(m) => Kept(m)'
    BY <2>3, <2>5 DEF FetchOwns, Kept
  <2>7. (\A i \in Analyses : AnalysisPlain(analyses[i]))'
    BY <1>1, <1>4 DEF NothingExcluded, AnalysisPlain
  <2> QED BY <1>3, <2>5, <2>6, <2>7 DEF OwnedStep, NothingExcluded
<1>5. ASSUME NEW j \in Analyses, analyses[j] # None, ThrowAnalysis(j), fetches' = fetches
      PROVE  OwnedStep
  <2>1. analyses[j] \in Job(AnalysisSteps)
    BY <1>1, <1>5 DEF TypeOK
  <2>2. PICK job : job = Retried(analyses[j])
    OBVIOUS
  <2>3. /\ AnalysisPlain(job)
        /\ AnalysisOwns(job, analyses[j].meeting) \/ analyses[j].meeting \in dead'
    <3>1. CASE analyses[j].attempt < MaxAttempts
      <4>1. job # None /\ job.step = "queued" /\ job.meeting = analyses[j].meeting /\ job.row = None
        BY <2>1, <2>2, <3>1, RetriedAgain, NoneIsNoJob DEF AnalysisSteps
      <4> QED BY <4>1 DEF AnalysisPlain, AnalysisOwns
    <3>2. CASE ~(analyses[j].attempt < MaxAttempts)
      BY <1>5, <2>2, <3>2 DEF Retried, Buried, ThrowAnalysis, AnalysisPlain
    <3> QED BY <3>1, <3>2
  <2>4. analyses' = [analyses EXCEPT ![j] = job] /\ dead \subseteq dead'
    BY <1>5, <2>2 DEF ThrowAnalysis, Buried
  <2>5. /\ (\A i \in Analyses : AnalysisPlain(analyses[i]))'
        /\ \A m \in Meetings : Kept(m) /\ ~AnalysisOwns(analyses[j], m) => Kept(m)'
        /\ \A m \in Meetings : AnalysisOwns(job, m) => Kept(m)'
    <3>1. \A i \in Fetches, m \in Meetings :
            FetchOwns(fetches[i], m) => FetchOwns(fetches[i], m)'
      BY <1>5 DEF FetchOwns
    <3> QED BY <1>1, <2>3, <2>4, <3>1, AnalysisMoved DEF NothingExcluded
  <2>6. \A m \in Meetings : Kept(m) => Kept(m)'
    BY <2>3, <2>5 DEF AnalysisOwns, Kept
  <2>7. (\A i \in Fetches : FetchPlain(fetches[i]))'
    BY <1>1, <1>5 DEF NothingExcluded, FetchPlain
  <2> QED BY <1>3, <2>5, <2>6, <2>7 DEF OwnedStep, NothingExcluded
<1> QED BY <1>4, <1>5 DEF Crash

(* Nobody edits or imports; a reprocessing only sends jobs and marks a      *)
(* failed meeting as waiting.                                               *)
LEMMA PeopleOwnNothing ==
  ASSUME OwnInv, OwnPeople, People
  PROVE  OwnedStep
<1>1. TypeOK /\ NothingExcluded
  BY DEF OwnInv, IInv
<1>2. PICK r \in Requests :
        \/ \E m \in Meetings : Reprocess(r, m)
        \/ RequestEnqueues(r) \/ RequestMarks(r) \/ Abandon(r)
  <2>1. \A r \in Requests : ~UpdateCommit(r)
    BY <1>1 DEF UpdateCommit, NothingExcluded, RequestPlain
  <2>2. \A r \in Requests, m \in Meetings : ~UpdateRead(r, m) /\ ~Import(r, m)
    BY DEF UpdateRead, Import, OwnPeople
  <2> QED BY <2>1, <2>2 DEF People
<1>3. CASE \E m \in Meetings : Reprocess(r, m)
  <2>1. PICK m \in Meetings : Reprocess(r, m)
    BY <1>3
  <2>2. meetings' = meetings /\ fetches' = fetches /\ analyses' = analyses /\ dead' = dead
    BY <2>1 DEF Reprocess, data, queues
  <2>3. \A q \in Requests : RequestPlain(requests[q])'
    BY <1>1, <2>1 DEF Reprocess, TypeOK, NothingExcluded, RequestPlain
  <2> QED BY <1>1, <2>1, <2>2, <2>3, JobsSent, BystandersOwnNothing
<1>4. CASE RequestEnqueues(r)
  <2>1. PICK m \in Meetings : m = requests[r].meeting
    BY <1>1, <1>4 DEF RequestEnqueues, TypeOK, Request
  <2>2. /\ meetings' = meetings /\ dead' = dead
        /\ fetches' = fetches \/ SendFetch(m)
        /\ analyses' = analyses \/ SendAnalysis(m)
    BY <1>4, <2>1 DEF RequestEnqueues, data, SendFetch, SendAnalysis
  <2>3. \A q \in Requests : RequestPlain(requests[q])'
    <3>1. requests[r] \in Request
      BY <1>1, <1>4 DEF RequestEnqueues, TypeOK
    <3>2. requests' = [requests EXCEPT ![r] = None] \/ requests' = [requests EXCEPT ![r].step = "mark"]
      BY <1>4 DEF RequestEnqueues
    <3> QED BY <1>1, <3>1, <3>2 DEF TypeOK, NothingExcluded, RequestPlain, Request
  <2> QED BY <1>1, <2>2, <2>3, JobsSent, BystandersOwnNothing
<1>5. CASE RequestMarks(r)
  <2>1. /\ requests[r] # None /\ requests' = [requests EXCEPT ![r] = None]
        /\ fetches' = fetches /\ analyses' = analyses /\ dead' = dead
        /\ WriteStatus(requests[r].meeting, "WAITING_FOR_ARTIFACTS")
    BY <1>5 DEF RequestMarks, queues
  <2>2. PICK m \in Meetings :
          m = requests[r].meeting /\ meetings[m] \in Row /\ Known(m)
    BY <2>1, JobHolds DEF OwnInv
  <2>3. PICK row \in Row : row = [meetings[m] EXCEPT !.status = "WAITING_FOR_ARTIFACTS"]
    BY <2>2 DEF Row, ProcessingStatus
  <2>4. Write(m, row) /\ ~row.excluded /\ row.status = "WAITING_FOR_ARTIFACTS"
    BY <1>1, <2>1, <2>2, <2>3 DEF Write, WriteStatus, Row, NothingExcluded, TypeOK
  <2>5. \A q \in Requests : RequestPlain(requests[q])'
    BY <1>1, <2>1 DEF TypeOK, NothingExcluded, RequestPlain
  <2> QED BY <1>1, <2>1, <2>4, <2>5, JobsSent, BystandersOwnNothing
<1>6. CASE Abandon(r)
  <2>1. meetings' = meetings /\ fetches' = fetches /\ analyses' = analyses /\ dead' = dead
    BY <1>6 DEF Abandon, data, queues
  <2>2. \A q \in Requests : RequestPlain(requests[q])'
    BY <1>1, <1>6 DEF Abandon, TypeOK, NothingExcluded, RequestPlain
  <2>3. JobsUntaken
    BY <2>1 DEF JobsUntaken
  <2> QED BY <2>1, <2>2, <2>3, BystandersOwnNothing
<1> QED BY <1>2, <1>3, <1>4, <1>5, <1>6

(* Google and the search for missed records write no status in the middle   *)
(* of the pipeline that was not there before.                               *)
LEMMA ArrivalsOwnNothing ==
  ASSUME OwnInv, Arrivals
  PROVE  OwnedStep
<1>1. TypeOK /\ NothingExcluded
  BY DEF OwnInv, IInv
<1>2. PICK m \in Meetings :
        \/ Discover(m) \/ ArtifactsReady(m) \/ ConferenceStarted(m)
        \/ ConferenceEnded(m) \/ FileGenerated(m) \/ Reconcile(m)
  BY DEF Arrivals
<1>3. /\ analyses' = analyses /\ dead' = dead /\ requests' = requests
      /\ fetches' = fetches \/ SendFetch(m)
  BY <1>2 DEF Discover, ArtifactsReady, ConferenceStarted, ConferenceEnded, FileGenerated,
              Reconcile, data, queues
<1>4. JobsUntaken /\ \A r \in Requests : RequestPlain(requests[r])'
  BY <1>1, <1>3, JobsSent DEF NothingExcluded, RequestPlain
<1>5. ASSUME NEW row \in Row, Write(m, row), ~row.excluded,
             row.status \in {"INGESTED", "ANALYZING"} => InFlight(m)
      PROVE  OwnedStep
  BY <1>4, <1>5, BystandersOwnNothing
<1>6. /\ Recorded(m) \in Row /\ ~Recorded(m).excluded
      /\ Recorded(m).status \in {"INGESTED", "ANALYZING"} => InFlight(m)
  <2>1. Known(m) => meetings[m] \in Row /\ ~meetings[m].excluded
    BY <1>1 DEF TypeOK, Known, NothingExcluded
  <2>2. CASE Known(m)
    BY <2>1, <2>2 DEF Recorded, Row, InFlight
  <2>3. CASE ~Known(m)
    BY <2>3 DEF Recorded, Row, ProcessingStatus
  <2> QED BY <2>2, <2>3
<1>7. ASSUME NEW status \in {Recorded(m).status, "WAITING_FOR_ARTIFACTS", "ARTIFACTS_AVAILABLE"},
             Write(m, [Recorded(m) EXCEPT !.status = status])
      PROVE  OwnedStep
  <2>1. status \in ProcessingStatus
    BY <1>6 DEF Row, ProcessingStatus
  <2>2. PICK row \in Row : row = [Recorded(m) EXCEPT !.status = status]
    BY <1>6, <2>1 DEF Row
  <2>3. row.status = status /\ ~row.excluded
    BY <1>6, <2>2 DEF Row
  <2> QED BY <1>5, <1>6, <1>7, <2>2, <2>3
<1>8. ASSUME NEW status \in {"WAITING_FOR_ARTIFACTS", "FAILED", "COMPLETED"}, Known(m),
             \/ WriteStatus(m, status)
             \/ Write(m, [meetings[m] EXCEPT !.linked = TRUE, !.status = status])
      PROVE  OwnedStep
  <2>1. meetings[m] \in Row /\ ~meetings[m].excluded /\ status \in ProcessingStatus
    BY <1>1, <1>8 DEF TypeOK, Known, NothingExcluded, ProcessingStatus
  <2>2. PICK row \in Row : Write(m, row) /\ row.status = status /\ ~row.excluded
    <3>1. CASE WriteStatus(m, status)
      <4>1. PICK row \in Row : row = [meetings[m] EXCEPT !.status = status]
        BY <2>1 DEF Row
      <4> QED BY <1>1, <2>1, <3>1, <4>1 DEF Row, Write, WriteStatus, TypeOK
    <3>2. CASE Write(m, [meetings[m] EXCEPT !.linked = TRUE, !.status = status])
      <4>1. PICK row \in Row : row = [meetings[m] EXCEPT !.linked = TRUE, !.status = status]
        BY <2>1 DEF Row
      <4> QED BY <2>1, <3>2, <4>1 DEF Row
    <3> QED BY <1>8, <3>1, <3>2
  <2> QED BY <1>5, <2>2
<1>9. CASE Discover(m)
  <2>1. PICK row \in Row : row = [status |-> "DISCOVERED", excluded |-> FALSE, linked |-> FALSE]
    BY DEF Row, ProcessingStatus
  <2> QED BY <1>5, <1>9, <2>1 DEF Discover
<1>10. CASE ArtifactsReady(m)
  BY <1>4, <1>10, BystandersOwnNothing DEF ArtifactsReady, data
<1>11. CASE ConferenceStarted(m)
  BY <1>5, <1>6, <1>11 DEF ConferenceStarted
<1>12. CASE ConferenceEnded(m)
  BY <1>7, <1>12 DEF ConferenceEnded
<1>13. CASE FileGenerated(m)
  BY <1>7, <1>13 DEF FileGenerated
<1>14. CASE Reconcile(m)
  BY <1>4, <1>8, <1>14, BystandersOwnNothing DEF Reconcile
<1> QED BY <1>2, <1>9, <1>10, <1>11, <1>12, <1>13, <1>14

----------------------------------------------------------------------------
(* Whatever fails, races, is repeated or crashes: a meeting that shows as   *)
(* ingested or being analysed has a job that will take it further, or one   *)
(* in a dead-letter queue, however many jobs the queues hold.               *)
THEOREM InFlightStaysOwned ==
  ASSUME OwnPeople
  PROVE  Spec => []InFlightIsOwned
<1>1. Init => NothingExcluded /\ InFlightIsKept
  BY DEF Init, NothingExcluded, InFlightIsKept, InFlight, Known, FetchPlain, AnalysisPlain,
         RequestPlain
<1>2. IInv /\ NothingExcluded /\ InFlightIsKept /\ [Next]_vars
        => (NothingExcluded /\ InFlightIsKept)'
  <2>1. ASSUME OwnInv, Next PROVE (NothingExcluded /\ InFlightIsKept)'
    <3>1. OwnedStep
      BY <2>1, FetchIsOwned, AnalyzeIsOwned, AckIsOwned, CrashIsOwned, PeopleOwnNothing,
         ArrivalsOwnNothing DEF Next
    <3> QED BY <2>1, <3>1, OwnedStepsKeep DEF OwnInv
  <2>2. ASSUME OwnInv, UNCHANGED vars PROVE (NothingExcluded /\ InFlightIsKept)'
    <3>1. JobsUntaken
      BY <2>2 DEF vars, JobsUntaken
    <3>2. OwnedStep
      BY <2>2, <3>1, BystandersOwnNothing DEF vars, OwnInv, NothingExcluded, RequestPlain
    <3> QED BY <2>2, <3>2, OwnedStepsKeep DEF OwnInv
  <2> QED BY <2>1, <2>2 DEF OwnInv
<1>3. InFlightIsKept => InFlightIsOwned
  BY DEF InFlightIsKept, Kept, FetchOwns, AnalysisOwns, InFlightIsOwned, Owned
<1> QED BY <1>1, <1>2, <1>3, PipelineInvariance, PTL DEF Spec
=============================================================================
