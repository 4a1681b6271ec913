------------------------ MODULE MeetingPipelineProofs ------------------------
(***************************************************************************)
(* For any number of meetings, jobs, requests, attempts and crashes: the   *)
(* pipeline keeps its types, and an analysis is only queued for a meeting  *)
(* whose transcript is stored, the only ones that show as past ingestion.  *)
(*                                                                         *)
(* A row comes back into the table from the memory of a job or a request   *)
(* long after it was read, so the invariant says of a row held by a request*)
(* that, if it is past ingestion, the transcript is stored; the jobs that  *)
(* hold rows are those of meetings whose transcript is, or is about to be, *)
(* stored.  What is known or stored stays so.                              *)
(*                                                                         *)
(* Every action writes at most one meeting, one job of each queue and one  *)
(* request: SafeStep says what such a write may be, the first lemma that   *)
(* safe steps keep the invariant, the others that every action is one.     *)
(***************************************************************************)
EXTENDS MeetingPipeline, TLAPS

PastIngestion == {"INGESTED", "ANALYZING", "ANALYZED", "REVIEW_REQUIRED"}

(* Row r of meeting m, if there is one, is past ingestion only with a       *)
(* transcript.                                                              *)
Backed(m, r) == r # None /\ r.status \in PastIngestion => m \in stored

FetchOK(job) ==
  job # None =>
    /\ Known(job.meeting)
    /\ job.step \in {"closing", "ingesting", "deduplicating"} => job.row # None
    /\ job.step = "ingested" => job.meeting \in stored

AnalysisOK(job) ==
  job # None =>
    /\ Known(job.meeting)
    /\ job.meeting \in stored
    /\ job.step \in {"claiming", "saving"} => job.row # None

RequestOK(request) ==
  request # None =>
    /\ Known(request.meeting)
    /\ Backed(request.meeting, request.row)
    /\ request.step = "update" => request.row # None
    /\ request.step = "analyze" => request.meeting \in stored

MeetingsOK == \A m \in Meetings : Backed(m, meetings[m])
FetchesOK == \A j \in Fetches : FetchOK(fetches[j])
AnalysesOK == \A j \in Analyses : AnalysisOK(analyses[j])
RequestsOK == \A r \in Requests : RequestOK(requests[r])

IInv == TypeOK /\ MeetingsOK /\ FetchesOK /\ AnalysesOK /\ RequestsOK

----------------------------------------------------------------------------
(* What a step may write.                                                   *)

MeetingsStep ==
  \/ meetings' = meetings
  \/ \E m \in Meetings, row \in Row : Write(m, row) /\ Backed(m, row)'

FetchesStep ==
  \/ fetches' = fetches
  \/ \E j \in Fetches, job \in Job(FetchSteps) \cup {None} :
       fetches' = [fetches EXCEPT ![j] = job] /\ FetchOK(job)'

AnalysesStep ==
  \/ analyses' = analyses
  \/ \E j \in Analyses, job \in Job(AnalysisSteps) \cup {None} :
       analyses' = [analyses EXCEPT ![j] = job] /\ AnalysisOK(job)'

RequestsStep ==
  \/ requests' = requests
  \/ \E r \in Requests, request \in Request \cup {None} :
       requests' = [requests EXCEPT ![r] = request] /\ RequestOK(request)'

SetsStep ==
  /\ stored \subseteq stored' /\ stored' \subseteq Meetings
  /\ ready' \subseteq Meetings
  /\ heard' \subseteq Notices \X Meetings
  /\ dead' \subseteq Meetings
  /\ crashes' \in 0..MaxCrashes

SafeStep ==
  MeetingsStep /\ FetchesStep /\ AnalysesStep /\ RequestsStep /\ SetsStep

(* Nothing is forgotten: a meeting stays known and its transcript stored.   *)
Grows == stored \subseteq stored' /\ \A m \in Meetings : Known(m) => Known(m)'

LEMMA SafeStepsGrow ==
  ASSUME TypeOK, MeetingsStep, stored \subseteq stored'
  PROVE  Grows /\ meetings' \in [Meetings -> Row \cup {None}]
<1>1. CASE meetings' = meetings
  BY <1>1 DEF TypeOK, Grows, Known
<1>2. CASE \E m \in Meetings, row \in Row : Write(m, row)
  BY <1>2, NoneIsNoMeeting DEF TypeOK, Grows, Known, Write
<1> QED BY <1>1, <1>2 DEF MeetingsStep

(* What held of a job, a request or a row goes on holding.                  *)
LEMMA JobsStayOK ==
  ASSUME Grows
  PROVE  /\ \A job \in Job(FetchSteps) \cup {None} : FetchOK(job) => FetchOK(job)'
         /\ \A job \in Job(AnalysisSteps) \cup {None} : AnalysisOK(job) => AnalysisOK(job)'
         /\ \A q \in Request \cup {None} : RequestOK(q) => RequestOK(q)'
         /\ \A m \in Meetings, row \in Row \cup {None} : Backed(m, row) => Backed(m, row)'
<1>1. \A m \in Meetings, row \in Row \cup {None} : Backed(m, row) => Backed(m, row)'
  BY DEF Grows, Backed
<1>2. \A job \in Job(FetchSteps) : job.meeting \in Meetings
  BY DEF Job
<1>3. \A job \in Job(AnalysisSteps) : job.meeting \in Meetings
  BY DEF Job
<1>4. \A q \in Request : q.meeting \in Meetings /\ q.row \in Row \cup {None}
  BY DEF Request
<1>5. \A job \in Job(FetchSteps) \cup {None} : FetchOK(job) => FetchOK(job)'
  BY <1>2 DEF Grows, FetchOK
<1>6. \A job \in Job(AnalysisSteps) \cup {None} : AnalysisOK(job) => AnalysisOK(job)'
  BY <1>3 DEF Grows, AnalysisOK
<1>7. \A q \in Request \cup {None} : RequestOK(q) => RequestOK(q)'
  BY <1>1, <1>4 DEF Grows, RequestOK
<1> QED BY <1>1, <1>5, <1>6, <1>7

(* The invariant survives any safe step, whoever takes it.                  *)
LEMMA SafeStepsKeepInvariant ==
  ASSUME IInv, SafeStep
  PROVE  IInv'
<1> USE DEF IInv, SafeStep
<1>1. Grows /\ meetings' \in [Meetings -> Row \cup {None}]
  BY SafeStepsGrow DEF SetsStep
<1>2. MeetingsOK'
  <2>1. CASE meetings' = meetings
    BY <1>1, <2>1, JobsStayOK DEF MeetingsOK, TypeOK
  <2>2. ASSUME NEW m \in Meetings, NEW row \in Row, Write(m, row), Backed(m, row)'
        PROVE  MeetingsOK'
    <3>1. \A n \in Meetings : meetings'[n] = IF n = m THEN row ELSE meetings[n]
      BY <2>2 DEF Write, TypeOK
    <3>2. \A n \in Meetings : n # m => Backed(n, meetings[n])'
      BY <1>1, <3>1, JobsStayOK DEF MeetingsOK, TypeOK, Backed, Grows
    <3> QED BY <2>2, <3>1, <3>2 DEF MeetingsOK, Backed
  <2> QED BY <2>1, <2>2 DEF MeetingsStep
<1>3. fetches' \in [Fetches -> Job(FetchSteps) \cup {None}] /\ FetchesOK'
  <2>1. \A j \in Fetches : fetches[j] \in Job(FetchSteps) \cup {None} /\ FetchOK(fetches[j])
    BY DEF TypeOK, FetchesOK
  <2>2. \A j \in Fetches : \A job \in Job(FetchSteps) \cup {None} : job = fetches[j] => FetchOK(job)'
    BY <1>1, <2>1, JobsStayOK
  <2>3. CASE fetches' = fetches
    BY <2>1, <2>2, <2>3 DEF FetchesOK, FetchOK, TypeOK
  <2>4. ASSUME NEW j \in Fetches, NEW job \in Job(FetchSteps) \cup {None},
               fetches' = [fetches EXCEPT ![j] = job], FetchOK(job)'
        PROVE  fetches' \in [Fetches -> Job(FetchSteps) \cup {None}] /\ FetchesOK'
    <3>1. fetches' \in [Fetches -> Job(FetchSteps) \cup {None}]
      BY <2>4 DEF TypeOK
    <3>2. \A k \in Fetches : fetches'[k] = IF k = j THEN job ELSE fetches[k]
      BY <2>4 DEF TypeOK
    <3>3. ASSUME NEW k \in Fetches PROVE FetchOK(fetches[k])'
      BY <2>1, <2>2, <2>4, <3>2 DEF FetchOK
    <3> QED BY <3>1, <3>3 DEF FetchesOK
  <2> QED BY <2>3, <2>4 DEF FetchesStep
<1>4. analyses' \in [Analyses -> Job(AnalysisSteps) \cup {None}] /\ AnalysesOK'
  <2>1. \A j \in Analyses : analyses[j] \in Job(AnalysisSteps) \cup {None} /\ AnalysisOK(analyses[j])
    BY DEF TypeOK, AnalysesOK
  <2>2. \A j \in Analyses : \A job \in Job(AnalysisSteps) \cup {None} : job = analyses[j] => AnalysisOK(job)'
    BY <1>1, <2>1, JobsStayOK
  <2>3. CASE analyses' = analyses
    BY <2>1, <2>2, <2>3 DEF AnalysesOK, AnalysisOK, TypeOK
  <2>4. ASSUME NEW j \in Analyses, NEW job \in Job(AnalysisSteps) \cup {None},
               analyses' = [analyses EXCEPT ![j] = job], AnalysisOK(job)'
        PROVE  analyses' \in [Analyses -> Job(AnalysisSteps) \cup {None}] /\ AnalysesOK'
    <3>1. analyses' \in [Analyses -> Job(AnalysisSteps) \cup {None}]
      BY <2>4 DEF TypeOK
    <3>2. \A k \in Analyses : analyses'[k] = IF k = j THEN job ELSE analyses[k]
      BY <2>4 DEF TypeOK
    <3>3. ASSUME NEW k \in Analyses PROVE AnalysisOK(analyses[k])'
      BY <2>1, <2>2, <2>4, <3>2 DEF AnalysisOK
    <3> QED BY <3>1, <3>3 DEF AnalysesOK
  <2> QED BY <2>3, <2>4 DEF AnalysesStep
<1>5. requests' \in [Requests -> Request \cup {None}] /\ RequestsOK'
  <2>1. \A r \in Requests : requests[r] \in Request \cup {None} /\ RequestOK(requests[r])
    BY DEF TypeOK, RequestsOK
  <2>2. \A r \in Requests : \A q \in Request \cup {None} : q = requests[r] => RequestOK(q)'
    BY <1>1, <2>1, JobsStayOK
  <2>3. CASE requests' = requests
    BY <2>1, <2>2, <2>3 DEF RequestsOK, RequestOK, Backed, TypeOK
  <2>4. ASSUME NEW r \in Requests, NEW q \in Request \cup {None},
               requests' = [requests EXCEPT ![r] = q], RequestOK(q)'
        PROVE  requests' \in [Requests -> Request \cup {None}] /\ RequestsOK'
    <3>1. requests' \in [Requests -> Request \cup {None}]
      BY <2>4 DEF TypeOK
    <3>2. \A s \in Requests : requests'[s] = IF s = r THEN q ELSE requests[s]
      BY <2>4 DEF TypeOK
    <3>3. ASSUME NEW s \in Requests PROVE RequestOK(requests[s])'
      BY <2>1, <2>2, <2>4, <3>2 DEF RequestOK, Backed
    <3> QED BY <3>1, <3>3 DEF RequestsOK
  <2> QED BY <2>3, <2>4 DEF RequestsStep
<1> QED BY <1>1, <1>2, <1>3, <1>4, <1>5 DEF TypeOK, SetsStep

----------------------------------------------------------------------------
(* The writes the actions are made of.                                      *)

(* updateProcessing on a known meeting, with a status it may show.          *)
LEMMA StatusWrites ==
  ASSUME TypeOK, NEW m \in Meetings, Known(m), NEW status \in ProcessingStatus,
         WriteStatus(m, status), status \in PastIngestion => m \in stored'
  PROVE  MeetingsStep
<1>1. meetings[m] \in Row
  BY DEF TypeOK, Known
<1>2. PICK row \in Row : row = [meetings[m] EXCEPT !.status = status]
  BY <1>1 DEF Row
<1>3. row.status = status
  BY <1>1, <1>2 DEF Row
<1>4. Write(m, row)
  BY <1>2 DEF WriteStatus, Write
<1>5. Backed(m, row)'
  BY <1>3 DEF Backed
<1> QED BY <1>4, <1>5 DEF MeetingsStep

(* A job just sent is waiting for its first attempt.                        *)
LEMMA NewJobs ==
  ASSUME NEW m \in Meetings
  PROVE  /\ NewJob(m) \in Job(FetchSteps) /\ NewJob(m) \in Job(AnalysisSteps)
         /\ NewJob(m).meeting = m /\ NewJob(m).step = "queued"
BY PipelineAssumption DEF NewJob, Job, FetchSteps, AnalysisSteps

(* Sending a job to either queue.                                           *)
LEMMA FetchSent ==
  ASSUME NEW m \in Meetings, SendFetch(m), Known(m)'
  PROVE  FetchesStep
<1>1. PICK job \in Job(FetchSteps) :
        job = NewJob(m) /\ job.meeting = m /\ job.step = "queued"
  BY NewJobs
<1>2. FetchOK(job)'
  BY <1>1 DEF FetchOK
<1> QED BY <1>1, <1>2 DEF SendFetch, FetchesStep

LEMMA AnalysisSent ==
  ASSUME NEW m \in Meetings, SendAnalysis(m), Known(m)', m \in stored'
  PROVE  AnalysesStep
<1>1. PICK job \in Job(AnalysisSteps) :
        job = NewJob(m) /\ job.meeting = m /\ job.step = "queued"
  BY NewJobs
<1>2. AnalysisOK(job)'
  BY <1>1 DEF AnalysisOK
<1> QED BY <1>1, <1>2 DEF SendAnalysis, AnalysesStep

LEMMA JobRetried ==
  ASSUME NEW steps, "queued" \in steps, NEW job \in Job(steps)
  PROVE  /\ job.meeting \in Meetings
         /\ \/ Retried(job) = None
            \/ /\ Retried(job) \in Job(steps) /\ Retried(job).step = "queued"
               /\ Retried(job).meeting = job.meeting
<1> DEFINE next == [job EXCEPT !.step = "queued", !.row = None, !.attempt = @ + 1]
<1>1. job.meeting \in Meetings
  BY DEF Job
<1>2. CASE job.attempt < MaxAttempts
  <2>1. job.attempt + 1 \in 1..MaxAttempts
    BY <1>2, PipelineAssumption DEF Job
  <2>2. next \in Job(steps) /\ next.step = "queued" /\ next.meeting = job.meeting
    BY <2>1 DEF Job
  <2>3. Retried(job) = next
    BY <1>2 DEF Retried
  <2> QED BY <1>1, <2>2, <2>3
<1>3. CASE ~(job.attempt < MaxAttempts)
  BY <1>1, <1>3 DEF Retried
<1> QED BY <1>2, <1>3

(* A job that takes its next step.                                          *)
LEMMA FetchGoesOn ==
  ASSUME IInv, Grows, NEW j \in Fetches, fetches[j] # None,
         NEW step \in FetchSteps, NEW row \in Row \cup {None}, FetchTo(j, step, row),
         step \in {"closing", "ingesting", "deduplicating"} => row # None,
         step = "ingested" => fetches[j].meeting \in stored'
  PROVE  FetchesStep
<1>1. fetches[j] \in Job(FetchSteps) /\ fetches[j].meeting \in Meetings /\ Known(fetches[j].meeting)
  BY DEF IInv, TypeOK, FetchesOK, FetchOK, Job
<1>2. PICK next \in Job(FetchSteps) :
        /\ next = [fetches[j] EXCEPT !.step = step, !.row = row]
        /\ next.meeting = fetches[j].meeting /\ next.step = step /\ next.row = row
  <2> DEFINE moved == [fetches[j] EXCEPT !.step = step, !.row = row]
  <2>1. moved \in Job(FetchSteps)
    BY <1>1 DEF Job
  <2>2. moved.meeting = fetches[j].meeting /\ moved.step = step /\ moved.row = row
    BY <1>1 DEF Job
  <2> QED BY <2>1, <2>2
<1>3. fetches' = [fetches EXCEPT ![j] = next]
  BY <1>2 DEF FetchTo
<1>4. FetchOK(next)'
  BY <1>1, <1>2 DEF FetchOK, Grows
<1> QED BY <1>2, <1>3, <1>4 DEF FetchesStep

LEMMA AnalysisGoesOn ==
  ASSUME IInv, Grows, NEW j \in Analyses, analyses[j] # None,
         NEW step \in AnalysisSteps, NEW row \in Row \cup {None}, AnalysisTo(j, step, row),
         step \in {"claiming", "saving"} => row # None
  PROVE  AnalysesStep
<1>1. /\ analyses[j] \in Job(AnalysisSteps) /\ analyses[j].meeting \in Meetings
      /\ Known(analyses[j].meeting) /\ analyses[j].meeting \in stored
  BY DEF IInv, TypeOK, AnalysesOK, AnalysisOK, Job
<1>2. PICK next \in Job(AnalysisSteps) :
        /\ next = [analyses[j] EXCEPT !.step = step, !.row = row]
        /\ next.meeting = analyses[j].meeting /\ next.step = step /\ next.row = row
  <2> DEFINE moved == [analyses[j] EXCEPT !.step = step, !.row = row]
  <2>1. moved \in Job(AnalysisSteps)
    BY <1>1 DEF Job
  <2>2. moved.meeting = analyses[j].meeting /\ moved.step = step /\ moved.row = row
    BY <1>1 DEF Job
  <2> QED BY <2>1, <2>2
<1>3. analyses' = [analyses EXCEPT ![j] = next]
  BY <1>2 DEF AnalysisTo
<1>4. AnalysisOK(next)'
  BY <1>1, <1>2 DEF AnalysisOK, Grows
<1> QED BY <1>2, <1>3, <1>4 DEF AnalysesStep

(* A run that throws.                                                       *)
LEMMA FetchThrown ==
  ASSUME IInv, Grows, NEW j \in Fetches, fetches[j] # None, ThrowFetch(j)
  PROVE  FetchesStep /\ dead' \subseteq Meetings
<1>1. /\ fetches[j] \in Job(FetchSteps) /\ Known(fetches[j].meeting) /\ dead \subseteq Meetings
  BY DEF IInv, TypeOK, FetchesOK, FetchOK
<1>2. "queued" \in FetchSteps
  BY DEF FetchSteps
<1>3. /\ fetches[j].meeting \in Meetings
      /\ \/ Retried(fetches[j]) = None
         \/ /\ Retried(fetches[j]) \in Job(FetchSteps) /\ Retried(fetches[j]).step = "queued"
            /\ Retried(fetches[j]).meeting = fetches[j].meeting
  BY <1>1, <1>2, JobRetried
<1>4. PICK next \in Job(FetchSteps) \cup {None} :
        /\ next = Retried(fetches[j])
        /\ next # None => next.step = "queued" /\ next.meeting = fetches[j].meeting
  BY <1>3
<1>5. FetchOK(next)'
  BY <1>1, <1>3, <1>4 DEF FetchOK, Grows
<1> QED BY <1>1, <1>3, <1>4, <1>5 DEF ThrowFetch, Buried, FetchesStep

LEMMA AnalysisThrown ==
  ASSUME IInv, Grows, NEW j \in Analyses, analyses[j] # None, ThrowAnalysis(j)
  PROVE  AnalysesStep /\ dead' \subseteq Meetings
<1>1. /\ analyses[j] \in Job(AnalysisSteps) /\ Known(analyses[j].meeting)
      /\ analyses[j].meeting \in stored /\ dead \subseteq Meetings
  BY DEF IInv, TypeOK, AnalysesOK, AnalysisOK
<1>2. "queued" \in AnalysisSteps
  BY DEF AnalysisSteps
<1>3. /\ analyses[j].meeting \in Meetings
      /\ \/ Retried(analyses[j]) = None
         \/ /\ Retried(analyses[j]) \in Job(AnalysisSteps) /\ Retried(analyses[j]).step = "queued"
            /\ Retried(analyses[j]).meeting = analyses[j].meeting
  BY <1>1, <1>2, JobRetried
<1>4. PICK next \in Job(AnalysisSteps) \cup {None} :
        /\ next = Retried(analyses[j])
        /\ next # None => next.step = "queued" /\ next.meeting = analyses[j].meeting
  BY <1>3
<1>5. AnalysisOK(next)'
  BY <1>1, <1>3, <1>4 DEF AnalysisOK, Grows
<1> QED BY <1>1, <1>3, <1>4, <1>5 DEF ThrowAnalysis, Buried, AnalysesStep

----------------------------------------------------------------------------
(* Every action is a safe step.                                             *)

(* What the invariant says of one job or request.                           *)
LEMMA JobHolds ==
  ASSUME IInv
  PROVE  /\ \A j \in Fetches : fetches[j] # None =>
              /\ fetches[j] \in Job(FetchSteps) /\ fetches[j].meeting \in Meetings
              /\ fetches[j].row \in Row \cup {None}
              /\ meetings[fetches[j].meeting] \in Row /\ Known(fetches[j].meeting)
         /\ \A j \in Analyses : analyses[j] # None =>
              /\ analyses[j] \in Job(AnalysisSteps) /\ analyses[j].meeting \in stored
              /\ analyses[j].meeting \in Meetings /\ analyses[j].row \in Row \cup {None}
              /\ meetings[analyses[j].meeting] \in Row /\ Known(analyses[j].meeting)
         /\ \A r \in Requests : requests[r] # None =>
              /\ requests[r] \in Request /\ requests[r].meeting \in Meetings
              /\ requests[r].row \in Row \cup {None} /\ requests[r].exclude \in BOOLEAN \cup {None}
              /\ meetings[requests[r].meeting] \in Row /\ Known(requests[r].meeting)
<1>1. ASSUME NEW j \in Fetches, fetches[j] # None
      PROVE  /\ fetches[j] \in Job(FetchSteps) /\ fetches[j].meeting \in Meetings
             /\ fetches[j].row \in Row \cup {None}
             /\ meetings[fetches[j].meeting] \in Row /\ Known(fetches[j].meeting)
  BY <1>1 DEF IInv, TypeOK, FetchesOK, FetchOK, Job, Known
<1>2. ASSUME NEW j \in Analyses, analyses[j] # None
      PROVE  /\ analyses[j] \in Job(AnalysisSteps) /\ analyses[j].meeting \in stored
             /\ analyses[j].meeting \in Meetings /\ analyses[j].row \in Row \cup {None}
             /\ meetings[analyses[j].meeting] \in Row /\ Known(analyses[j].meeting)
  BY <1>2 DEF IInv, TypeOK, AnalysesOK, AnalysisOK, Job, Known
<1>3. ASSUME NEW r \in Requests, requests[r] # None
      PROVE  /\ requests[r] \in Request /\ requests[r].meeting \in Meetings
             /\ requests[r].row \in Row \cup {None} /\ requests[r].exclude \in BOOLEAN \cup {None}
             /\ meetings[requests[r].meeting] \in Row /\ Known(requests[r].meeting)
  BY <1>3 DEF IInv, TypeOK, RequestsOK, RequestOK, Request, Known
<1> QED BY <1>1, <1>2, <1>3

(* Each step of fetchMeetingArtifacts is safe.                              *)
LEMMA FetchIsSafe ==
  ASSUME IInv, NEW j \in Fetches, Fetch(j)
  PROVE  SafeStep
<1> DEFINE m == fetches[j].meeting
<1>1. fetches[j] # None
  BY DEF Fetch, FetchStart, FetchDefers, FetchGivesUp, FetchUnreachable, FetchCloses,
         IngestRead, IngestCommit, EnqueueAnalysis, FetchBreaks, FetchAt
<1>2. /\ fetches[j] \in Job(FetchSteps) /\ m \in Meetings
      /\ fetches[j].row \in Row \cup {None} /\ meetings[m] \in Row /\ Known(m) /\ TypeOK
  BY <1>1, JobHolds DEF IInv
<1>3. analyses' = analyses => AnalysesStep
  BY DEF AnalysesStep
<1>4. requests' = requests /\ crashes' = crashes /\ RequestsStep
  BY DEF Fetch, FetchStart, FetchDefers, FetchGivesUp, FetchUnreachable, FetchCloses,
         IngestRead, IngestCommit, EnqueueAnalysis, FetchBreaks, RequestsStep
<1>5. google' = google
  BY DEF Fetch, FetchStart, FetchDefers, FetchGivesUp, FetchUnreachable, FetchCloses,
         IngestRead, IngestCommit, EnqueueAnalysis, FetchBreaks
<1>6. stored \subseteq stored' /\ stored' \subseteq Meetings
  BY <1>2 DEF Fetch, FetchStart, FetchDefers, FetchGivesUp, FetchUnreachable, FetchCloses,
         IngestRead, IngestCommit, EnqueueAnalysis, FetchBreaks, data, TypeOK
<1>7. ASSUME dead' \subseteq Meetings PROVE SetsStep
  BY <1>2, <1>4, <1>5, <1>6, <1>7 DEF SetsStep, google, TypeOK
<1>8. dead' = dead => SetsStep
  BY <1>2, <1>7 DEF TypeOK
<1>9. ASSUME MeetingsStep PROVE Grows
  BY <1>2, <1>6, <1>9, SafeStepsGrow
<1>10. meetings' = meetings => MeetingsStep
  BY DEF MeetingsStep
<1>11. ASSUME NEW status \in ProcessingStatus \ PastIngestion, WriteStatus(m, status)
       PROVE  MeetingsStep
  BY <1>2, <1>11, StatusWrites
<1>12. {"FAILED", "COMPLETED"} \subseteq ProcessingStatus \ PastIngestion
  BY DEF ProcessingStatus, PastIngestion
<1>13. ASSUME Grows, ThrowFetch(j) PROVE FetchesStep /\ dead' \subseteq Meetings
  BY <1>1, <1>13, FetchThrown
<1>14. ASSUME Grows, NEW step \in FetchSteps, FetchTo(j, step, None),
              step \notin {"closing", "ingesting", "deduplicating", "ingested"}
       PROVE  FetchesStep
  BY <1>1, <1>14, FetchGoesOn
<1>15. CASE FetchStart(j)
  <2>1. PICK step \in {"finished", "calling", "unlinked"} : FetchTo(j, step, None)
    BY <1>15 DEF FetchStart
  <2>2. meetings' = meetings /\ dead' = dead /\ analyses' = analyses
    BY <1>15 DEF FetchStart, data
  <2>3. FetchesStep
    BY <1>9, <1>10, <1>14, <2>1, <2>2 DEF FetchSteps
  <2> QED BY <1>3, <1>4, <1>8, <1>10, <2>2, <2>3 DEF SafeStep
<1>16. CASE FetchDefers(j)
  <2>1. meetings' = meetings /\ ThrowFetch(j) /\ analyses' = analyses
    BY <1>16 DEF FetchDefers, data
  <2>2. FetchesStep /\ dead' \subseteq Meetings
    BY <1>9, <1>10, <1>13, <2>1
  <2> QED BY <1>3, <1>4, <1>7, <1>10, <2>1, <2>2 DEF SafeStep
<1>17. CASE FetchGivesUp(j)
  <2>1. MeetingsStep /\ Grows
    BY <1>9, <1>11, <1>12, <1>17 DEF FetchGivesUp
  <2>2. FetchesStep /\ SetsStep
    <3>1. CASE FetchTo(j, "finished", None) /\ UNCHANGED dead
      BY <1>14, <1>8, <2>1, <3>1 DEF FetchSteps
    <3>2. CASE ThrowFetch(j)
      BY <1>13, <1>7, <2>1, <3>2
    <3> QED BY <1>17, <3>1, <3>2 DEF FetchGivesUp
  <2> QED BY <1>3, <1>4, <1>17, <2>1, <2>2 DEF SafeStep, FetchGivesUp
<1>18. CASE FetchUnreachable(j)
  <2>1. meetings' = meetings /\ dead' = dead /\ analyses' = analyses
    BY <1>18 DEF FetchUnreachable, data
  <2>2. FetchesStep
    BY <1>1, <1>2, <1>9, <1>10, <1>18, <2>1, NoneIsNoMeeting, FetchGoesOn
    DEF FetchUnreachable, FetchSteps
  <2> QED BY <1>3, <1>4, <1>8, <1>10, <2>1, <2>2 DEF SafeStep
<1>19. CASE FetchCloses(j)
  <2>1. dead' = dead /\ analyses' = analyses /\ FetchTo(j, "finished", None)
    BY <1>19 DEF FetchCloses
  <2>2. MeetingsStep
    BY <1>10, <1>11, <1>12, <1>19 DEF FetchCloses
  <2>3. FetchesStep
    BY <1>9, <1>14, <2>1, <2>2 DEF FetchSteps
  <2> QED BY <1>3, <1>4, <1>8, <2>1, <2>2, <2>3 DEF SafeStep
<1>20. CASE IngestRead(j)
  <2>1. meetings' = meetings /\ dead' = dead /\ analyses' = analyses
    BY <1>20 DEF IngestRead, data
  <2>2. PICK step \in {"deduplicating", "ingesting"} : FetchTo(j, step, meetings[m])
    BY <1>20 DEF IngestRead
  <2>3. FetchesStep
    BY <1>1, <1>2, <1>9, <1>10, <2>1, <2>2, NoneIsNoMeeting, FetchGoesOn DEF FetchSteps
  <2> QED BY <1>3, <1>4, <1>8, <1>10, <2>1, <2>3 DEF SafeStep
<1>21. CASE IngestCommit(j)
  <2>1. dead' = dead /\ analyses' = analyses /\ m \in stored'
    BY <1>21 DEF IngestCommit
  <2>2. PICK status \in ProcessingStatus, step \in {"finished", "ingested"} :
          WriteStatus(m, status) /\ FetchTo(j, step, None)
    BY <1>2, <1>21 DEF IngestCommit, ProcessingStatus, Row
  <2>3. MeetingsStep
    BY <1>2, <2>1, <2>2, StatusWrites
  <2>4. FetchesStep
    BY <1>1, <1>9, <2>1, <2>2, <2>3, FetchGoesOn DEF FetchSteps
  <2> QED BY <1>3, <1>4, <1>8, <2>1, <2>3, <2>4 DEF SafeStep
<1>22. CASE EnqueueAnalysis(j)
  <2>1. meetings' = meetings /\ dead' = dead /\ FetchTo(j, "finished", None)
    BY <1>22 DEF EnqueueAnalysis, data
  <2>2. MeetingsStep /\ Grows
    BY <1>9, <1>10, <2>1
  <2>3. AnalysesStep
    <3>1. PICK n \in Meetings : n = m
      BY <1>2
    <3>2. n \in stored /\ Known(n)
      BY <1>1, <1>2, <1>22, <3>1 DEF EnqueueAnalysis, FetchAt, IInv, FetchesOK, FetchOK
    <3>3. n \in stored' /\ Known(n)'
      BY <2>2, <3>2 DEF Grows
    <3> QED BY <1>22, <3>1, <3>3, AnalysisSent DEF EnqueueAnalysis
  <2>4. FetchesStep
    BY <1>14, <2>1, <2>2 DEF FetchSteps
  <2> QED BY <1>4, <1>8, <2>1, <2>2, <2>3, <2>4 DEF SafeStep
<1>23. CASE FetchBreaks(j)
  <2>1. MeetingsStep /\ Grows
    BY <1>9, <1>11, <1>12, <1>23 DEF FetchBreaks
  <2>2. FetchesStep /\ dead' \subseteq Meetings
    BY <1>13, <1>23, <2>1 DEF FetchBreaks
  <2> QED BY <1>3, <1>4, <1>7, <1>23, <2>1, <2>2 DEF SafeStep, FetchBreaks
<1> QED BY <1>15, <1>16, <1>17, <1>18, <1>19, <1>20, <1>21, <1>22, <1>23 DEF Fetch
(* Each step of analyzeMeeting is safe.                                     *)
LEMMA AnalyzeIsSafe ==
  ASSUME IInv, NEW j \in Analyses, Analyze(j)
  PROVE  SafeStep
<1> DEFINE m == analyses[j].meeting
<1>1. analyses[j] # None
  BY DEF Analyze, AnalysisStart, AnalysisSkips, ClaimRead, ClaimCommit, AnalysisBreaks,
         AnswerRead, SaveCommit, SaveBreaks, AnalysisAt
<1>2. /\ analyses[j] \in Job(AnalysisSteps) /\ m \in Meetings /\ m \in stored
      /\ analyses[j].row \in Row \cup {None} /\ meetings[m] \in Row /\ Known(m) /\ TypeOK
  BY <1>1, JobHolds DEF IInv
<1>3. /\ fetches' = fetches /\ requests' = requests /\ crashes' = crashes
      /\ stored' = stored /\ google' = google
  BY DEF Analyze, AnalysisStart, AnalysisSkips, ClaimRead, ClaimCommit, AnalysisBreaks,
         AnswerRead, SaveCommit, SaveBreaks, data
<1>4. FetchesStep /\ RequestsStep
  BY <1>3 DEF FetchesStep, RequestsStep
<1>5. dead' \subseteq Meetings => SetsStep
  BY <1>2, <1>3 DEF SetsStep, google, TypeOK
<1>6. dead' = dead => SetsStep
  BY <1>2, <1>5 DEF TypeOK
<1>7. ASSUME MeetingsStep PROVE Grows
  BY <1>2, <1>3, <1>7, SafeStepsGrow
<1>8. meetings' = meetings => MeetingsStep
  BY DEF MeetingsStep
<1>9. ASSUME NEW status \in ProcessingStatus, WriteStatus(m, status)
      PROVE  MeetingsStep
  BY <1>2, <1>3, <1>9, StatusWrites
<1>10. {"FAILED", "COMPLETED", "ANALYZING"} \subseteq ProcessingStatus
  BY DEF ProcessingStatus
<1>11. ASSUME Grows, ThrowAnalysis(j) PROVE AnalysesStep /\ dead' \subseteq Meetings
  BY <1>1, <1>11, AnalysisThrown
<1>12. ASSUME Grows, NEW step \in AnalysisSteps, AnalysisTo(j, step, None),
              step \notin {"claiming", "saving"}
       PROVE  AnalysesStep
  BY <1>1, <1>12, AnalysisGoesOn
<1>13. ASSUME Grows, NEW step \in AnalysisSteps, AnalysisTo(j, step, meetings[m])
       PROVE  AnalysesStep
  BY <1>1, <1>2, <1>13, NoneIsNoMeeting, AnalysisGoesOn
<1>14. CASE AnalysisStart(j)
  <2>1. PICK step \in {"skipping", "loaded"} : AnalysisTo(j, step, None)
    BY <1>14 DEF AnalysisStart
  <2>2. MeetingsStep /\ Grows /\ dead' = dead
    BY <1>7, <1>8, <1>14 DEF AnalysisStart, data
  <2>3. AnalysesStep
    BY <1>12, <2>1, <2>2 DEF AnalysisSteps
  <2> QED BY <1>4, <1>6, <2>2, <2>3 DEF SafeStep
<1>15. CASE AnalysisSkips(j)
  <2>1. MeetingsStep /\ Grows /\ dead' = dead
    BY <1>7, <1>8, <1>9, <1>10, <1>15 DEF AnalysisSkips
  <2>2. AnalysesStep
    BY <1>12, <1>15, <2>1 DEF AnalysisSkips, AnalysisSteps
  <2> QED BY <1>4, <1>6, <2>1, <2>2 DEF SafeStep
<1>16. CASE ClaimRead(j)
  <2>1. MeetingsStep /\ Grows /\ dead' = dead
    BY <1>7, <1>8, <1>16 DEF ClaimRead, data
  <2>2. AnalysesStep
    BY <1>13, <1>16, <2>1 DEF ClaimRead, AnalysisSteps
  <2> QED BY <1>4, <1>6, <2>1, <2>2 DEF SafeStep
<1>17. CASE ClaimCommit(j)
  <2>1. MeetingsStep /\ Grows /\ dead' = dead
    BY <1>7, <1>8, <1>9, <1>10, <1>17 DEF ClaimCommit
  <2>2. AnalysesStep
    BY <1>12, <1>17, <2>1 DEF ClaimCommit, AnalysisSteps
  <2> QED BY <1>4, <1>6, <2>1, <2>2 DEF SafeStep
<1>18. CASE AnalysisBreaks(j)
  <2>1. MeetingsStep /\ Grows
    BY <1>7, <1>9, <1>10, <1>18 DEF AnalysisBreaks
  <2>2. AnalysesStep /\ dead' \subseteq Meetings
    BY <1>11, <1>18, <2>1 DEF AnalysisBreaks
  <2> QED BY <1>4, <1>5, <2>1, <2>2 DEF SafeStep
<1>19. CASE AnswerRead(j)
  <2>1. MeetingsStep /\ Grows /\ dead' = dead
    BY <1>7, <1>8, <1>19 DEF AnswerRead, data
  <2>2. AnalysesStep
    BY <1>13, <1>19, <2>1 DEF AnswerRead, AnalysisSteps
  <2> QED BY <1>4, <1>6, <2>1, <2>2 DEF SafeStep
<1>20. CASE SaveCommit(j)
  <2>1. analyses[j].row \in Row
    BY <1>1, <1>2, <1>20 DEF SaveCommit, AnalysisAt, IInv, AnalysesOK, AnalysisOK
  <2>2. PICK n \in Meetings, row \in Row : n = m /\ Write(n, row)
    BY <1>2, <1>20, <2>1 DEF SaveCommit, Row, ProcessingStatus
  <2>3. Backed(n, row)'
    BY <1>2, <1>3, <2>2 DEF Backed
  <2>4. MeetingsStep /\ Grows /\ dead' = dead
    BY <1>7, <1>20, <2>2, <2>3 DEF SaveCommit, MeetingsStep
  <2>5. AnalysesStep
    BY <1>12, <1>20, <2>4 DEF SaveCommit, AnalysisSteps
  <2> QED BY <1>4, <1>6, <2>4, <2>5 DEF SafeStep
<1>21. CASE SaveBreaks(j)
  <2>1. MeetingsStep /\ Grows
    BY <1>7, <1>8, <1>21 DEF SaveBreaks, data
  <2>2. AnalysesStep /\ dead' \subseteq Meetings
    BY <1>11, <1>21, <2>1 DEF SaveBreaks
  <2> QED BY <1>4, <1>5, <2>1, <2>2 DEF SafeStep
<1> QED BY <1>14, <1>15, <1>16, <1>17, <1>18, <1>19, <1>20, <1>21 DEF Analyze

(* A job acknowledged, a worker that dies.                                  *)
LEMMA AckIsSafe ==
  ASSUME IInv, Ack
  PROVE  SafeStep
<1>1. MeetingsStep /\ RequestsStep /\ SetsStep
  BY DEF Ack, data, google, MeetingsStep, RequestsStep, SetsStep, IInv, TypeOK
<1>2. FetchOK(None)' /\ AnalysisOK(None)'
  BY DEF FetchOK, AnalysisOK
<1>3. FetchesStep /\ AnalysesStep
  BY <1>2 DEF Ack, FetchesStep, AnalysesStep
<1> QED BY <1>1, <1>3 DEF SafeStep

LEMMA CrashIsSafe ==
  ASSUME IInv, Crash
  PROVE  SafeStep
<1>1. MeetingsStep /\ RequestsStep /\ stored' = stored
  BY DEF Crash, data, MeetingsStep, RequestsStep
<1>2. Grows
  BY <1>1, SafeStepsGrow DEF IInv
<1>3. crashes' \in 0..MaxCrashes
  BY PipelineAssumption DEF Crash, IInv, TypeOK
<1>4. /\ FetchesStep /\ AnalysesStep /\ dead' \subseteq Meetings
  <2>1. ASSUME NEW j \in Fetches, fetches[j] # None, ThrowFetch(j), UNCHANGED analyses
        PROVE  FetchesStep /\ AnalysesStep /\ dead' \subseteq Meetings
    BY <1>2, <2>1, FetchThrown DEF AnalysesStep
  <2>2. ASSUME NEW j \in Analyses, analyses[j] # None, ThrowAnalysis(j), UNCHANGED fetches
        PROVE  FetchesStep /\ AnalysesStep /\ dead' \subseteq Meetings
    BY <1>2, <2>2, AnalysisThrown DEF FetchesStep
  <2> QED BY <2>1, <2>2 DEF Crash
<1>5. SetsStep
  BY <1>1, <1>3, <1>4 DEF SetsStep, Crash, google, IInv, TypeOK
<1> QED BY <1>1, <1>4, <1>5 DEF SafeStep
----------------------------------------------------------------------------
(* Users.                                                                   *)

(* A request that ends, and one that begins or moves on.                    *)
LEMMA RequestEnds ==
  ASSUME NEW r \in Requests, requests' = [requests EXCEPT ![r] = None]
  PROVE  RequestsStep
<1>1. RequestOK(None)'
  BY DEF RequestOK
<1> QED BY <1>1 DEF RequestsStep

LEMMA RequestBegins ==
  ASSUME NEW r \in Requests, NEW q \in Request, requests' = [requests EXCEPT ![r] = q],
         Known(q.meeting)', Backed(q.meeting, q.row)',
         q.step = "update" => q.row # None,
         q.step = "analyze" => q.meeting \in stored'
  PROVE  RequestsStep
<1>1. RequestOK(q)'
  BY DEF RequestOK
<1> QED BY <1>1 DEF RequestsStep

(* updateMeeting sets no status past ingestion that the row had not.        *)
LEMMA RowsUpdated ==
  ASSUME NEW row \in Row, NEW exclude \in BOOLEAN \cup {None}
  PROVE  /\ Updated(row, exclude) \in Row
         /\ Updated(row, exclude).status \in {row.status, "EXCLUDED", "DISCOVERED"}
<1>1. CASE exclude = TRUE /\ ~row.excluded
  BY <1>1 DEF Updated, Row, ProcessingStatus
<1>2. CASE ~(exclude = TRUE /\ ~row.excluded) /\ exclude = FALSE /\ row.excluded /\ row.status = "EXCLUDED"
  BY <1>2 DEF Updated, Row, ProcessingStatus
<1>3. CASE /\ ~(exclude = TRUE /\ ~row.excluded)
           /\ ~(exclude = FALSE /\ row.excluded /\ row.status = "EXCLUDED")
  <2>1. Updated(row, exclude) = [row EXCEPT !.excluded = IF exclude = None THEN @ ELSE exclude]
    BY <1>3 DEF Updated
  <2> QED BY <2>1 DEF Row
<1> QED BY <1>1, <1>2, <1>3

(* Each step of an API request is safe.                                     *)
LEMMA PeopleAreSafe ==
  ASSUME IInv, People
  PROVE  SafeStep
<1>1. PICK r \in Requests :
        \/ \E m \in Meetings : UpdateRead(r, m) \/ Reprocess(r, m) \/ Import(r, m)
        \/ UpdateCommit(r) \/ RequestEnqueues(r) \/ RequestMarks(r) \/ Abandon(r)
  BY DEF People
<1>2. TypeOK /\ MeetingsOK /\ \A m \in Meetings : Known(m) => meetings[m] \in Row
  BY DEF IInv, TypeOK, Known
<1>3. google' = google /\ dead' = dead
  BY <1>1 DEF UpdateRead, Reprocess, Import, UpdateCommit, RequestEnqueues, RequestMarks,
              Abandon, queues
<1>4. crashes' = crashes /\ stored' = stored => SetsStep
  BY <1>2, <1>3 DEF SetsStep, google, TypeOK
<1>5. fetches' = fetches => FetchesStep
  BY DEF FetchesStep
<1>6. analyses' = analyses => AnalysesStep
  BY DEF AnalysesStep
<1>7. meetings' = meetings => MeetingsStep
  BY DEF MeetingsStep
<1>8. ASSUME meetings' = meetings, stored' = stored, fetches' = fetches,
             analyses' = analyses, crashes' = crashes, RequestsStep
      PROVE  SafeStep
  BY <1>4, <1>5, <1>6, <1>7, <1>8 DEF SafeStep
<1>9. ASSUME NEW m \in Meetings, UpdateRead(r, m)
      PROVE  SafeStep
  <2>1. PICK exclude \in BOOLEAN \cup {None} :
          requests' = [requests EXCEPT ![r] =
            [meeting |-> m, step |-> "update", row |-> meetings[m], exclude |-> exclude]]
    BY <1>9 DEF UpdateRead
  <2>2. PICK row \in Row : row = meetings[m]
    BY <1>2, <1>9 DEF UpdateRead
  <2>3. PICK q \in Request :
          q = [meeting |-> m, step |-> "update", row |-> row, exclude |-> exclude]
    BY DEF Request, RequestSteps
  <2>4. meetings' = meetings /\ stored' = stored
    BY <1>9 DEF UpdateRead, data
  <2>5. Known(m)' /\ Backed(m, row)'
    BY <1>2, <1>9, <2>2, <2>4 DEF UpdateRead, Known, MeetingsOK, Backed
  <2>6. q.meeting = m /\ q.row = row /\ q.step = "update" /\ row # None
    BY <2>3, NoneIsNoMeeting
  <2>7. RequestsStep
    BY <2>1, <2>2, <2>3, <2>5, <2>6, RequestBegins
  <2> QED BY <1>8, <1>9, <2>4, <2>7 DEF UpdateRead, queues
<1>10. ASSUME NEW m \in Meetings, Reprocess(r, m)
       PROVE  SafeStep
  <2>1. PICK step \in {"analyze", "fetchAndMark", "fetch"} :
          /\ step = "analyze" => m \in stored
          /\ requests' = [requests EXCEPT ![r] =
               [meeting |-> m, row |-> None, exclude |-> None, step |-> step]]
    BY <1>10 DEF Reprocess
  <2>2. PICK q \in Request :
          q = [meeting |-> m, row |-> None, exclude |-> None, step |-> step]
    BY DEF Request, RequestSteps
  <2>3. meetings' = meetings /\ stored' = stored
    BY <1>10 DEF Reprocess, data
  <2>4. Known(m)' /\ Backed(m, None)'
    BY <1>10, <2>3 DEF Reprocess, Known, Backed
  <2>5. q.meeting = m /\ q.row = None /\ q.step = step
    BY <2>2
  <2>6. RequestsStep
    BY <2>1, <2>2, <2>3, <2>4, <2>5, RequestBegins
  <2> QED BY <1>8, <1>10, <2>3, <2>6 DEF Reprocess, queues
<1>11. ASSUME NEW m \in Meetings, Import(r, m)
       PROVE  SafeStep
  <2>1. PICK row \in Row : row = [status |-> "INGESTED", excluded |-> FALSE, linked |-> FALSE]
    BY DEF Row, ProcessingStatus
  <2>2. Write(m, row) /\ m \in stored' /\ Backed(m, row)'
    BY <1>11, <2>1 DEF Import, Backed
  <2>3. MeetingsStep
    BY <2>2 DEF MeetingsStep
  <2>4. Known(m)'
    BY <1>2, <2>2, NoneIsNoMeeting DEF Known, Write, TypeOK
  <2>5. PICK q \in Request :
          q = [meeting |-> m, step |-> "analyze", row |-> None, exclude |-> None]
    BY DEF Request, RequestSteps
  <2>6. q.meeting = m /\ q.row = None /\ q.step = "analyze" /\ Backed(m, None)'
    BY <2>5 DEF Backed
  <2>7. RequestsStep
    BY <1>11, <2>2, <2>4, <2>5, <2>6, RequestBegins DEF Import
  <2>8. SetsStep
    BY <1>2, <1>3, <1>11 DEF Import, SetsStep, google, TypeOK
  <2> QED BY <1>5, <1>6, <1>11, <2>3, <2>7, <2>8 DEF Import, queues, SafeStep
<1>12. CASE UpdateCommit(r)
  <2>1. /\ requests[r].meeting \in Meetings /\ requests[r].row \in Row
        /\ requests[r].exclude \in BOOLEAN \cup {None}
        /\ Backed(requests[r].meeting, requests[r].row)
    BY <1>12, JobHolds DEF UpdateCommit, IInv, RequestsOK, RequestOK
  <2>2. PICK m \in Meetings, row \in Row :
          m = requests[r].meeting /\ row = Updated(requests[r].row, requests[r].exclude)
    BY <2>1, RowsUpdated
  <2>3. row.status \in PastIngestion => m \in stored
    BY <2>1, <2>2, NoneIsNoMeeting, RowsUpdated DEF Backed, PastIngestion
  <2>4. Write(m, row) /\ Backed(m, row)'
    BY <1>12, <2>2, <2>3 DEF UpdateCommit, Backed
  <2>5. MeetingsStep
    BY <2>4 DEF MeetingsStep
  <2>6. RequestsStep
    BY <1>12, RequestEnds DEF UpdateCommit
  <2> QED BY <1>4, <1>5, <1>6, <1>12, <2>5, <2>6 DEF UpdateCommit, queues, SafeStep
<1>13. CASE RequestEnqueues(r)
  <2>1. PICK q \in Request, m \in Meetings :
          /\ q = requests[r] /\ m = q.meeting /\ Known(m)
          /\ q.step = "analyze" => m \in stored
    BY <1>13, JobHolds DEF RequestEnqueues, IInv, RequestsOK, RequestOK
  <2>2. /\ Known(m)' /\ stored' = stored /\ meetings' = meetings /\ crashes' = crashes
    BY <1>13, <2>1 DEF RequestEnqueues, data, Known
  <2>3. FetchesStep /\ AnalysesStep /\ RequestsStep
    <3>1. CASE /\ q.step = "analyze" /\ SendAnalysis(m)
               /\ requests' = [requests EXCEPT ![r] = None] /\ UNCHANGED fetches
      BY <1>5, <2>1, <2>2, <3>1, AnalysisSent, RequestEnds
    <3>2. CASE /\ q.step = "fetch" /\ SendFetch(m)
               /\ requests' = [requests EXCEPT ![r] = None] /\ UNCHANGED analyses
      BY <1>6, <2>1, <2>2, <3>2, FetchSent, RequestEnds
    <3>3. CASE /\ q.step = "fetchAndMark" /\ SendFetch(m)
               /\ requests' = [requests EXCEPT ![r].step = "mark"] /\ UNCHANGED analyses
      <4>1. PICK next \in Request : next = [q EXCEPT !.step = "mark"]
        BY DEF Request, RequestSteps
      <4>2. next.meeting = m /\ next.row = q.row /\ next.step = "mark"
        BY <2>1, <4>1 DEF Request
      <4>3. Backed(m, q.row)'
        BY <1>13, <2>1, <2>2 DEF RequestEnqueues, IInv, RequestsOK, RequestOK, Backed
      <4>4. RequestsStep
        BY <2>1, <2>2, <3>3, <4>1, <4>2, <4>3, RequestBegins
      <4> QED BY <1>6, <2>2, <3>3, <4>4, FetchSent
    <3> QED BY <1>13, <2>1, <3>1, <3>2, <3>3 DEF RequestEnqueues
  <2> QED BY <1>4, <1>7, <2>2, <2>3 DEF SafeStep
<1>14. CASE RequestMarks(r)
  <2>1. PICK m \in Meetings : m = requests[r].meeting /\ Known(m)
    BY <1>14, JobHolds DEF RequestMarks
  <2>2. MeetingsStep
    BY <1>2, <1>14, <2>1, StatusWrites DEF RequestMarks, PastIngestion, ProcessingStatus
  <2>3. RequestsStep
    BY <1>14, RequestEnds DEF RequestMarks
  <2> QED BY <1>4, <1>5, <1>6, <1>14, <2>2, <2>3 DEF RequestMarks, queues, SafeStep
<1>15. CASE Abandon(r)
  <2>1. RequestsStep
    BY <1>15, RequestEnds DEF Abandon
  <2>2. SetsStep
    BY <1>2, <1>15, PipelineAssumption DEF Abandon, SetsStep, data, google, queues, TypeOK
  <2> QED BY <1>5, <1>6, <1>7, <1>15, <2>1, <2>2 DEF Abandon, data, queues, SafeStep
<1> QED BY <1>1, <1>9, <1>10, <1>11, <1>12, <1>13, <1>14, <1>15
----------------------------------------------------------------------------
(* Google.                                                                  *)

(* A row whose status an arrival leaves, or sets before ingestion.          *)
LEMMA ArrivalWrites ==
  ASSUME IInv, NEW m \in Meetings, NEW row \in Row, Write(m, row), stored' = stored,
         Known(m) => row.status \notin PastIngestion \/ row.status = meetings[m].status,
         ~Known(m) => row.status \notin PastIngestion
  PROVE  MeetingsStep /\ Grows /\ Known(m)'
<1>1. row.status \in PastIngestion => m \in stored
  BY DEF IInv, MeetingsOK, Backed, Known
<1>2. Backed(m, row)'
  BY <1>1 DEF Backed
<1>3. MeetingsStep
  BY <1>2 DEF MeetingsStep
<1>4. Grows
  BY <1>3, SafeStepsGrow DEF IInv
<1>5. Known(m)'
  BY NoneIsNoMeeting DEF Known, Write, IInv, TypeOK
<1> QED BY <1>3, <1>4, <1>5

(* findOrCreateMeetingForRecord keeps a status or starts at DISCOVERED.     *)
LEMMA RecordedRows ==
  ASSUME TypeOK, NEW m \in Meetings
  PROVE  /\ Recorded(m) \in Row
         /\ Known(m) => Recorded(m).status = meetings[m].status
         /\ ~Known(m) => Recorded(m).status = "DISCOVERED"
<1>1. CASE Known(m)
  <2>1. meetings[m] \in Row
    BY <1>1 DEF Known, TypeOK
  <2>2. Recorded(m) = [meetings[m] EXCEPT !.linked = TRUE]
    BY <1>1 DEF Recorded
  <2> QED BY <1>1, <2>1, <2>2 DEF Row
<1>2. CASE ~Known(m)
  <2>1. Recorded(m) = [status |-> "DISCOVERED", excluded |-> FALSE, linked |-> TRUE]
    BY <1>2 DEF Recorded
  <2> QED BY <1>2, <2>1 DEF Row, ProcessingStatus
<1> QED BY <1>1, <1>2

(* The row a notice leaves: the recorded one, with its status or an earlier.*)
LEMMA NoticedRows ==
  ASSUME IInv, NEW m \in Meetings, NEW status, stored' = stored,
         Write(m, [Recorded(m) EXCEPT !.status = status]),
         status \in {Recorded(m).status, "WAITING_FOR_ARTIFACTS", "ARTIFACTS_AVAILABLE"}
  PROVE  MeetingsStep /\ Grows /\ Known(m)'
<1>1. Recorded(m) \in Row /\ status \in ProcessingStatus
  BY RecordedRows DEF IInv, Row, ProcessingStatus
<1>2. PICK row \in Row : row = [Recorded(m) EXCEPT !.status = status] /\ row.status = status
  BY <1>1 DEF Row
<1>3. Known(m) => row.status \notin PastIngestion \/ row.status = meetings[m].status
  BY <1>2, RecordedRows DEF IInv, PastIngestion
<1>4. ~Known(m) => row.status \notin PastIngestion
  BY <1>2, RecordedRows DEF IInv, PastIngestion
<1> QED BY <1>2, <1>3, <1>4, ArrivalWrites

(* Each arrival from Google, and the search for missed ones, is safe.       *)
LEMMA ArrivalsAreSafe ==
  ASSUME IInv, Arrivals
  PROVE  SafeStep
<1>1. PICK m \in Meetings :
        \/ Discover(m) \/ ArtifactsReady(m) \/ ConferenceStarted(m)
        \/ ConferenceEnded(m) \/ FileGenerated(m) \/ Reconcile(m)
  BY DEF Arrivals
<1>2. /\ analyses' = analyses /\ dead' = dead /\ requests' = requests
      /\ crashes' = crashes /\ stored' = stored
  BY <1>1 DEF Discover, ArtifactsReady, ConferenceStarted, ConferenceEnded,
              FileGenerated, Reconcile, data, queues
<1>3. AnalysesStep /\ RequestsStep
  BY <1>2 DEF AnalysesStep, RequestsStep
<1>4. ready' \subseteq Meetings /\ heard' \subseteq Notices \X Meetings
  BY <1>1 DEF Discover, ArtifactsReady, ConferenceStarted, ConferenceEnded, FileGenerated,
              Reconcile, Hear, google, data, queues, IInv, TypeOK
<1>5. SetsStep
  BY <1>2, <1>4 DEF SetsStep, IInv, TypeOK
<1>6. fetches' = fetches => FetchesStep
  BY DEF FetchesStep
<1>7. meetings' = meetings => MeetingsStep
  BY DEF MeetingsStep
<1>8. ASSUME SendFetch(m), Known(m)' PROVE FetchesStep
  BY <1>8, FetchSent
<1>9. MeetingsStep /\ FetchesStep
  <2>1. CASE Discover(m)
    <3>1. PICK row \in Row : row = [status |-> "DISCOVERED", excluded |-> FALSE, linked |-> FALSE]
      BY DEF Row, ProcessingStatus
    <3>2. Write(m, row) /\ ~Known(m) /\ row.status \notin PastIngestion
      BY <2>1, <3>1 DEF Discover, PastIngestion
    <3> QED BY <1>2, <1>6, <2>1, <3>2, ArrivalWrites DEF Discover, queues
  <2>2. CASE ArtifactsReady(m)
    BY <1>6, <1>7, <2>2 DEF ArtifactsReady, data, queues
  <2>3. CASE ConferenceStarted(m)
    <3>1. PICK row \in Row : row = Recorded(m)
      BY RecordedRows DEF IInv
    <3>2. /\ Known(m) => row.status = meetings[m].status
          /\ ~Known(m) => row.status \notin PastIngestion
      BY <3>1, RecordedRows DEF IInv, PastIngestion
    <3>3. Write(m, row)
      BY <2>3, <3>1 DEF ConferenceStarted
    <3> QED BY <1>2, <1>6, <2>3, <3>2, <3>3, ArrivalWrites DEF ConferenceStarted, queues
  <2>4. CASE ConferenceEnded(m)
    <3>1. PICK status : /\ status \in {Recorded(m).status, "WAITING_FOR_ARTIFACTS"}
                        /\ Write(m, [Recorded(m) EXCEPT !.status = status])
      BY <2>4 DEF ConferenceEnded
    <3> QED BY <1>2, <1>8, <2>4, <3>1, NoticedRows DEF ConferenceEnded
  <2>5. CASE FileGenerated(m)
    <3>1. PICK status : /\ status \in {Recorded(m).status, "ARTIFACTS_AVAILABLE"}
                        /\ Write(m, [Recorded(m) EXCEPT !.status = status])
      BY <2>5 DEF FileGenerated
    <3> QED BY <1>2, <1>8, <2>5, <3>1, NoticedRows DEF FileGenerated
  <2>6. CASE Reconcile(m)
    <3>1. meetings[m] \in Row /\ Known(m) /\ TypeOK
      BY <2>6 DEF Reconcile, IInv, TypeOK, Known
    <3>2. CASE meetings[m].linked /\ SendFetch(m) /\ UNCHANGED meetings
      BY <1>7, <1>8, <3>1, <3>2 DEF Known
    <3>3. CASE /\ ~meetings[m].linked /\ SendFetch(m)
               /\ Write(m, [meetings[m] EXCEPT !.linked = TRUE, !.status = "WAITING_FOR_ARTIFACTS"])
      <4> DEFINE found == [meetings[m] EXCEPT !.linked = TRUE, !.status = "WAITING_FOR_ARTIFACTS"]
      <4>1. found \in Row /\ found.status = "WAITING_FOR_ARTIFACTS"
        BY <3>1 DEF Row, ProcessingStatus
      <4>2. PICK row \in Row : row = found /\ row.status = "WAITING_FOR_ARTIFACTS"
        BY <4>1
      <4>3. Write(m, row) /\ row.status \notin PastIngestion
        BY <3>3, <4>2 DEF PastIngestion
      <4> QED BY <1>2, <1>8, <3>1, <3>3, <4>3, ArrivalWrites
    <3>4. ASSUME NEW status \in {"WAITING_FOR_ARTIFACTS", "FAILED", "COMPLETED"},
                 WriteStatus(m, status), UNCHANGED fetches
          PROVE  MeetingsStep /\ FetchesStep
      BY <1>6, <3>1, <3>4, StatusWrites DEF ProcessingStatus, PastIngestion
    <3> QED BY <2>6, <3>2, <3>3, <3>4 DEF Reconcile
  <2> QED BY <1>1, <2>1, <2>2, <2>3, <2>4, <2>5, <2>6
<1> QED BY <1>3, <1>5, <1>9 DEF SafeStep

----------------------------------------------------------------------------
(* The invariant holds of every reachable state: from no meetings at all,   *)
(* and across any step, since every step is safe.                           *)
THEOREM PipelineInvariance == Spec => []IInv
<1>1. Init => IInv
  BY PipelineAssumption
  DEF Init, IInv, TypeOK, MeetingsOK, FetchesOK, AnalysesOK, RequestsOK, Backed,
      FetchOK, AnalysisOK, RequestOK
<1>2. IInv /\ [Next]_vars => IInv'
  <2>1. ASSUME IInv, Next PROVE IInv'
    <3>1. SafeStep
      BY <2>1, FetchIsSafe, AnalyzeIsSafe, AckIsSafe, CrashIsSafe, PeopleAreSafe,
         ArrivalsAreSafe DEF Next
    <3> QED BY <2>1, <3>1, SafeStepsKeepInvariant
  <2>2. ASSUME IInv, UNCHANGED vars PROVE IInv'
    <3>1. SafeStep
      BY <2>2 DEF vars, SafeStep, MeetingsStep, FetchesStep, AnalysesStep, RequestsStep,
                  SetsStep, IInv, TypeOK
    <3> QED BY <2>2, <3>1, SafeStepsKeepInvariant
  <2> QED BY <2>1, <2>2
<1> QED BY <1>1, <1>2, PTL DEF Spec

(* Every variable keeps its type: no status outside the table's, no job     *)
(* tried more often than its queue allows, no more crashes than the bound.  *)
THEOREM PipelineTypes == Spec => []TypeOK
<1>1. IInv => TypeOK
  BY DEF IInv
<1> QED BY <1>1, PipelineInvariance, PTL

(* Whatever workers, users and Google do in whatever order, and wherever a  *)
(* process dies: no meeting shows as ingested, being analysed or under      *)
(* review, and no analysis is queued, before a transcript of it is stored.  *)
THEOREM TranscriptFirst == Spec => []AnalysedWithTranscript
<1>1. IInv => AnalysedWithTranscript
  BY DEF IInv, MeetingsOK, Backed, AnalysesOK, AnalysisOK, AnalysedWithTranscript, Known,
         PastIngestion
<1> QED BY <1>1, PipelineInvariance, PTL
=============================================================================
