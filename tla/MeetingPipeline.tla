--------------------------- MODULE MeetingPipeline ---------------------------
(***************************************************************************)
(* From a meeting in the calendar to its analysis.  Two pg-boss queues,    *)
(* fetch-meeting-artifacts and analyze-meeting, are served by workers that *)
(* read the meeting, call Google or the AI provider, and write; users      *)
(* exclude, import and reprocess meetings through the API meanwhile.       *)
(*                                                                         *)
(* A transaction that calls nothing else between its read and its write is *)
(* one action; the long ones (ingestion, the two of the analysis, the row  *)
(* update of the API) read in one action and write in another.  Writes     *)
(* made with updateProcessing touch one column, those made with save the   *)
(* whole row that was read.                                                *)
(*                                                                         *)
(* The AI is enabled, artifacts do not expire (cleanup-expired-raw-data    *)
(* works on days, the pipeline on minutes), and Google's notices arrive    *)
(* once: the event log in front of the pipeline is a module of its own.    *)
(***************************************************************************)
EXTENDS MeetingProcessing, Naturals

CONSTANTS
  Meetings,
  External,     \* meetings hosted by another company
  Fetches,      \* job slots of fetch-meeting-artifacts: bounds the jobs alive
  Analyses,     \* job slots of analyze-meeting
  Requests,     \* API requests in flight
  Notices,      \* Google's notices: a subset of {"started", "ended", "generated"}
  Ops,          \* what users do: a subset of {"update", "reprocess", "import"}
  MaxAttempts,  \* retryLimit + 1, which is also MAX_ARTIFACT_ATTEMPTS
  MaxCrashes,   \* bounds the crashes of workers and API processes
  None

ASSUME PipelineAssumption ==
  /\ External \subseteq Meetings
  /\ Notices \subseteq {"started", "ended", "generated"}
  /\ Ops \subseteq {"update", "reprocess", "import"}
  /\ MaxAttempts \in Nat \ {0}
  /\ MaxCrashes \in Nat

VARIABLES
  meetings,   \* the row of each meeting, None before it is known
  stored,     \* meetings with a row in Transcript
  ready,      \* meetings whose artifacts Google serves
  heard,      \* notices of Google already received: <<notice, meeting>>
  fetches,    \* the jobs alive in each queue, with how far their run has got
  analyses,
  dead,       \* meetings with a job in a dead-letter queue
  requests,   \* API requests, with what they have read
  crashes

data == <<meetings, stored>>
google == <<ready, heard>>
queues == <<fetches, analyses, dead>>
vars == <<meetings, stored, ready, heard, fetches, analyses, dead, requests, crashes>>

Row == [status: ProcessingStatus, excluded: BOOLEAN, linked: BOOLEAN]

ASSUME NoneIsNoMeeting == None \notin Row

Job(steps) ==
  [meeting: Meetings, attempt: 1..MaxAttempts, step: steps, row: Row \cup {None}]

FetchSteps == {"queued", "unlinked", "calling", "closing", "ingesting",
               "deduplicating", "ingested", "finished"}

AnalysisSteps == {"queued", "skipping", "loaded", "claiming", "asking",
                  "saving", "finished"}

RequestSteps == {"update", "analyze", "fetch", "fetchAndMark", "mark"}

Request ==
  [meeting: Meetings, step: RequestSteps, row: Row \cup {None},
   exclude: BOOLEAN \cup {None}]

ASSUME NoneIsNoJob ==
  None \notin Job(FetchSteps) \cup Job(AnalysisSteps) \cup Request

TypeOK ==
  /\ meetings \in [Meetings -> Row \cup {None}]
  /\ stored \subseteq Meetings
  /\ ready \subseteq Meetings
  /\ heard \subseteq Notices \X Meetings
  /\ fetches \in [Fetches -> Job(FetchSteps) \cup {None}]
  /\ analyses \in [Analyses -> Job(AnalysisSteps) \cup {None}]
  /\ dead \subseteq Meetings
  /\ requests \in [Requests -> Request \cup {None}]
  /\ crashes \in 0..MaxCrashes

Init ==
  /\ meetings = [m \in Meetings |-> None]
  /\ stored = {} /\ ready = {} /\ heard = {}
  /\ fetches = [j \in Fetches |-> None]
  /\ analyses = [j \in Analyses |-> None]
  /\ dead = {}
  /\ requests = [r \in Requests |-> None]
  /\ crashes = 0

Known(m) == meetings[m] # None

Write(m, row) == meetings' = [meetings EXCEPT ![m] = row]

WriteStatus(m, status) == meetings' = [meetings EXCEPT ![m].status = status]

----------------------------------------------------------------------------
(* The queue.  Every send adds a job: singletonKey alone, on a queue of the *)
(* standard policy, does not drop the second one.                           *)

NewJob(m) == [meeting |-> m, attempt |-> 1, step |-> "queued", row |-> None]

SendFetch(m) ==
  \E j \in Fetches :
    fetches[j] = None /\ fetches' = [fetches EXCEPT ![j] = NewJob(m)]

SendAnalysis(m) ==
  \E j \in Analyses :
    analyses[j] = None /\ analyses' = [analyses EXCEPT ![j] = NewJob(m)]

(* Mutant: the limit is compared the wrong way.                             *)
RetriedOnceMore(job) ==
  IF job.attempt <= MaxAttempts
  THEN [job EXCEPT !.step = "queued", !.row = None, !.attempt = @ + 1]
  ELSE None

(* A run that throws is tried again until its attempts are spent.           *)
Retried(job) ==
  IF job.attempt < MaxAttempts
  THEN [job EXCEPT !.step = "queued", !.row = None, !.attempt = @ + 1]
  ELSE None

Buried(job) == IF job.attempt < MaxAttempts THEN dead ELSE dead \cup {job.meeting}

FetchAt(j, step) == fetches[j] # None /\ fetches[j].step = step
AnalysisAt(j, step) == analyses[j] # None /\ analyses[j].step = step

FetchTo(j, step, row) ==
  fetches' = [fetches EXCEPT ![j].step = step, ![j].row = row]
AnalysisTo(j, step, row) ==
  analyses' = [analyses EXCEPT ![j].step = step, ![j].row = row]

ThrowFetch(j) ==
  /\ fetches' = [fetches EXCEPT ![j] = Retried(@)]
  /\ dead' = Buried(fetches[j])
ThrowAnalysis(j) ==
  /\ analyses' = [analyses EXCEPT ![j] = Retried(@)]
  /\ dead' = Buried(analyses[j])

Ack ==
  /\ \/ \E j \in Fetches :
          /\ FetchAt(j, "finished")
          /\ fetches' = [fetches EXCEPT ![j] = None] /\ UNCHANGED analyses
     \/ \E j \in Analyses :
          /\ AnalysisAt(j, "finished")
          /\ analyses' = [analyses EXCEPT ![j] = None] /\ UNCHANGED fetches
  /\ UNCHANGED <<data, google, dead, requests, crashes>>

(* The worker dies or the run expires: open transactions are rolled back,   *)
(* what was committed stays, and pg-boss counts the attempt.                *)
Crash ==
  /\ crashes < MaxCrashes /\ crashes' = crashes + 1
  /\ \/ \E j \in Fetches :
          /\ fetches[j] # None /\ fetches[j].step # "queued"
          /\ ThrowFetch(j) /\ UNCHANGED analyses
     \/ \E j \in Analyses :
          /\ analyses[j] # None /\ analyses[j].step # "queued"
          /\ ThrowAnalysis(j) /\ UNCHANGED fetches
  /\ UNCHANGED <<data, google, requests>>

----------------------------------------------------------------------------
(* fetchMeetingArtifacts.                                                   *)

FetchStart(j) ==
  /\ FetchAt(j, "queued")
  /\ LET row == meetings[fetches[j].meeting]
     IN FetchTo(j, IF row.excluded /\ row.status = "EXCLUDED" THEN "finished"
                   ELSE IF row.linked THEN "calling" ELSE "unlinked", None)
  /\ UNCHANGED <<data, google, analyses, dead, requests, crashes>>

(* A retryable error: no conference record or no artifacts yet, Google's    *)
(* limits.  No status is written.                                           *)
FetchDefers(j) ==
  /\ \/ FetchAt(j, "calling")
     \/ FetchAt(j, "unlinked") /\ fetches[j].attempt < MaxAttempts
  /\ ThrowFetch(j)
  /\ UNCHANGED <<data, google, analyses, requests, crashes>>

(* The last attempt found no record or no artifacts.  With a record, a      *)
(* refused transition writes FAILED all the same and throws.                *)
FetchGivesUp(j) ==
  LET m == fetches[j].meeting IN
  /\ FetchAt(j, "unlinked") \/ (FetchAt(j, "calling") /\ m \notin ready)
  /\ fetches[j].attempt = MaxAttempts
  /\ IF fetches[j].step = "unlinked" \/ CanSetProcessing(meetings[m].status, "FAILED")
     THEN FetchTo(j, "finished", None) /\ UNCHANGED dead
     ELSE ThrowFetch(j)
  /\ WriteStatus(m, "FAILED")
  /\ UNCHANGED <<stored, google, analyses, requests, crashes>>

(* markUnavailableExternal: the transaction reads, then writes.             *)
FetchUnreachable(j) ==
  /\ FetchAt(j, "unlinked") \/ FetchAt(j, "calling")
  /\ fetches[j].meeting \in External
  /\ FetchTo(j, "closing", meetings[fetches[j].meeting])
  /\ UNCHANGED <<data, google, analyses, dead, requests, crashes>>

FetchCloses(j) ==
  /\ FetchAt(j, "closing")
  /\ IF fetches[j].row.status \in {"DISCOVERED", "WAITING_FOR_ARTIFACTS"}
     THEN WriteStatus(fetches[j].meeting, "COMPLETED") ELSE UNCHANGED meetings
  /\ FetchTo(j, "finished", None)
  /\ UNCHANGED <<stored, google, analyses, dead, requests, crashes>>

(* The ingestion transaction reads the row and looks for the checksum.      *)
IngestRead(j) ==
  LET m == fetches[j].meeting IN
  /\ FetchAt(j, "calling") /\ m \in ready
  /\ FetchTo(j, IF m \in stored THEN "deduplicating" ELSE "ingesting", meetings[m])
  /\ UNCHANGED <<data, google, analyses, dead, requests, crashes>>

(* The statuses the transaction walks through before INGESTED.              *)
Advanced(status) ==
  IF status \in {"DISCOVERED", "WAITING_FOR_ARTIFACTS", "ARTIFACTS_AVAILABLE", "FAILED"}
  THEN "INGESTING" ELSE status

(* A row read as INGESTED keeps its status.  The exclusion is taken from    *)
(* the row the last update returned, not from the one read.  The unique     *)
(* index on the checksum refuses the second of two ingestions.              *)
IngestCommit(j) ==
  LET m == fetches[j].meeting
      read == fetches[j].row.status
      written == IF read = "INGESTED" THEN meetings[m].status ELSE "INGESTED"
  IN
  /\ FetchAt(j, "deduplicating") \/ (FetchAt(j, "ingesting") /\ m \notin stored)
  /\ CanSetProcessing(Advanced(read), "INGESTED")
  /\ IF meetings[m].excluded
     THEN /\ CanSetProcessing(written, "COMPLETED")
          /\ WriteStatus(m, "COMPLETED") /\ FetchTo(j, "finished", None)
     ELSE WriteStatus(m, written) /\ FetchTo(j, "ingested", None)
  /\ stored' = stored \cup {m}
  /\ UNCHANGED <<google, analyses, dead, requests, crashes>>

(* Mutant: the analysis is not enqueued.                                    *)
EnqueueNothing(j) ==
  /\ FetchAt(j, "ingested")
  /\ FetchTo(j, "finished", None)
  /\ UNCHANGED <<data, google, analyses, dead, requests, crashes>>

EnqueueAnalysis(j) ==
  /\ FetchAt(j, "ingested")
  /\ SendAnalysis(fetches[j].meeting)
  /\ FetchTo(j, "finished", None)
  /\ UNCHANGED <<data, google, dead, requests, crashes>>

(* Any other error (a CONFLICT, the unique index, a permission, the         *)
(* database, the queue): the catch writes FAILED whatever the status is.    *)
FetchBreaks(j) ==
  /\ fetches[j] # None
  /\ fetches[j].step \in {"calling", "ingesting", "deduplicating", "ingested"}
  /\ WriteStatus(fetches[j].meeting, "FAILED")
  /\ ThrowFetch(j)
  /\ UNCHANGED <<stored, google, analyses, requests, crashes>>

Fetch(j) ==
  \/ FetchStart(j) \/ FetchDefers(j) \/ FetchGivesUp(j)
  \/ FetchUnreachable(j) \/ FetchCloses(j)
  \/ IngestRead(j) \/ IngestCommit(j) \/ EnqueueAnalysis(j) \/ FetchBreaks(j)

----------------------------------------------------------------------------
(* analyzeMeeting.                                                          *)

AnalysisStart(j) ==
  /\ AnalysisAt(j, "queued")
  /\ AnalysisTo(j, IF meetings[analyses[j].meeting].excluded
                   THEN "skipping" ELSE "loaded", None)
  /\ UNCHANGED <<data, google, fetches, dead, requests, crashes>>

AnalysisSkips(j) ==
  LET m == analyses[j].meeting IN
  /\ AnalysisAt(j, "skipping")
  /\ IF meetings[m].status = "INGESTED"
     THEN WriteStatus(m, "COMPLETED") ELSE UNCHANGED meetings
  /\ AnalysisTo(j, "finished", None)
  /\ UNCHANGED <<stored, google, fetches, dead, requests, crashes>>

ClaimRead(j) ==
  /\ AnalysisAt(j, "loaded")
  /\ AnalysisTo(j, "claiming", meetings[analyses[j].meeting])
  /\ UNCHANGED <<data, google, fetches, dead, requests, crashes>>

(* The run is registered and the meeting marked; then the model is asked.   *)
ClaimCommit(j) ==
  LET read == analyses[j].row.status IN
  /\ AnalysisAt(j, "claiming")
  /\ CanSetProcessing(read, "ANALYZING")
  /\ IF read = "ANALYZING" THEN UNCHANGED meetings
     ELSE WriteStatus(analyses[j].meeting, "ANALYZING")
  /\ AnalysisTo(j, "asking", None)
  /\ UNCHANGED <<stored, google, fetches, dead, requests, crashes>>

(* Mutant: the failure of the model is swallowed.                           *)
AnalysisBreaksSilently(j) ==
  /\ AnalysisAt(j, "claiming") \/ AnalysisAt(j, "asking")
  /\ AnalysisTo(j, "finished", None)
  /\ UNCHANGED <<data, google, fetches, dead, requests, crashes>>

(* The claim is refused, or the model fails: both catches write FAILED.     *)
AnalysisBreaks(j) ==
  /\ AnalysisAt(j, "claiming") \/ AnalysisAt(j, "asking")
  /\ WriteStatus(analyses[j].meeting, "FAILED")
  /\ ThrowAnalysis(j)
  /\ UNCHANGED <<stored, google, fetches, requests, crashes>>

AnswerRead(j) ==
  /\ AnalysisAt(j, "asking")
  /\ AnalysisTo(j, "saving", meetings[analyses[j].meeting])
  /\ UNCHANGED <<data, google, fetches, dead, requests, crashes>>

(* The whole row as it was read goes back, with its new status.             *)
SaveCommit(j) ==
  LET row == analyses[j].row IN
  /\ AnalysisAt(j, "saving")
  /\ CanSetProcessing(row.status, "ANALYZED")
  /\ \E outcome \in {"REVIEW_REQUIRED", "COMPLETED"} :
       Write(analyses[j].meeting, [row EXCEPT !.status = outcome])
  /\ AnalysisTo(j, "finished", None)
  /\ UNCHANGED <<stored, google, fetches, dead, requests, crashes>>

(* Nothing catches an error of the second transaction.                      *)
SaveBreaks(j) ==
  /\ AnalysisAt(j, "saving")
  /\ ThrowAnalysis(j)
  /\ UNCHANGED <<data, google, fetches, requests, crashes>>

Analyze(j) ==
  \/ AnalysisStart(j) \/ AnalysisSkips(j) \/ ClaimRead(j) \/ ClaimCommit(j)
  \/ AnalysisBreaks(j) \/ AnswerRead(j) \/ SaveCommit(j) \/ SaveBreaks(j)

----------------------------------------------------------------------------
(* Users.  updateMeeting writes back the row it read before its transaction.*)

UpdateRead(r, m) ==
  /\ "update" \in Ops /\ requests[r] = None /\ Known(m)
  /\ \E exclude \in BOOLEAN \cup {None} :
       requests' = [requests EXCEPT ![r] =
         [meeting |-> m, step |-> "update", row |-> meetings[m], exclude |-> exclude]]
  /\ UNCHANGED <<data, google, queues, crashes>>

Updated(row, exclude) ==
  CASE exclude = TRUE /\ ~row.excluded ->
         [row EXCEPT !.excluded = TRUE, !.status = "EXCLUDED"]
    [] exclude = FALSE /\ row.excluded /\ row.status = "EXCLUDED" ->
         [row EXCEPT !.excluded = FALSE, !.status = "DISCOVERED"]
    [] OTHER -> [row EXCEPT !.excluded = IF exclude = None THEN @ ELSE exclude]

UpdateCommit(r) ==
  /\ requests[r] # None /\ requests[r].step = "update"
  /\ Write(requests[r].meeting, Updated(requests[r].row, requests[r].exclude))
  /\ requests' = [requests EXCEPT ![r] = None]
  /\ UNCHANGED <<stored, google, queues, crashes>>

(* reprocessMeeting; retryFailedMeetings is the same without a person, for  *)
(* FAILED meetings.  First the job, then the status of the meeting.         *)
Reprocessable == {"FAILED", "COMPLETED", "ANALYZED", "REVIEW_REQUIRED",
                  "INGESTED", "WAITING_FOR_ARTIFACTS"}

(* Mutant: the transcripts are not looked up.                               *)
ReprocessBlindly(r, m) ==
  /\ "reprocess" \in Ops /\ requests[r] = None /\ Known(m)
  /\ ~meetings[m].excluded /\ meetings[m].status \in Reprocessable
  /\ requests' = [requests EXCEPT ![r] =
       [meeting |-> m, step |-> "analyze", row |-> None, exclude |-> None]]
  /\ UNCHANGED <<data, google, queues, crashes>>

Reprocess(r, m) ==
  /\ "reprocess" \in Ops /\ requests[r] = None /\ Known(m)
  /\ ~meetings[m].excluded /\ meetings[m].status \in Reprocessable
  /\ requests' = [requests EXCEPT ![r] =
       [meeting |-> m, row |-> None, exclude |-> None,
        step |-> IF m \in stored THEN "analyze"
                 ELSE IF meetings[m].status = "FAILED" THEN "fetchAndMark"
                 ELSE "fetch"]]
  /\ UNCHANGED <<data, google, queues, crashes>>

RequestEnqueues(r) ==
  /\ requests[r] # None
  /\ \/ /\ requests[r].step = "analyze" /\ SendAnalysis(requests[r].meeting)
        /\ requests' = [requests EXCEPT ![r] = None] /\ UNCHANGED fetches
     \/ /\ requests[r].step = "fetch" /\ SendFetch(requests[r].meeting)
        /\ requests' = [requests EXCEPT ![r] = None] /\ UNCHANGED analyses
     \/ /\ requests[r].step = "fetchAndMark" /\ SendFetch(requests[r].meeting)
        /\ requests' = [requests EXCEPT ![r].step = "mark"] /\ UNCHANGED analyses
  /\ UNCHANGED <<data, google, dead, crashes>>

RequestMarks(r) ==
  /\ requests[r] # None /\ requests[r].step = "mark"
  /\ WriteStatus(requests[r].meeting, "WAITING_FOR_ARTIFACTS")
  /\ requests' = [requests EXCEPT ![r] = None]
  /\ UNCHANGED <<stored, google, queues, crashes>>

(* createManualMeeting: the job is sent after the transaction.              *)
Import(r, m) ==
  /\ "import" \in Ops /\ requests[r] = None /\ ~Known(m)
  /\ Write(m, [status |-> "INGESTED", excluded |-> FALSE, linked |-> FALSE])
  /\ stored' = stored \cup {m}
  /\ requests' = [requests EXCEPT ![r] =
       [meeting |-> m, step |-> "analyze", row |-> None, exclude |-> None]]
  /\ UNCHANGED <<google, queues, crashes>>

(* The API process dies between two steps; nobody resumes the request.      *)
Abandon(r) ==
  /\ requests[r] # None
  /\ crashes < MaxCrashes /\ crashes' = crashes + 1
  /\ requests' = [requests EXCEPT ![r] = None]
  /\ UNCHANGED <<data, google, queues>>

People ==
  \E r \in Requests :
    \/ \E m \in Meetings : UpdateRead(r, m) \/ Reprocess(r, m) \/ Import(r, m)
    \/ UpdateCommit(r) \/ RequestEnqueues(r) \/ RequestMarks(r) \/ Abandon(r)

----------------------------------------------------------------------------
(* Google: the calendar, the notices of a conference, its artifacts, and    *)
(* the periodic search for records no notice told of.                       *)

(* upsertMeetingFromEvent, for a meeting seen for the first time.           *)
Discover(m) ==
  /\ ~Known(m)
  /\ Write(m, [status |-> "DISCOVERED", excluded |-> FALSE, linked |-> FALSE])
  /\ UNCHANGED <<stored, google, queues, requests, crashes>>

ArtifactsReady(m) ==
  /\ m \notin ready /\ ready' = ready \cup {m}
  /\ UNCHANGED <<data, heard, queues, requests, crashes>>

(* findOrCreateMeetingForRecord.                                            *)
Recorded(m) ==
  IF Known(m) THEN [meetings[m] EXCEPT !.linked = TRUE]
  ELSE [status |-> "DISCOVERED", excluded |-> FALSE, linked |-> TRUE]

Hear(notice, m) ==
  /\ notice \in Notices /\ <<notice, m>> \notin heard
  /\ heard' = heard \cup {<<notice, m>>}

ConferenceStarted(m) ==
  /\ Hear("started", m)
  /\ Write(m, Recorded(m))
  /\ UNCHANGED <<stored, ready, queues, requests, crashes>>

ConferenceEnded(m) ==
  /\ Hear("ended", m)
  /\ Write(m, [Recorded(m) EXCEPT !.status =
                 IF @ = "DISCOVERED" THEN "WAITING_FOR_ARTIFACTS" ELSE @])
  /\ SendFetch(m)
  /\ UNCHANGED <<stored, ready, analyses, dead, requests, crashes>>

FileGenerated(m) ==
  /\ m \in ready /\ Hear("generated", m)
  /\ Write(m, [Recorded(m) EXCEPT !.status =
                 IF @ \in {"DISCOVERED", "WAITING_FOR_ARTIFACTS"}
                 THEN "ARTIFACTS_AVAILABLE" ELSE @])
  /\ SendFetch(m)
  /\ UNCHANGED <<stored, ready, analyses, dead, requests, crashes>>

(* reconcileMissingEvents: a linked meeting is fetched again; the record of *)
(* one that is not is searched, and found or not.                           *)
Reconcile(m) ==
  /\ Known(m) /\ meetings[m].status \in {"DISCOVERED", "WAITING_FOR_ARTIFACTS"}
  /\ \/ meetings[m].linked /\ SendFetch(m) /\ UNCHANGED meetings
     \/ /\ ~meetings[m].linked /\ SendFetch(m)
        /\ Write(m, [meetings[m] EXCEPT !.linked = TRUE, !.status = "WAITING_FOR_ARTIFACTS"])
     \/ /\ ~meetings[m].linked /\ m \in External
        /\ WriteStatus(m, "COMPLETED") /\ UNCHANGED fetches
     \/ /\ ~meetings[m].linked /\ m \notin External
        /\ \E status \in {"WAITING_FOR_ARTIFACTS", "FAILED"} : WriteStatus(m, status)
        /\ UNCHANGED fetches
  /\ UNCHANGED <<stored, google, analyses, dead, requests, crashes>>

Arrivals ==
  \E m \in Meetings :
    \/ Discover(m) \/ ArtifactsReady(m) \/ ConferenceStarted(m)
    \/ ConferenceEnded(m) \/ FileGenerated(m) \/ Reconcile(m)

----------------------------------------------------------------------------
Next ==
  \/ \E j \in Fetches : Fetch(j)
  \/ \E j \in Analyses : Analyze(j)
  \/ Ack \/ Crash \/ People \/ Arrivals

Spec == Init /\ [][Next]_vars

(* Workers keep polling their queues, and every call they make returns or   *)
(* times out.  Nothing is assumed of users, of Google or of crashes.        *)
Fairness ==
  /\ \A j \in Fetches : WF_vars(Fetch(j))
  /\ \A j \in Analyses : WF_vars(Analyze(j))
  /\ WF_vars(Ack)

FairSpec == Spec /\ Fairness

----------------------------------------------------------------------------
(* A meeting past ingestion has its transcript, and an analysis is only     *)
(* queued for one that has (reprocessMeeting looks it up, the other two     *)
(* senders have just saved it): the model is never asked about nothing.     *)
AnalysedWithTranscript ==
  \A m \in Meetings :
    \/ m \in stored
    \/ /\ \A j \in Analyses : analyses[j] = None \/ analyses[j].meeting # m
       /\ Known(m) => meetings[m].status \notin {"INGESTED", "ANALYZING", "REVIEW_REQUIRED"}

InFlight(m) == Known(m) /\ meetings[m].status \in {"INGESTED", "ANALYZING"}

(* A job or a request that will take meeting m further.                     *)
Owned(m) ==
  \/ \E j \in Fetches :
       /\ fetches[j] # None /\ fetches[j].meeting = m
       /\ fetches[j].step \notin {"closing", "finished"}
  \/ \E j \in Analyses :
       /\ analyses[j] # None /\ analyses[j].meeting = m
       /\ analyses[j].step # "finished"
  \/ \E r \in Requests :
       requests[r] # None /\ requests[r].meeting = m /\ requests[r].step = "analyze"

(* A meeting that shows as ingested or being analysed has a job that will   *)
(* move it, or one in a dead-letter queue an operator can see: no crash     *)
(* between a commit and an enqueue, and no job overtaken by another, leaves *)
(* it there with nothing to wait for (reconcileMissingEvents would not find *)
(* it, and an ANALYZING meeting cannot be reprocessed).                     *)
InFlightIsOwned == \A m \in Meetings : InFlight(m) => Owned(m) \/ m \in dead

(* It does not stay there: its jobs end, whatever fails on the way.         *)
InFlightSettles == \A m \in Meetings : InFlight(m) ~> (~InFlight(m) \/ m \in dead)

(* The model is not asked about a meeting excluded from the analysis.       *)
ExcludedIsNotAsked ==
  [][\A j \in Analyses :
       AnalysisAt(j, "claiming") /\ analyses'[j] # None /\ analyses'[j].step = "asking" =>
         ~meetings[analyses[j].meeting].excluded]_vars

(* A meeting is analysed by one job at a time: reprocessing one that has a  *)
(* job in flight answers with that job (runbooks/reprocess-meeting.md:45).  *)
OneAnalysisInFlight ==
  \A j, k \in Analyses :
    j # k /\ analyses[j] # None /\ analyses[k] # None =>
      analyses[j].meeting # analyses[k].meeting
=============================================================================
