------------------------------ MODULE EventInbox ------------------------------
(***************************************************************************)
(* Google's notices about conferences: Pub/Sub pushes each one to the      *)
(* webhook of the API until it is acknowledged, the webhook writes it in   *)
(* the event log (once per cloudEventId) and applies it to the meetings.   *)
(*                                                                         *)
(* Several pushes are handled at once.  A handling is cut where others can *)
(* come in between: after the log was consulted, around the call to Google *)
(* that resolves an unknown conference, between the read of the meeting    *)
(* and the commit, before the log is updated, and before the answer.       *)
(*                                                                         *)
(* A meeting has at most two rows: the one the calendar announced and the  *)
(* one a notice made.  Artifact columns, dates and the count of attempts   *)
(* are left out: nothing here depends on them.                             *)
(***************************************************************************)
EXTENDS MeetingProcessing, Naturals

CONSTANTS
  Events,        \* cloudEventIds
  Conferences,
  Payloads,      \* what the events may tell, event by event
  ConferenceOf,  \* the conference each is about
  Planned,       \* conferences announced in a calendar
  Calls,         \* pushes handled at once
  MaxFaults      \* bounds errors of Google, rollbacks, crashes, lost answers

Kinds == {"started", "ended", "generated", "progress", "other", "nameless"}
Origins == {"calendar", "notice"}

ASSUME InboxAssumption ==
  /\ Payloads \subseteq [Events -> Kinds]
  /\ ConferenceOf \in [Events -> Conferences]
  /\ Planned \subseteq Conferences
  /\ MaxFaults \in Nat

VARIABLES
  kindOf,       \* what each event tells; never changes
  eventLog,     \* processingStatus of each event, "absent" before it is logged
  unacked,      \* events Pub/Sub keeps pushing
  calls,        \* the pushes being handled
  rows,         \* the meetings of each conference
  fetchesSent,  \* rows a fetch job was sent for
  faults

inboxVars == <<kindOf, eventLog, unacked, calls, rows, fetchesSent, faults>>

EventStatus == {"RECEIVED", "PROCESSED", "IGNORED", "FAILED"}

MeetingRow ==
  [status: {"absent", "SCHEDULED", "IN_PROGRESS", "ENDED", "CANCELLED"},
   linked: BOOLEAN, processing: ProcessingStatus]

NoRow == [status |-> "absent", linked |-> FALSE, processing |-> "DISCOVERED"]

Idle == [step |-> "idle"]

Handling ==
  [step: {"looking", "asking", "writing", "saving", "answering"}, event: Events,
   target: Origins, read: MeetingRow,
   outcome: {"none", "PROCESSED", "IGNORED", "FAILED", "REFUSED", "DUPLICATE"}]

InboxTypeOK ==
  /\ kindOf \in Payloads
  /\ eventLog \in [Events -> EventStatus \cup {"absent"}]
  /\ unacked \subseteq Events
  /\ calls \in [Calls -> Handling \cup {Idle}]
  /\ rows \in [Conferences \X Origins -> MeetingRow]
  /\ fetchesSent \subseteq Conferences \X Origins
  /\ faults \in 0..MaxFaults

InboxInit ==
  /\ kindOf \in Payloads
  /\ eventLog = [e \in Events |-> "absent"]
  /\ unacked = Events
  /\ calls = [k \in Calls |-> Idle]
  /\ rows = [at \in Conferences \X Origins |-> NoRow]
  /\ fetchesSent = {}
  /\ faults = 0

At(k, step) == calls[k].step = step
Kind(k) == kindOf[calls[k].event]
Conference(k) == ConferenceOf[calls[k].event]
To(k, call) == calls' = [calls EXCEPT ![k] = call]
Ends(k, outcome) ==
  To(k, [calls[k] EXCEPT !.step = "saving", !.outcome = outcome])
Fault == faults < MaxFaults /\ faults' = faults + 1

----------------------------------------------------------------------------
(* insertIfAbsent: only a failed event is handled a second time.            *)
Deliver(k, e) ==
  LET fresh == eventLog[e] \in {"absent", "FAILED"} IN
  /\ calls[k] = Idle /\ e \in unacked
  /\ To(k, [step |-> IF fresh THEN "looking" ELSE "answering", event |-> e,
            target |-> "notice", read |-> NoRow,
            outcome |-> IF fresh THEN "none" ELSE "DUPLICATE"])
  /\ eventLog' = [eventLog EXCEPT ![e] = IF @ = "absent" THEN "RECEIVED" ELSE @]
  /\ UNCHANGED <<kindOf, unacked, rows, fetchesSent, faults>>

(* No record in the payload, or a type nobody handles.                      *)
Ignore(k) ==
  /\ At(k, "looking") /\ Kind(k) \in {"nameless", "other"}
  /\ Ends(k, "IGNORED")
  /\ UNCHANGED <<kindOf, eventLog, unacked, rows, fetchesSent, faults>>

(* findByConferenceRecordId; a conference nobody linked is asked of Google. *)
LookUp(k) ==
  LET linked == {o \in Origins : rows[Conference(k), o].linked} IN
  /\ At(k, "looking") /\ Kind(k) \notin {"nameless", "other"}
  /\ \/ /\ linked = {} /\ To(k, [calls[k] EXCEPT !.step = "asking"])
     \/ \E o \in linked :
          To(k, [calls[k] EXCEPT !.step = "writing", !.target = o,
                                 !.read = rows[Conference(k), o]])
  /\ UNCHANGED <<kindOf, eventLog, unacked, rows, fetchesSent, faults>>

(* With its meeting code the conference may be one the calendar announced;  *)
(* without it, or when that meeting was cancelled or is taken, it gets a    *)
(* row of its own.                                                          *)
Resolve(k) ==
  LET planned == rows[Conference(k), "calendar"]
      candidate == planned.status \notin {"absent", "CANCELLED"} /\ ~planned.linked
  IN
  /\ At(k, "asking")
  /\ \/ /\ candidate
        /\ To(k, [calls[k] EXCEPT !.step = "writing", !.target = "calendar", !.read = planned])
     \/ To(k, [calls[k] EXCEPT !.step = "writing", !.target = "notice",
                 !.read = [NoRow EXCEPT !.status = "IN_PROGRESS"]])
  /\ UNCHANGED <<kindOf, eventLog, unacked, rows, fetchesSent, faults>>

(* Google refuses (acknowledged, for retrying would not help) or is away.   *)
GoogleFails(k) ==
  /\ At(k, "asking") /\ Fault
  /\ \E outcome \in {"FAILED", "REFUSED"} : Ends(k, outcome)
  /\ UNCHANGED <<kindOf, eventLog, unacked, rows, fetchesSent>>

(* What each kind writes.  The conditions look at the row that was read.    *)
Noted(kind, read, row) ==
  CASE kind = "started" ->
         IF read.status # "ENDED" THEN [row EXCEPT !.status = "IN_PROGRESS"] ELSE row
    [] kind = "ended" ->
         [row EXCEPT !.status = "ENDED",
                     !.processing = IF read.processing = "DISCOVERED"
                                    THEN "WAITING_FOR_ARTIFACTS" ELSE @]
    [] kind = "generated" ->
         [row EXCEPT !.processing =
            IF read.processing \in {"DISCOVERED", "WAITING_FOR_ARTIFACTS"}
            THEN "ARTIFACTS_AVAILABLE" ELSE @]
    [] OTHER -> row

Fetched(kind) == kind \in {"ended", "generated"}

(* The unique index on the conference record: a row may carry it if no      *)
(* other row does, and it is inserted once.                                 *)
Admitted(k) ==
  LET call == calls[k] IN
  \/ call.read.linked
  \/ /\ \A o \in Origins \ {call.target} : ~rows[Conference(k), o].linked
     /\ call.target = "notice" => rows[Conference(k), "notice"] = NoRow

(* Mutant: the job is forgotten when the meeting was not known.             *)
CommitWithoutFetch(k) ==
  LET call == calls[k]
      at == <<Conference(k), call.target>>
      row == IF call.read.linked THEN rows[at] ELSE [call.read EXCEPT !.linked = TRUE]
  IN
  /\ At(k, "writing") /\ Admitted(k)
  /\ rows' = [rows EXCEPT ![at] = Noted(Kind(k), call.read, row)]
  /\ fetchesSent' = fetchesSent \cup
       (IF Fetched(Kind(k)) /\ call.read.linked THEN {at} ELSE {})
  /\ Ends(k, "PROCESSED")
  /\ UNCHANGED <<kindOf, eventLog, unacked, faults>>

(* A row found linked is patched column by column; one linked or made here  *)
(* is saved whole, as it was read.                                          *)
Commit(k) ==
  LET call == calls[k]
      at == <<Conference(k), call.target>>
      row == IF call.read.linked THEN rows[at] ELSE [call.read EXCEPT !.linked = TRUE]
  IN
  /\ At(k, "writing") /\ Admitted(k)
  /\ rows' = [rows EXCEPT ![at] = Noted(Kind(k), call.read, row)]
  /\ fetchesSent' = fetchesSent \cup (IF Fetched(Kind(k)) THEN {at} ELSE {})
  /\ Ends(k, "PROCESSED")
  /\ UNCHANGED <<kindOf, eventLog, unacked, faults>>

(* The job leaves through another connection: a rollback does not call it   *)
(* back, even if the row it names was never committed.                      *)
RollBack(k) ==
  /\ At(k, "writing")
  /\ \/ /\ ~Admitted(k) /\ UNCHANGED <<fetchesSent, faults>>
     \/ /\ Admitted(k) /\ Fault
        /\ \/ UNCHANGED fetchesSent
           \/ /\ Fetched(Kind(k))
              /\ fetchesSent' = fetchesSent \cup {<<Conference(k), calls[k].target>>}
  /\ Ends(k, "FAILED")
  /\ UNCHANGED <<kindOf, eventLog, unacked, rows>>

(* The log is written after the transaction, whole, as it was first read.   *)
SaveEvent(k) ==
  LET outcome == calls[k].outcome IN
  /\ At(k, "saving")
  /\ eventLog' = [eventLog EXCEPT ![calls[k].event] =
                    IF outcome = "REFUSED" THEN "FAILED" ELSE outcome]
  /\ To(k, [calls[k] EXCEPT !.step = "answering"])
  /\ UNCHANGED <<kindOf, unacked, rows, fetchesSent, faults>>

(* Mutant: a duplicate is answered as an error.                             *)
AnswerDuplicatesWithErrors(k) ==
  /\ At(k, "answering")
  /\ \/ /\ unacked' = IF calls[k].outcome \in {"FAILED", "DUPLICATE"} THEN unacked
                      ELSE unacked \ {calls[k].event}
        /\ UNCHANGED faults
     \/ Fault /\ UNCHANGED unacked
  /\ To(k, Idle)
  /\ UNCHANGED <<kindOf, eventLog, rows, fetchesSent>>

(* 204 acknowledges, 500 asks for another push; the answer may come too     *)
(* late for Pub/Sub.                                                        *)
Answer(k) ==
  /\ At(k, "answering")
  /\ \/ /\ unacked' = IF calls[k].outcome = "FAILED" THEN unacked
                      ELSE unacked \ {calls[k].event}
        /\ UNCHANGED faults
     \/ Fault /\ UNCHANGED unacked
  /\ To(k, Idle)
  /\ UNCHANGED <<kindOf, eventLog, rows, fetchesSent>>

(* The API process dies: what was committed stays.                          *)
Dies(k) ==
  /\ calls[k] # Idle /\ Fault
  /\ To(k, Idle)
  /\ UNCHANGED <<kindOf, eventLog, unacked, rows, fetchesSent>>

----------------------------------------------------------------------------
(* The calendar announces or cancels a meeting that has not ended.          *)
Announce(c) ==
  LET at == <<c, "calendar">> IN
  /\ c \in Planned
  /\ \/ /\ rows[at] = NoRow /\ ~rows[c, "notice"].linked
        /\ rows' = [rows EXCEPT ![at].status = "SCHEDULED"]
     \/ /\ rows[at].status \in {"SCHEDULED", "IN_PROGRESS"}
        /\ rows' = [rows EXCEPT ![at].status = "CANCELLED"]
  /\ UNCHANGED <<kindOf, eventLog, unacked, calls, fetchesSent, faults>>

(* A fetch sent earlier takes the meeting on.                               *)
PipelineMoves(at) ==
  /\ at \in fetchesSent
  /\ rows[at].processing \in {"WAITING_FOR_ARTIFACTS", "ARTIFACTS_AVAILABLE"}
  /\ rows' = [rows EXCEPT ![at].processing = "INGESTED"]
  /\ UNCHANGED <<kindOf, eventLog, unacked, calls, fetchesSent, faults>>

Handle(k) ==
  \/ Ignore(k) \/ LookUp(k) \/ Resolve(k) \/ GoogleFails(k)
  \/ Commit(k) \/ RollBack(k) \/ SaveEvent(k) \/ Answer(k)

(* Pub/Sub goes on pushing what was not acknowledged; which handler takes   *)
(* it does not matter.                                                      *)
Push(e) ==
  /\ \E k \in Calls : calls[k] = Idle
  /\ Deliver(CHOOSE k \in Calls : calls[k] = Idle, e)

InboxNext ==
  \/ \E k \in Calls :
       Handle(k) \/ Dies(k)
  \/ \E e \in Events : Push(e)
  \/ \E c \in Conferences : Announce(c)
  \/ \E at \in Conferences \X Origins : PipelineMoves(at)

InboxSpec == InboxInit /\ [][InboxNext]_inboxVars

----------------------------------------------------------------------------
(* An ended conference or a finished transcript that the log shows as       *)
(* processed has its meeting linked to the record and a fetch sent for it,  *)
(* whatever pushes overlap, race to create the meeting, roll back or crash: *)
(* what was lost always shows as RECEIVED or FAILED.                        *)
ProcessedIsFetched ==
  \A e \in Events :
    Fetched(kindOf[e]) /\ eventLog[e] = "PROCESSED" =>
      \E o \in Origins :
        rows[ConferenceOf[e], o].linked /\ <<ConferenceOf[e], o>> \in fetchesSent

(* Pub/Sub is not left pushing for ever what the log has: errors stop being *)
(* retried once Google and the database answer, and the push that lost the  *)
(* race for the unique index is applied when it comes again.                *)
NoticesAreAnswered ==
  \A e \in Events : eventLog[e] # "absent" ~> e \notin unacked
=============================================================================
