---------------------------- MODULE MeetingCapture ----------------------------
(***************************************************************************)
(* How a meeting gets into the pipeline: the calendar announces it         *)
(* (discoverMeetingsFromCalendar, incremental, with a sync token), a       *)
(* notice of Google ends it, and when no notice came the safety net        *)
(* (reconcileMissingEvents) looks for its conference record.  All three    *)
(* write the meeting, and a user may edit it meanwhile.                    *)
(*                                                                         *)
(* The sync transaction spans many events and its reads are cut from its   *)
(* commit; so are the first read of the safety net from its transaction,   *)
(* and the read of an edit from its save.  Saves write whole rows.  The    *)
(* automatic capture (a column of the artifacts) is left out.              *)
(***************************************************************************)
EXTENDS Naturals

CONSTANTS
  Occasions,      \* meetings of the calendar of one monitored user
  Syncs,          \* calendar syncs under way at once
  Sweeps,         \* runs of the safety net at once
  Editors,        \* users editing a meeting
  MaxVersion,     \* bounds the changes of a calendar event
  MaxSlips        \* bounds edits, failed calls, crashes and lost tokens

ASSUME CaptureAssumption == MaxVersion \in Nat /\ MaxSlips \in Nat

VARIABLES
  hosted,      \* occasions with a host or an attendee of the company; fixed
  agenda,      \* the event at Google: version (0: none yet) and cancellation
  cursor,      \* the versions the stored sync token covers
  expired,     \* Google no longer honours the token (410), or there is none
  captured,    \* rows of each occasion: the calendar's and a notice's
  syncs,
  sweeps,
  edits,
  phase,       \* before its end, up to 24 h, up to 48 h, and later
  held,        \* occasions with a conference record at Google
  netJobs,     \* rows with a reconcile-missing-events job
  taken,       \* rows a fetch was sent for
  swept,       \* rows the safety net saw to since they were last disturbed
  overwritten, \* occasions whose row a user saved over a newer one (history)
  slips

captureVars == <<hosted, agenda, cursor, expired, captured, syncs, sweeps, edits,
                 phase, held, netJobs, taken, swept, overwritten, slips>>

Makers == {"calendar", "notice"}
Places == Occasions \X Makers

CapturedRow ==
  [status: {"absent", "SCHEDULED", "IN_PROGRESS", "ENDED", "CANCELLED"},
   linked: BOOLEAN, seen: 0..MaxVersion,
   processing: {"DISCOVERED", "WAITING_FOR_ARTIFACTS", "COMPLETED", "FAILED"}]

Nowhere ==
  [status |-> "absent", linked |-> FALSE, seen |-> 0, processing |-> "DISCOVERED"]

(* The versions in which the event stands cancelled.                        *)
AgendaItem == [version: 0..MaxVersion, dropped: SUBSET (1..MaxVersion)]
NoSync == [step |-> "idle"]
Sync == [step: {"asked", "upserting"}, full: BOOLEAN, since: [Occasions -> 0..MaxVersion],
         answer: [Occasions -> AgendaItem], found: [Places -> CapturedRow]]
NoSweep == [step |-> "idle"]
Sweep == [step: {"asking", "sending"}, at: Places, read: CapturedRow]
NoEdit == [step |-> "idle"]
Edit == [step: {"editing"}, at: Places, read: CapturedRow]

CaptureTypeOK ==
  /\ hosted \subseteq Occasions
  /\ agenda \in [Occasions -> AgendaItem]
  /\ cursor \in [Occasions -> 0..MaxVersion] /\ expired \in BOOLEAN
  /\ captured \in [Places -> CapturedRow]
  /\ syncs \in [Syncs -> Sync \cup {NoSync}]
  /\ sweeps \in [Sweeps -> Sweep \cup {NoSweep}]
  /\ edits \in [Editors -> Edit \cup {NoEdit}]
  /\ phase \in [Occasions -> {"ahead", "over", "aged", "gone"}]
  /\ held \subseteq Occasions
  /\ netJobs \subseteq Places /\ taken \subseteq Places /\ swept \subseteq Places
  /\ overwritten \subseteq Occasions
  /\ slips \in 0..MaxSlips

CaptureInit ==
  /\ hosted \in SUBSET Occasions
  /\ agenda = [c \in Occasions |-> [version |-> 0, dropped |-> {}]]
  /\ cursor = [c \in Occasions |-> 0] /\ expired = TRUE
  /\ captured = [at \in Places |-> Nowhere]
  /\ syncs = [s \in Syncs |-> NoSync]
  /\ sweeps = [w \in Sweeps |-> NoSweep]
  /\ edits = [x \in Editors |-> NoEdit]
  /\ phase = [c \in Occasions |-> "ahead"]
  /\ held = {} /\ netJobs = {} /\ taken = {} /\ swept = {}
  /\ overwritten = {} /\ slips = 0

Slip == slips < MaxSlips /\ slips' = slips + 1
calendarVars == <<hosted, agenda, cursor, expired, syncs>>
people == <<edits, overwritten>>
netVars == <<sweeps, netJobs, taken>>

----------------------------------------------------------------------------
(* The calendar of the user changes at Google.                              *)
Reschedule(c) ==
  /\ agenda[c].version < MaxVersion
  /\ \E cancelled \in BOOLEAN :
       /\ cancelled => agenda[c].version > 0
       /\ agenda' = [agenda EXCEPT ![c] =
            [version |-> @.version + 1,
             dropped |-> @.dropped \cup (IF cancelled THEN {@.version + 1} ELSE {})]]
  /\ UNCHANGED <<hosted, cursor, expired, captured, syncs, people, phase, held, swept, slips, netVars>>

LoseToken ==
  /\ ~expired /\ expired' = TRUE /\ Slip
  /\ UNCHANGED <<hosted, agenda, cursor, captured, syncs, people, phase, held, swept, netVars>>

(* syncEvents: what changed since the token, or everything.  An error of    *)
(* Google ends the sync here and leaves the token alone.                    *)
AskCalendar(s) ==
  /\ syncs[s] = NoSync
  /\ syncs' = [syncs EXCEPT ![s] =
       [step |-> "asked", full |-> expired, since |-> cursor, answer |-> agenda,
        found |-> [at \in Places |-> Nowhere]]]
  /\ UNCHANGED <<hosted, agenda, cursor, expired, captured, people, phase, held, swept, slips, netVars>>

ReadMeetings(s) ==
  /\ syncs[s].step = "asked"
  /\ syncs' = [syncs EXCEPT ![s].step = "upserting", ![s].found = captured]
  /\ UNCHANGED <<hosted, agenda, cursor, expired, captured, people, phase, held, swept, slips, netVars>>

Cancelled(item) == item.version \in item.dropped

(* By calendarEventId, else by the meeting code.                            *)
Existing(c, found) ==
  {at \in {c} \X Makers :
     /\ found[at].status # "absent"
     /\ found[at].seen > 0 \/ (\A o \in {c} \X Makers : found[o].seen = 0)}

(* upsertMeetingFromEvent: the row it writes, if any.  A meeting that ended *)
(* or was cancelled is left alone, even by an event that is held after all. *)
Upserted(c, sync, at) ==
  LET item == sync.answer[c]
      row == sync.found[at]
      existing == Existing(c, sync.found)
  IN CASE existing = {} /\ ~Cancelled(item) /\ at = <<c, "calendar">> ->
            [Nowhere EXCEPT !.status = "SCHEDULED", !.seen = item.version]
       [] at \in existing /\ row.status \in {"SCHEDULED", "IN_PROGRESS"} ->
            IF Cancelled(item) THEN [row EXCEPT !.status = "CANCELLED"]
            ELSE [row EXCEPT !.seen = item.version]
       [] OTHER -> row

(* The events of the answer, and the rows their upsert changes.             *)
Told(s, c) ==
  /\ syncs[s].answer[c].version > 0
  /\ syncs[s].full \/ syncs[s].answer[c].version > syncs[s].since[c]

Changed(s) ==
  {at \in Places : Told(s, at[1]) /\ Upserted(at[1], syncs[s], at) # syncs[s].found[at]}

(* Mutant: an event that cannot be stored is skipped.                       *)
SkipBadEvents(s) ==
  /\ syncs[s].step = "upserting"
  /\ \E stored \in SUBSET Changed(s) :
       /\ captured' = [at \in Places |->
            IF at \in stored THEN Upserted(at[1], syncs[s], at) ELSE captured[at]]
       /\ netJobs' = netJobs \cup {at \in stored : syncs[s].found[at] = Nowhere}
       /\ swept' = swept \ stored
  /\ cursor' = [c \in Occasions |-> syncs[s].answer[c].version]
  /\ expired' = FALSE
  /\ syncs' = [syncs EXCEPT ![s] = NoSync]
  /\ UNCHANGED <<hosted, agenda, sweeps, people, phase, held, taken, slips>>

(* One transaction for all the events and the token.  A meeting made here   *)
(* gets a job of the safety net for after its end.                          *)
CommitSync(s) ==
  /\ syncs[s].step = "upserting"
  /\ captured' = [at \in Places |->
       IF at \in Changed(s) THEN Upserted(at[1], syncs[s], at) ELSE captured[at]]
  /\ netJobs' = netJobs \cup {at \in Changed(s) : syncs[s].found[at] = Nowhere}
  /\ cursor' = [c \in Occasions |-> syncs[s].answer[c].version]
  /\ expired' = FALSE
  /\ swept' = swept \ Changed(s)
  /\ syncs' = [syncs EXCEPT ![s] = NoSync]
  /\ UNCHANGED <<hosted, agenda, sweeps, people, phase, held, taken, slips>>

(* Google, the database or the process fails: all of it is rolled back.     *)
AbortSync(s) ==
  /\ syncs[s] # NoSync /\ Slip
  /\ syncs' = [syncs EXCEPT ![s] = NoSync]
  /\ UNCHANGED <<hosted, agenda, cursor, expired, captured, people, phase, held, swept, netVars>>

----------------------------------------------------------------------------
(* The notice of the end, handled in one go: on the row that has the        *)
(* record, on the calendar's if its code is resolved, or on a new one.      *)
Linked(c) == {at \in {c} \X Makers : captured[at].linked}

Ended(row) ==
  [row EXCEPT !.status = "ENDED", !.linked = TRUE,
              !.processing = IF @ = "DISCOVERED" THEN "WAITING_FOR_ARTIFACTS" ELSE @]

NoticeOfEnd(c) ==
  LET free == {at \in Places :
                 /\ at = <<c, "calendar">>
                 /\ captured[at].status \notin {"absent", "CANCELLED"}}
  IN
  /\ c \in held
  /\ \E at \in IF Linked(c) # {} THEN Linked(c) ELSE free \cup {<<c, "notice">>} :
       /\ captured' = [captured EXCEPT ![at] = Ended(@)]
       /\ taken' = taken \cup {at}
  /\ UNCHANGED <<calendarVars, sweeps, people, phase, held, netJobs, swept, slips>>

(* The pipeline carries a fetched meeting to its end.                       *)
Finish(at) ==
  /\ at \in taken /\ captured[at].linked
  /\ captured[at].processing = "WAITING_FOR_ARTIFACTS"
  /\ captured' = [captured EXCEPT ![at].processing = "COMPLETED"]
  /\ UNCHANGED <<calendarVars, people, phase, held, swept, slips, netVars>>

----------------------------------------------------------------------------
(* The safety net.  Every half hour: meetings that ended in the last 48 h   *)
(* and still wait.  By its own job: the meeting it was made for.            *)
Waiting(at) ==
  /\ captured[at].status \notin {"absent", "CANCELLED"}
  /\ captured[at].processing \in {"DISCOVERED", "WAITING_FOR_ARTIFACTS"}
  /\ phase[at[1]] \in {"over", "aged"}

BeginSweep(w, at) ==
  /\ sweeps[w] = NoSweep
  /\ \/ Waiting(at) /\ UNCHANGED netJobs
     \/ /\ at \in netJobs /\ phase[at[1]] # "ahead"
        /\ captured[at].status # "CANCELLED"
        /\ netJobs' = netJobs \ {at}
  /\ sweeps' = [sweeps EXCEPT ![w] = [step |-> "asking", at |-> at, read |-> captured[at]]]
  /\ UNCHANGED <<calendarVars, captured, people, phase, held, taken, swept, slips>>

EndSweep(w) ==
  /\ sweeps' = [sweeps EXCEPT ![w] = NoSweep]
  /\ swept' = swept \cup {sweeps[w].at}

(* It had its record already: the fetch is sent again.                      *)
SweepLinked(w) ==
  LET sweep == sweeps[w] IN
  /\ sweep.step = "asking" /\ sweep.read.linked
  /\ taken' = IF sweep.read.processing \in {"DISCOVERED", "WAITING_FOR_ARTIFACTS"}
              THEN taken \cup {sweep.at} ELSE taken
  /\ EndSweep(w)
  /\ UNCHANGED <<calendarVars, captured, people, phase, held, netJobs, slips>>

(* Google lists a record for the meeting code: the row is read again and    *)
(* saved with it; the unique index refuses it when another row has it.      *)
SweepFinds(w) ==
  LET at == sweeps[w].at IN
  /\ sweeps[w].step = "asking" /\ ~sweeps[w].read.linked /\ at[1] \in held
  /\ IF Linked(at[1]) \subseteq {at}
     THEN /\ captured' = [captured EXCEPT ![at] = Ended(@)]
          /\ sweeps' = [sweeps EXCEPT ![w].step = "sending"]
          /\ UNCHANGED swept
     ELSE UNCHANGED captured /\ EndSweep(w)
  /\ UNCHANGED <<calendarVars, people, phase, held, netJobs, taken, slips>>

(* Mutant: the meeting already shows as linked, nothing else to do.         *)
SweepSendsNothing(w) ==
  /\ sweeps[w].step = "sending"
  /\ EndSweep(w)
  /\ UNCHANGED <<calendarVars, captured, people, phase, held, netJobs, taken, slips>>

SweepSends(w) ==
  /\ sweeps[w].step = "sending"
  /\ taken' = taken \cup {sweeps[w].at}
  /\ EndSweep(w)
  /\ UNCHANGED <<calendarVars, captured, people, phase, held, netJobs, slips>>

(* No record.  Nobody of the company can see it: closed.  Otherwise it      *)
(* waits, with another job in an hour, and fails after a day.  A status     *)
(* that cannot go there makes the transaction throw; the catch only notes   *)
(* the error.                                                               *)
SweepMisses(w) ==
  LET at == sweeps[w].at
      open == captured[at].processing \in {"DISCOVERED", "WAITING_FOR_ARTIFACTS"}
      verdict == IF at[1] \notin hosted THEN "COMPLETED"
                 ELSE IF phase[at[1]] = "over" THEN "WAITING_FOR_ARTIFACTS" ELSE "FAILED"
  IN
  /\ sweeps[w].step = "asking" /\ ~sweeps[w].read.linked
  /\ at[1] \in held => at[1] \notin hosted
  /\ captured' =
       IF ~open THEN captured
       ELSE IF verdict = "WAITING_FOR_ARTIFACTS"
       THEN [captured EXCEPT ![at].processing = verdict]
       ELSE [captured EXCEPT ![at].processing = verdict, ![at].status = "ENDED"]
  /\ netJobs' = IF verdict = "WAITING_FOR_ARTIFACTS" THEN netJobs \cup {at} ELSE netJobs
  /\ EndSweep(w)
  /\ UNCHANGED <<calendarVars, people, phase, held, taken, slips>>

(* Google is away (noted on the row, nothing retried but by the schedule)   *)
(* or the worker dies, perhaps between the link and the fetch.              *)
SweepFails(w) ==
  /\ sweeps[w] # NoSweep /\ Slip
  /\ sweeps' = [sweeps EXCEPT ![w] = NoSweep]
  /\ UNCHANGED <<calendarVars, captured, people, phase, held, netJobs, taken, swept>>

----------------------------------------------------------------------------
(* updateMeeting: the row is read before the transaction and saved whole.   *)
BeginEdit(x, at) ==
  /\ edits[x] = NoEdit /\ captured[at].status # "absent"
  /\ Slip
  /\ edits' = [edits EXCEPT ![x] = [step |-> "editing", at |-> at, read |-> captured[at]]]
  /\ UNCHANGED <<calendarVars, captured, phase, held, swept, overwritten, netVars>>

EndEdit(x) ==
  /\ edits[x] # NoEdit
  /\ LET at == edits[x].at IN
     /\ edits[x].read.linked => Linked(at[1]) \subseteq {at}
     /\ captured' = [captured EXCEPT ![at] = edits[x].read]
     /\ swept' = swept \ {at}
     /\ overwritten' = IF captured[at] = edits[x].read THEN overwritten
                       ELSE overwritten \cup {at[1]}
  /\ edits' = [edits EXCEPT ![x] = NoEdit]
  /\ UNCHANGED <<calendarVars, phase, held, slips, netVars>>

(* The unique index refuses the save.                                       *)
EditRefused(x) ==
  /\ edits[x] # NoEdit /\ edits[x].read.linked
  /\ ~(Linked(edits[x].at[1]) \subseteq {edits[x].at})
  /\ edits' = [edits EXCEPT ![x] = NoEdit]
  /\ UNCHANGED <<calendarVars, captured, phase, held, swept, overwritten, slips, netVars>>

(* Hours pass: nobody is in the middle of anything, and the half-hourly job *)
(* has seen to what still waits with Google answering.                      *)
Pass(c) ==
  /\ \A s \in Syncs : syncs[s] = NoSync
  /\ \A w \in Sweeps : sweeps[w] = NoSweep
  /\ \A x \in Editors : edits[x] = NoEdit
  /\ \/ /\ phase[c] = "ahead" /\ phase' = [phase EXCEPT ![c] = "over"]
        /\ held' \in {held, held \cup {c}}
     \/ /\ phase[c] \in {"over", "aged"}
        /\ \A at \in {c} \X Makers : Waiting(at) => at \in swept
        /\ phase' = [phase EXCEPT ![c] = IF @ = "over" THEN "aged" ELSE "gone"]
        /\ UNCHANGED held
  /\ swept' = swept \ ({c} \X Makers)
  /\ UNCHANGED <<calendarVars, captured, people, slips, netVars>>

SyncStep(s) == ReadMeetings(s) \/ CommitSync(s)
SweepStep(w) ==
  SweepLinked(w) \/ SweepFinds(w) \/ SweepSends(w) \/ SweepMisses(w)
EditStep(x) == EndEdit(x) \/ EditRefused(x)

(* The half-hourly job turns to what still waits.                           *)
SweepWaiting(at) ==
  Waiting(at) /\ at \notin swept /\ \E w \in Sweeps : BeginSweep(w, at)

CaptureNext ==
  \/ \E s \in Syncs : AskCalendar(s) \/ SyncStep(s) \/ AbortSync(s)
  \/ \E w \in Sweeps :
       SweepStep(w) \/ SweepFails(w) \/ (\E at \in Places : BeginSweep(w, at))
  \/ \E x \in Editors : EditStep(x) \/ (\E at \in Places : BeginEdit(x, at))
  \/ \E c \in Occasions : Reschedule(c) \/ NoticeOfEnd(c) \/ Pass(c)
  \/ \E at \in Places : Finish(at)
  \/ LoseToken

CaptureSpec == CaptureInit /\ [][CaptureNext]_captureVars

----------------------------------------------------------------------------
(* The stored token never runs ahead of the stored meetings: an event it    *)
(* covers is in a row at that version or a later one, or its meeting is     *)
(* closed, so no change of the calendar is skipped by failed or restarted   *)
(* syncs, lost tokens and saves of others in the middle of a sync.  It      *)
(* takes syncs one by one, as a worker does, and a user who saves over a    *)
(* row is the exception.                                                    *)
TokenCoversMeetings ==
  \A c \in Occasions :
    \/ cursor[c] = 0 \/ cursor[c] \in agenda[c].dropped \/ c \in overwritten
    \/ \E at \in {c} \X Makers :
         captured[at].seen >= cursor[c] \/ captured[at].status \in {"ENDED", "CANCELLED"}

(* A meeting of the company that took place is not forgotten: its           *)
(* conference gets a fetch although no notice ever comes, Google fails for  *)
(* a while, workers die between two writes, and stale saves undo links.     *)
NoMeetingIsForgotten ==
  \A c \in Occasions :
    c \in hosted /\ phase[c] = "over" /\ c \in held /\ captured[c, "calendar"].status = "SCHEDULED"
      ~> \E at \in {c} \X Makers : at \in taken \/ captured[at].status = "CANCELLED"
=============================================================================
