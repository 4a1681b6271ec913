---------------------------- MODULE DigestSchedule ----------------------------
(***************************************************************************)
(* When the weekly digest runs: the configuration an administrator edits,  *)
(* the cron entry of GENERATE_WEEKLY_DIGEST in the queue, and the watcher  *)
(* of the worker that compares the configuration with what it saw an hour  *)
(* before.  The API saves the configuration and then schedules it; the     *)
(* watcher looks first and then reads again, so the two interleave.        *)
(***************************************************************************)
EXTENDS Naturals

CONSTANTS
  Times,       \* cron lines: day, hour and zone
  Admins,      \* requests editing the configuration at once
  Never,       \* nothing scheduled
  MaxHitches   \* bounds refusals of the queue and restarts of the worker

ASSUME ScheduleAssumption ==
  Times # {} /\ Never \notin Times /\ MaxHitches \in Nat

VARIABLES
  config,      \* WeeklyDigestConfig: enabled and time
  digestFlag,  \* WEEKLY_DIGEST_ENABLED
  cron,        \* what the queue fires
  last,        \* the watcher's memory, lost with the worker
  watcher,     \* what it is about to apply
  requests,    \* configuration requests between save and schedule
  hitches,
  dropped      \* a save whose scheduling failed, nothing scheduled since (history)

scheduleVars == <<config, digestFlag, cron, last, watcher, requests, hitches, dropped>>

Schedule == [enabled: BOOLEAN, time: Times]
Asleep == [step |-> "asleep"]
NoRequest == [step |-> "none"]

ScheduleTypeOK ==
  /\ config \in Schedule
  /\ digestFlag \in BOOLEAN
  /\ cron \in Times \cup {Never}
  /\ last \in Schedule \cup {Never}
  /\ watcher \in [step: {"acting"}, next: Schedule] \cup {Asleep}
  /\ requests \in [Admins -> [step: {"saved"}] \cup [step: {"read"}, time: Times] \cup {NoRequest}]
  /\ hitches \in 0..MaxHitches
  /\ dropped \in BOOLEAN

(* A worker that starts has no memory: its first look schedules.            *)
ScheduleInit ==
  /\ config \in Schedule /\ digestFlag \in BOOLEAN
  /\ cron = Never /\ last = Never
  /\ watcher = Asleep
  /\ requests = [a \in Admins |-> NoRequest]
  /\ hitches = 0 /\ dropped = FALSE

----------------------------------------------------------------------------
(* updateDigestConfig: the save commits, then scheduleWeeklyDigest reads    *)
(* the configuration again and registers it, if it is enabled.              *)
SaveConfig(a) ==
  /\ requests[a] = NoRequest
  /\ config' \in Schedule
  /\ requests' = [requests EXCEPT ![a] = [step |-> "saved"]]
  /\ UNCHANGED <<digestFlag, cron, last, watcher, hitches, dropped>>

ReadConfig(a) ==
  /\ requests[a].step = "saved"
  /\ requests' = [requests EXCEPT ![a] =
       IF config.enabled THEN [step |-> "read", time |-> config.time] ELSE NoRequest]
  /\ UNCHANGED <<config, digestFlag, cron, last, watcher, hitches, dropped>>

Register(a) ==
  /\ requests[a].step = "read"
  /\ cron' = requests[a].time /\ dropped' = FALSE
  /\ requests' = [requests EXCEPT ![a] = NoRequest]
  /\ UNCHANGED <<config, digestFlag, last, watcher, hitches>>

(* The queue or the API fails after the save.                               *)
DropRequest(a) ==
  /\ requests[a] # NoRequest
  /\ requests' = [requests EXCEPT ![a] = NoRequest]
  /\ dropped' = TRUE
  /\ UNCHANGED <<config, digestFlag, cron, last, watcher, hitches>>

SetFlag ==
  /\ digestFlag' = ~digestFlag
  /\ UNCHANGED <<config, cron, last, watcher, requests, hitches, dropped>>

(* applyDigestSchedule: nothing is done when nothing changed since the last *)
(* look; what the queue really holds is not consulted.                      *)
Look ==
  LET next == [config EXCEPT !.enabled = @ /\ digestFlag] IN
  /\ watcher = Asleep
  /\ IF last = next
     THEN UNCHANGED <<last, watcher>>
     ELSE watcher' = [step |-> "acting", next |-> next] /\ UNCHANGED last
  /\ UNCHANGED <<config, digestFlag, cron, requests, hitches, dropped>>

(* Scheduling reads the configuration once more.                            *)
Act ==
  /\ watcher.step = "acting"
  /\ cron' = IF ~watcher.next.enabled THEN Never
             ELSE IF config.enabled THEN config.time ELSE cron
  /\ last' = watcher.next
  /\ dropped' = (dropped /\ watcher.next.enabled /\ ~config.enabled)
  /\ watcher' = Asleep
  /\ UNCHANGED <<config, digestFlag, requests, hitches>>

Hitch == hitches < MaxHitches /\ hitches' = hitches + 1

(* Mutant: what was seen is noted before the queue answered.                *)
ActFailsNoted ==
  /\ watcher.step = "acting" /\ Hitch
  /\ last' = watcher.next
  /\ watcher' = Asleep
  /\ UNCHANGED <<config, digestFlag, cron, requests, dropped>>

(* The queue does not answer: last stays, the next look tries again.        *)
ActFails ==
  /\ watcher.step = "acting" /\ Hitch
  /\ watcher' = Asleep
  /\ UNCHANGED <<config, digestFlag, cron, last, requests, dropped>>

RestartWorker ==
  /\ Hitch
  /\ last' = Never /\ watcher' = Asleep
  /\ UNCHANGED <<config, digestFlag, cron, requests, dropped>>

Respond(a) == ReadConfig(a) \/ Register(a)

ScheduleNext ==
  \/ \E a \in Admins : SaveConfig(a) \/ Respond(a) \/ DropRequest(a)
  \/ SetFlag \/ Look \/ Act \/ ActFails \/ RestartWorker

ScheduleSpec == ScheduleInit /\ [][ScheduleNext]_scheduleVars

(* The watcher's timer goes on, the queue answers when it does not fail and *)
(* requests end.                                                            *)
FairScheduleSpec ==
  /\ ScheduleSpec
  /\ WF_scheduleVars(Look) /\ WF_scheduleVars(Act)
  /\ \A a \in Admins : WF_scheduleVars(Respond(a))

----------------------------------------------------------------------------
Wanted(time) == config = [enabled |-> TRUE, time |-> time] /\ digestFlag

(* A digest that stays enabled at a time is scheduled at that time in the   *)
(* end, whatever was toggled before, however looks and edits interleave and *)
(* the worker restarts: with one administrator at a time, and unless the    *)
(* last scheduling failed at a moment the watcher saw no change.            *)
EnabledIsScheduled ==
  \A time \in Times : <>[](Wanted(time) /\ ~dropped) => <>[](cron = time)

(* A digest that stays disabled is no longer scheduled in the end.          *)
DisabledIsNotScheduled == <>[](~config.enabled) => <>[](cron = Never)
=============================================================================
