------------------------------ MODULE DigestMail ------------------------------
(***************************************************************************)
(* The mails of the platform and the jobs that send them: the weekly       *)
(* digest (generated and sent by one job, or sent on request by the API)   *)
(* and the daily reminders.  Each mail has an idempotency key; what was    *)
(* sent is remembered by the process that sent it, in its memory.          *)
(*                                                                         *)
(* A send is cut between the check of the key, the answer of Gmail and the *)
(* note of the key; Gmail may take a mail and its answer be lost, which    *)
(* the HTTP retry takes for a failure.                                     *)
(***************************************************************************)
EXTENDS Naturals

CONSTANTS
  MaxEdition,   \* bounds the versions of the digest of a week
  Colleagues,   \* users with tasks due soon or overdue
  MaxMishaps    \* bounds lost answers, refusals, failed saves and crashes

ASSUME MailAssumption == MaxEdition \in Nat /\ MaxMishaps \in Nat

Editions == 1..MaxEdition
Processes == {"worker", "api"}
MailKeys == ({"digest"} \X Editions) \cup ({"reminder"} \X Colleagues)

VARIABLES
  sendEmail,   \* WeeklyDigestConfig.sendEmail and its feature flag
  editions,    \* versions generated so far
  sentAt,      \* those with sentAt
  digestJob,   \* the GENERATE_WEEKLY_DIGEST job
  remindJob,   \* the SEND_DUE_REMINDERS job: users still to be seen to
  sending,     \* the mail each process is sending
  remembered,  \* InMemoryNotificationLog of each process
  inbox,       \* mails delivered per key
  doubtful,    \* keys a process forgot, never noted, or another one sent (history)
  mishaps

mailVars == <<sendEmail, editions, sentAt, digestJob, remindJob, sending,
              remembered, inbox, doubtful, mishaps>>

NoMail == [step |-> "none"]
Sending == [step: {"checked", "accepted", "noted"}, key: MailKeys]
NoJob == [state |-> "none"]
MailCap == MaxMishaps + 3

MailTypeOK ==
  /\ sendEmail \in BOOLEAN
  /\ editions \in 0..MaxEdition /\ sentAt \subseteq Editions
  /\ digestJob \in [state: {"queued"}] \cup [state: {"generated"}, edition: Editions] \cup {NoJob}
  /\ remindJob \in [state: {"queued"}] \cup [state: {"active"}, rest: SUBSET Colleagues] \cup {NoJob}
  /\ sending \in [Processes -> Sending \cup {NoMail}]
  /\ remembered \in [Processes -> SUBSET MailKeys]
  /\ inbox \in [MailKeys -> 0..MailCap]
  /\ doubtful \subseteq MailKeys /\ mishaps \in 0..MaxMishaps

MailInit ==
  /\ sendEmail \in BOOLEAN
  /\ editions = 0 /\ sentAt = {}
  /\ digestJob = NoJob /\ remindJob = NoJob
  /\ sending = [p \in Processes |-> NoMail]
  /\ remembered = [p \in Processes |-> {}]
  /\ inbox = [k \in MailKeys |-> 0]
  /\ doubtful = {} /\ mishaps = 0

Mishap == mishaps < MaxMishaps /\ mishaps' = mishaps + 1
jobs == <<digestJob, remindJob>>
digests == <<sendEmail, editions, sentAt>>
post == <<sending, remembered, inbox, doubtful>>

----------------------------------------------------------------------------
(* GmailAdapter.send.                                                       *)
Check(p, k) ==
  /\ sending[p] = NoMail
  /\ IF k \in remembered[p]
     THEN sending' = [sending EXCEPT ![p] = [step |-> "noted", key |-> k]]
     ELSE sending' = [sending EXCEPT ![p] = [step |-> "checked", key |-> k]]
  /\ doubtful' = IF \E q \in Processes \ {p} :
                       k \in remembered[q] \/ (sending[q] # NoMail /\ sending[q].key = k)
                  THEN doubtful \cup {k} ELSE doubtful
  /\ UNCHANGED <<remembered, inbox>>

GmailTakes(p) ==
  LET k == sending[p].key IN
  /\ sending[p].step = "checked" /\ inbox[k] < MailCap
  /\ inbox' = [inbox EXCEPT ![k] = @ + 1]
  /\ \/ sending' = [sending EXCEPT ![p].step = "accepted"] /\ UNCHANGED <<doubtful, mishaps>>
     \/ Mishap /\ doubtful' = doubtful \cup {k} /\ UNCHANGED sending
  /\ UNCHANGED <<jobs, digests, remembered>>

(* Mutant: nobody notes the key.                                            *)
NoteNothing(p) ==
  /\ sending[p].step = "accepted"
  /\ sending' = [sending EXCEPT ![p].step = "noted"]
  /\ UNCHANGED <<jobs, digests, remembered, inbox, doubtful, mishaps>>

(* markSent *)
Note(p) ==
  /\ sending[p].step = "accepted"
  /\ remembered' = [remembered EXCEPT ![p] = @ \cup {sending[p].key}]
  /\ sending' = [sending EXCEPT ![p].step = "noted"]
  /\ UNCHANGED <<jobs, digests, inbox, doubtful, mishaps>>

----------------------------------------------------------------------------
(* The digest.  The cron, or a request, asks for one.                       *)
AskDigest ==
  /\ digestJob = NoJob /\ editions < MaxEdition
  /\ digestJob' = [state |-> "queued"]
  /\ UNCHANGED <<remindJob, digests, post, mishaps>>

(* Every generation is a version of its own, a retried one too; the unique  *)
(* index makes concurrent ones retry.                                       *)
Generate ==
  /\ digestJob.state = "queued" /\ editions < MaxEdition
  /\ editions' = editions + 1
  /\ digestJob' = [state |-> "generated", edition |-> editions + 1]
  /\ UNCHANGED <<remindJob, sendEmail, sentAt, post, mishaps>>

(* sendWeeklyDigest by the job: nothing to do when it is switched off.      *)
SendDigest ==
  /\ digestJob.state = "generated"
  /\ \/ ~sendEmail /\ digestJob' = NoJob /\ UNCHANGED post
     \/ sendEmail /\ Check("worker", <<"digest", digestJob.edition>>) /\ UNCHANGED digestJob
  /\ UNCHANGED <<remindJob, digests, mishaps>>

SendOnRequest(v) ==
  /\ v <= editions /\ sendEmail
  /\ Check("api", <<"digest", v>>)
  /\ UNCHANGED <<jobs, digests, mishaps>>

(* Mutant: the digest is marked as sent when it is handed to Gmail.         *)
MarkBeforeAnswer(p) ==
  LET k == sending[p].key IN
  /\ sending[p].step \in {"checked", "noted"} /\ k[1] = "digest"
  /\ sentAt' = sentAt \cup {k[2]}
  /\ IF sending[p].step = "noted"
     THEN /\ sending' = [sending EXCEPT ![p] = NoMail]
          /\ digestJob' = IF p = "worker" THEN NoJob ELSE digestJob
     ELSE UNCHANGED <<sending, digestJob>>
  /\ UNCHANGED <<remindJob, sendEmail, editions, remembered, inbox, doubtful, mishaps>>

(* The answer, or the memory of an earlier one, is recorded in the digest.  *)
MarkDigest(p) ==
  LET k == sending[p].key IN
  /\ sending[p].step = "noted" /\ k[1] = "digest"
  /\ sentAt' = sentAt \cup {k[2]}
  /\ sending' = [sending EXCEPT ![p] = NoMail]
  /\ digestJob' = IF p = "worker" THEN NoJob ELSE digestJob
  /\ UNCHANGED <<remindJob, sendEmail, editions, remembered, inbox, doubtful, mishaps>>

----------------------------------------------------------------------------
(* The reminders: one mail per user and day, one user after the other; an   *)
(* error leaves the rest to the next try of the job.                        *)
AskReminders ==
  /\ remindJob = NoJob
  /\ remindJob' = [state |-> "queued"]
  /\ UNCHANGED <<digestJob, digests, post, mishaps>>

StartReminders ==
  /\ remindJob.state = "queued"
  /\ remindJob' = [state |-> "active", rest |-> Colleagues]
  /\ UNCHANGED <<digestJob, digests, post, mishaps>>

Remind(u) ==
  /\ remindJob.state = "active" /\ u \in remindJob.rest
  /\ Check("worker", <<"reminder", u>>)
  /\ UNCHANGED <<jobs, digests, mishaps>>

Reminded ==
  LET k == sending["worker"].key
      rest == remindJob.rest \ {k[2]}
  IN
  /\ sending["worker"].step = "noted" /\ k[1] = "reminder"
  /\ sending' = [sending EXCEPT !["worker"] = NoMail]
  /\ remindJob' = IF rest = {} THEN NoJob ELSE [remindJob EXCEPT !.rest = rest]
  /\ UNCHANGED <<digestJob, digests, remembered, inbox, doubtful, mishaps>>

----------------------------------------------------------------------------
(* Mutant: the job goes on where it was.                                    *)
RequeueAsItWas(job) == IF job = NoJob THEN NoJob ELSE [job EXCEPT !.state = "queued"]

Requeue(job) == IF job = NoJob THEN NoJob ELSE [state |-> "queued"]

(* Gmail refuses, or what follows the send cannot be saved: the handler     *)
(* throws and its job runs again from the start.                            *)
SendFails(p) ==
  /\ sending[p].step \in {"checked", "noted"} /\ Mishap
  /\ sending' = [sending EXCEPT ![p] = NoMail]
  /\ IF p = "api" THEN UNCHANGED jobs
     ELSE IF sending[p].key[1] = "digest"
     THEN digestJob' = Requeue(digestJob) /\ UNCHANGED remindJob
     ELSE remindJob' = Requeue(remindJob) /\ UNCHANGED digestJob
  /\ UNCHANGED <<digests, remembered, inbox, doubtful>>

(* A process dies, and what it remembered with it.                          *)
Forget(p) ==
  /\ Mishap
  /\ sending' = [sending EXCEPT ![p] = NoMail]
  /\ remembered' = [remembered EXCEPT ![p] = {}]
  /\ doubtful' = doubtful \cup remembered[p] \cup
       (IF sending[p].step = "accepted" THEN {sending[p].key} ELSE {})
  /\ IF p = "api" THEN UNCHANGED jobs
     ELSE digestJob' = Requeue(digestJob) /\ remindJob' = Requeue(remindJob)
  /\ UNCHANGED <<digests, inbox>>

SwitchSending ==
  /\ sendEmail' = ~sendEmail
  /\ UNCHANGED <<jobs, editions, sentAt, post, mishaps>>

Delivery(p) == GmailTakes(p) \/ Note(p) \/ MarkDigest(p)

MailNext ==
  \/ \E p \in Processes : Delivery(p) \/ SendFails(p) \/ Forget(p)
  \/ AskDigest \/ Generate \/ SendDigest \/ SwitchSending
  \/ \E v \in Editions : SendOnRequest(v)
  \/ AskReminders \/ StartReminders \/ Reminded
  \/ \E u \in Colleagues : Remind(u)

MailSpec == MailInit /\ [][MailNext]_mailVars

----------------------------------------------------------------------------
(* A digest that shows as sent was delivered, whatever was refused, cut or  *)
(* retried on the way.                                                      *)
SentWasDelivered == \A v \in sentAt : inbox[<<"digest", v>>] > 0

(* A retry of a job mails nobody twice: a key is only delivered again when  *)
(* Gmail's answer was lost, the process that knew it is gone, or the other  *)
(* process sends it.                                                        *)
RetriesMailOnce == \A k \in MailKeys : inbox[k] > 1 => k \in doubtful

(* The same key is never delivered twice.                                   *)
KeysMailOnce == \A k \in MailKeys : inbox[k] <= 1
=============================================================================
