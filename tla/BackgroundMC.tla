---------------------------- MODULE BackgroundMC ----------------------------
(***************************************************************************)
(* What runs in the background on Google's account: the inbox of notices,  *)
(* the subscriptions that make Google send them, the capture of meetings   *)
(* from the calendar and the schedule of the digest.                       *)
(*                                                                         *)
(* The four parts share no state at the grain of their modules, so an      *)
(* interleaving of two of them shows nothing that one alone does not:      *)
(* every behaviour is one of the part in focus, the others rest.           *)
(***************************************************************************)
EXTENDS EventInbox, Subscriptions, MeetingCapture, DigestSchedule, TLC

VARIABLE focus

(* What two notices of one conference tell; they come in any order.         *)
TwoNotices ==
  LET first == CHOOSE e \in Events : TRUE IN
  {[e \in Events |-> kinds[IF e = first THEN 1 ELSE 2]] :
     kinds \in {<<"ended", "generated">>, <<"started", "nameless">>,
               <<"progress", "other">>}}

SameConference == [e \in Events |-> CHOOSE c \in Conferences : TRUE]

AllVars == <<inboxVars, subscriptionVars, captureVars, scheduleVars, focus>>

(* The parts out of focus rest in one of their initial states.              *)
Init ==
  /\ focus \in {"inbox", "subscriptions", "capture", "schedule"}
  /\ InboxInit /\ SubscriptionInit /\ CaptureInit /\ ScheduleInit
  /\ focus # "inbox" => kindOf = CHOOSE p \in Payloads : TRUE
  /\ focus # "capture" => hosted = {}
  /\ focus # "schedule" => ~digestFlag /\ config = CHOOSE c \in Schedule : TRUE

InboxMoves == focus = "inbox" /\ InboxNext
SubscriptionsMove == focus = "subscriptions" /\ SubscriptionNext
CaptureMoves == focus = "capture" /\ CaptureNext
ScheduleMoves == focus = "schedule" /\ ScheduleNext

Next ==
  \/ InboxMoves /\ UNCHANGED <<subscriptionVars, captureVars, scheduleVars, focus>>
  \/ SubscriptionsMove /\ UNCHANGED <<inboxVars, captureVars, scheduleVars, focus>>
  \/ CaptureMoves /\ UNCHANGED <<inboxVars, subscriptionVars, scheduleVars, focus>>
  \/ ScheduleMoves /\ UNCHANGED <<inboxVars, subscriptionVars, captureVars, focus>>

(* Fairness, for the part in focus.  A request that was accepted runs to    *)
(* its end, and Pub/Sub goes on pushing what was not acknowledged.          *)
InboxFairness ==
  /\ \A k \in Calls : WF_inboxVars(focus = "inbox" /\ Handle(k))
  /\ \A e \in Events : WF_inboxVars(focus = "inbox" /\ Push(e))

(* The daily job visits every monitored user, and days pass.                *)
SubscriptionFairness ==
  /\ \A v \in Visits : WF_subscriptionVars(focus = "subscriptions" /\ VisitStep(v))
  /\ \A u \in Users : WF_subscriptionVars(focus = "subscriptions" /\ DailyVisit(u))
  /\ WF_subscriptionVars(focus = "subscriptions" /\ Day)

(* The safety net runs every half hour, what was begun is finished, and     *)
(* time passes.  No notice, sync or user is counted on.                     *)
CaptureFairness ==
  /\ \A s \in Syncs : WF_captureVars(focus = "capture" /\ SyncStep(s))
  /\ \A w \in Sweeps : WF_captureVars(focus = "capture" /\ SweepStep(w))
  /\ \A x \in Editors : WF_captureVars(focus = "capture" /\ EditStep(x))
  /\ \A at \in Places : SF_captureVars(focus = "capture" /\ SweepWaiting(at))
  /\ \A c \in Occasions : SF_captureVars(focus = "capture" /\ Pass(c))

(* The watcher's timer goes on and the queue answers when it does not fail. *)
ScheduleFairness ==
  /\ WF_scheduleVars(focus = "schedule" /\ Look)
  /\ WF_scheduleVars(focus = "schedule" /\ Act)
  /\ \A a \in Admins : WF_scheduleVars(focus = "schedule" /\ Respond(a))

Spec ==
  /\ Init /\ [][Next]_AllVars
  /\ InboxFairness /\ SubscriptionFairness /\ CaptureFairness /\ ScheduleFairness

(* Every part keeps its types.                                              *)
BackgroundTypesOK ==
  InboxTypeOK /\ SubscriptionTypeOK /\ CaptureTypeOK /\ ScheduleTypeOK
=============================================================================
