---------------------------- MODULE Subscriptions ----------------------------
(***************************************************************************)
(* ensureWorkspaceSubscriptions: one Workspace Events subscription per     *)
(* monitored user, created when missing, renewed when it has little time   *)
(* left, by a daily job that the API can also run on request, so that two  *)
(* visits of the same user may overlap.                                    *)
(*                                                                         *)
(* The subscription lives at Google and its row in the database, and no    *)
(* transaction spans both.  Time is counted in days; a visit takes         *)
(* seconds, so the day only changes between visits.                        *)
(***************************************************************************)
EXTENDS Integers

CONSTANTS
  Users,
  Names,           \* subscriptions alive at Google at once: bounds the orphans
  Visits,          \* visits of a user under way at once
  Ttl,             \* MAX_SUBSCRIPTION_TTL_SECONDS, in days
  RenewThreshold,  \* RENEW_THRESHOLD_MS, in days
  MaxTroubles,     \* bounds failures of calls, saves and processes
  NoName

ASSUME SubscriptionAssumption ==
  /\ Users # {}
  /\ Ttl \in Nat /\ RenewThreshold \in 1..Ttl
  /\ MaxTroubles \in Nat
  /\ NoName \notin Names

VARIABLES
  monitored,      \* users an administrator has put under monitoring
  subscriptions,  \* the row of each user
  atGoogle,       \* what each name stands for at Google
  visits,
  visited,        \* users the job has seen to today
  troubles

subscriptionVars ==
  <<monitored, subscriptions, atGoogle, visits, visited, troubles>>

SubscriptionRow ==
  [state: {"absent", "ACTIVE", "ERROR"}, name: Names \cup {NoName}, left: 0..Ttl]

NoSubscription == [state |-> "absent", name |-> NoName, left |-> 0]

GoogleSide == [state: {"free", "ACTIVE", "SUSPENDED"}, user: Users, left: 0..Ttl]

Visit ==
  [step: {"resting", "creating", "renewing", "saving", "failing"}, user: Users,
   existing: SubscriptionRow, name: Names \cup {NoName}]

SubscriptionTypeOK ==
  /\ monitored \subseteq Users
  /\ subscriptions \in [Users -> SubscriptionRow]
  /\ atGoogle \in [Names -> GoogleSide]
  /\ visits \in [Visits -> Visit]
  /\ visited \subseteq Users
  /\ troubles \in 0..MaxTroubles

Resting == [step |-> "resting", user |-> CHOOSE u \in Users : TRUE,
            existing |-> NoSubscription, name |-> NoName]

SubscriptionInit ==
  /\ monitored = {}
  /\ subscriptions = [u \in Users |-> NoSubscription]
  /\ atGoogle = [n \in Names |-> [state |-> "free", user |-> Resting.user, left |-> 0]]
  /\ visits = [v \in Visits |-> Resting]
  /\ visited = {}
  /\ troubles = 0

Trouble == troubles < MaxTroubles /\ troubles' = troubles + 1
VisitTo(v, step, name) ==
  visits' = [visits EXCEPT ![v].step = step, ![v].name = name]

----------------------------------------------------------------------------
NeedsCreate(row) == row.state \in {"absent", "ERROR"} \/ row.left = 0

(* The row is read here and trusted until the visit ends.                   *)
BeginVisit(v, u) ==
  LET row == subscriptions[u]
      step == IF NeedsCreate(row) THEN "creating"
              ELSE IF row.left < RenewThreshold THEN "renewing" ELSE "resting"
  IN
  /\ visits[v] = Resting /\ u \in monitored
  /\ visits' = [visits EXCEPT ![v] =
       IF step = "resting" THEN Resting
       ELSE [step |-> step, user |-> u, existing |-> row, name |-> row.name]]
  /\ visited' = IF step = "resting" THEN visited \cup {u} ELSE visited
  /\ UNCHANGED <<monitored, subscriptions, atGoogle, troubles>>

(* Google never gives a name twice; here a name comes back once nothing     *)
(* refers to it, and which one Google gives does not matter.                *)
Unused ==
  {n \in Names :
     /\ atGoogle[n].state = "free"
     /\ \A u \in Users : subscriptions[u].name # n
     /\ \A v \in Visits : n \notin {visits[v].name, visits[v].existing.name}}

(* Google makes the subscription; its operation may still be running when   *)
(* the adapter stops polling, and then its name is not known here.          *)
CreateAtGoogle(v) ==
  /\ visits[v].step = "creating" /\ Unused # {}
  /\ LET n == CHOOSE name \in Unused : TRUE IN
     /\ atGoogle' = [atGoogle EXCEPT ![n] =
          [state |-> "ACTIVE", user |-> visits[v].user, left |-> Ttl]]
     /\ \/ VisitTo(v, "saving", n) /\ UNCHANGED troubles
        \/ VisitTo(v, "failing", NoName) /\ Trouble
  /\ UNCHANGED <<monitored, subscriptions, visited>>

(* Mutant: a patch that Google answered with an error counts as done.       *)
RenewBlindly(v) ==
  LET n == visits[v].name IN
  /\ visits[v].step = "renewing"
  /\ IF atGoogle[n].state = "free"
     THEN UNCHANGED atGoogle
     ELSE atGoogle' = [atGoogle EXCEPT ![n].state = "ACTIVE", ![n].left = Ttl]
  /\ VisitTo(v, "saving", n)
  /\ UNCHANGED <<monitored, subscriptions, visited, troubles>>

(* Mutant: a suspended subscription is reactivated and not patched.         *)
ReactivateOnly(v) ==
  LET n == visits[v].name IN
  /\ visits[v].step = "renewing"
  /\ IF atGoogle[n].state = "free"
     THEN VisitTo(v, "failing", n) /\ UNCHANGED atGoogle
     ELSE /\ VisitTo(v, "saving", n)
          /\ atGoogle' = [atGoogle EXCEPT ![n] =
               IF @.state = "SUSPENDED" THEN [@ EXCEPT !.state = "ACTIVE"]
               ELSE [@ EXCEPT !.left = Ttl]]
  /\ UNCHANGED <<monitored, subscriptions, visited, troubles>>

(* A suspended subscription is first reactivated; one Google no longer has  *)
(* cannot be patched.                                                       *)
RenewAtGoogle(v) ==
  LET n == visits[v].name IN
  /\ visits[v].step = "renewing"
  /\ IF atGoogle[n].state = "free"
     THEN VisitTo(v, "failing", n) /\ UNCHANGED atGoogle
     ELSE /\ VisitTo(v, "saving", n)
          /\ atGoogle' = [atGoogle EXCEPT ![n].state = "ACTIVE", ![n].left = Ttl]
  /\ UNCHANGED <<monitored, subscriptions, visited, troubles>>

(* The user is not in the directory, Google refuses or is away, the second  *)
(* of the two calls of a renewal fails, or the row cannot be saved.         *)
VisitFails(v) ==
  /\ Trouble
  /\ \/ visits[v].step \in {"creating", "renewing", "saving"} /\ UNCHANGED atGoogle
     \/ /\ visits[v].step = "renewing" /\ atGoogle[visits[v].name].state = "SUSPENDED"
        /\ atGoogle' = [atGoogle EXCEPT ![visits[v].name].state = "ACTIVE"]
  /\ VisitTo(v, "failing", visits[v].name)
  /\ UNCHANGED <<monitored, subscriptions, visited>>

(* The whole row that was read goes back, with its new name and expiry.     *)
SaveSubscription(v) ==
  LET u == visits[v].user IN
  /\ visits[v].step = "saving"
  /\ subscriptions' = [subscriptions EXCEPT ![u] =
       [state |-> "ACTIVE", name |-> visits[v].name, left |-> Ttl]]
  /\ visits' = [visits EXCEPT ![v] = Resting]
  /\ visited' = visited \cup {u}
  /\ UNCHANGED <<monitored, atGoogle, troubles>>

(* The catch: the row as it was read, in ERROR, so that the next visit      *)
(* creates another subscription.                                            *)
SaveError(v) ==
  LET u == visits[v].user IN
  /\ visits[v].step = "failing"
  /\ subscriptions' = [subscriptions EXCEPT ![u] =
       [visits[v].existing EXCEPT !.state = "ERROR"]]
  /\ visits' = [visits EXCEPT ![v] = Resting]
  /\ visited' = visited \cup {u}
  /\ UNCHANGED <<monitored, atGoogle, troubles>>

(* The process dies or the error itself cannot be saved.                    *)
VisitDies(v) ==
  /\ visits[v].step # "resting" /\ Trouble
  /\ visits' = [visits EXCEPT ![v] = Resting]
  /\ UNCHANGED <<monitored, subscriptions, atGoogle, visited>>

----------------------------------------------------------------------------
(* Administrators; nothing deletes the subscription of a user who is no     *)
(* longer monitored.                                                        *)
Monitor(u) ==
  /\ monitored' = IF u \in monitored THEN monitored \ {u} ELSE monitored \cup {u}
  /\ UNCHANGED <<subscriptions, atGoogle, visits, visited, troubles>>

(* Google suspends a subscription, or drops it.                             *)
Revoke(n) ==
  /\ atGoogle[n].state # "free" /\ Trouble
  /\ atGoogle' = [atGoogle EXCEPT ![n].state =
       IF @ = "ACTIVE" THEN "SUSPENDED" ELSE "free"]
  /\ UNCHANGED <<monitored, subscriptions, visits, visited>>

(* Mutant: an expired subscription goes on counting.                        *)
SoonerUnbounded(left) == left - 1

Sooner(left) == IF left = 0 THEN 0 ELSE left - 1

(* A day passes once the job has run; a worker that was down skips it.      *)
Day ==
  /\ \A v \in Visits : visits[v] = Resting
  /\ (monitored \subseteq visited /\ UNCHANGED troubles) \/ Trouble
  /\ visited' = {}
  /\ subscriptions' = [u \in Users |-> [subscriptions[u] EXCEPT !.left = Sooner(@)]]
  /\ atGoogle' = [n \in Names |->
       [atGoogle[n] EXCEPT !.left = Sooner(@),
                           !.state = IF atGoogle[n].left <= 1 THEN "free" ELSE @]]
  /\ UNCHANGED <<monitored, visits>>

VisitStep(v) ==
  \/ CreateAtGoogle(v) \/ RenewAtGoogle(v) \/ SaveSubscription(v) \/ SaveError(v)

(* The daily job sees to every monitored user.                              *)
DailyVisit(u) == u \notin visited /\ \E v \in Visits : BeginVisit(v, u)

SubscriptionNext ==
  \/ \E v \in Visits :
       VisitStep(v) \/ VisitFails(v) \/ VisitDies(v) \/ (\E u \in Users : BeginVisit(v, u))
  \/ \E u \in Users : Monitor(u)
  \/ \E n \in Names : Revoke(n)
  \/ Day

SubscriptionSpec == SubscriptionInit /\ [][SubscriptionNext]_subscriptionVars

----------------------------------------------------------------------------
Live(u) == \E n \in Names : atGoogle[n].state = "ACTIVE" /\ atGoogle[n].user = u

(* A row in ACTIVE does not promise more days than Google will deliver      *)
(* notices for, unless Google itself revoked the subscription: neither      *)
(* overlapping visits nor a failure between the two writes make the job     *)
(* skip a renewal that is due.                                              *)
RowsDoNotOverstate ==
  \A u \in Users :
    LET row == subscriptions[u] IN
    row.state = "ACTIVE" /\ row.left > 0 /\ atGoogle[row.name].state # "free" =>
      atGoogle[row.name].user = u /\ atGoogle[row.name].left >= row.left

(* A user who stays monitored is heard of again and again: a subscription   *)
(* that failed, expired, was suspended or was dropped is found in the end.  *)
MonitoredAreHeard ==
  \A u \in Users : <>[](u \in monitored) => []<>Live(u)
=============================================================================
