--------------------------- MODULE BackgroundProofs ---------------------------
(***************************************************************************)
(* What runs in the background, for any number of notices, conferences,    *)
(* pushes, users, names at Google, visits, occasions, syncs, sweeps,       *)
(* editors, administrators and failures.                                   *)
(*                                                                         *)
(* The inbox: what the event log shows as processed was applied to a       *)
(* meeting and a fetch was sent for it.  A handling writes the log with    *)
(* what it carries since its commit, so the invariant says of each         *)
(* handling what it may carry, and of one that is about to commit over a   *)
(* linked row that the row is linked still.                                *)
(*                                                                         *)
(* The subscriptions: an active row never promises more days than Google   *)
(* will deliver.  A visit writes what it learned some steps ago, so the    *)
(* invariant also speaks of visits: a name they hold stands, as long as it *)
(* lives, for a subscription of their user, and one they are about to save *)
(* was created or renewed today.  A name is only given again when nothing  *)
(* refers to it.                                                           *)
(*                                                                         *)
(* The capture: the token covers the meetings.  A sync writes rows it read *)
(* and a token Google gave it some steps ago, so the invariant places its  *)
(* answer between the stored token and the calendar, and no row behind the *)
(* one it found, unless a user saved over it.                              *)
(***************************************************************************)
EXTENDS BackgroundMC, TLAPS

----------------------------------------------------------------------------
(* The inbox of notices.                                                    *)
(* The conference of e has a row that is linked and was sent a fetch.       *)
Good(e) ==
  \E o \in Origins :
    rows[<<ConferenceOf[e], o>>].linked /\ <<ConferenceOf[e], o>> \in fetchesSent

(* What a handling carries through its steps.                               *)
Carried(k) ==
  /\ At(k, "saving") => calls[k].outcome \in {"PROCESSED", "IGNORED", "FAILED", "REFUSED"}
  /\ calls[k].step \in {"saving", "answering"} /\ calls[k].outcome = "PROCESSED"
       /\ Fetched(Kind(k)) => Good(calls[k].event)
  /\ At(k, "writing") /\ calls[k].read.linked =>
       rows[<<Conference(k), calls[k].target>>].linked

InboxInv ==
  /\ InboxTypeOK
  /\ \A k \in Calls : calls[k] # Idle => Carried(k)
  /\ ProcessedIsFetched

(* Rows stay linked and fetches stay sent.                                  *)
OnlyMore ==
  /\ kindOf' = kindOf
  /\ \A at \in Conferences \X Origins : rows[at].linked => rows'[at].linked
  /\ fetchesSent \subseteq fetchesSent'

----------------------------------------------------------------------------
(* What is good stays good.                                                 *)
LEMMA GoodStays ==
  ASSUME InboxAssumption, OnlyMore
  PROVE  \A e \in Events : Good(e) => Good(e)'
<1> SUFFICES ASSUME NEW e \in Events, Good(e)
             PROVE  Good(e)'
  OBVIOUS
<1>1. PICK o \in Origins :
        rows[<<ConferenceOf[e], o>>].linked /\ <<ConferenceOf[e], o>> \in fetchesSent
  BY DEF Good
<1>2. <<ConferenceOf[e], o>> \in Conferences \X Origins
  BY DEF InboxAssumption
<1>3. rows'[<<ConferenceOf[e], o>>].linked /\ <<ConferenceOf[e], o>> \in fetchesSent'
  BY <1>1, <1>2 DEF OnlyMore
<1> QED BY <1>3 DEF Good

(* A handling that is not under way carries what it carried.                *)
LEMMA CarriedStays ==
  ASSUME InboxAssumption, InboxTypeOK, OnlyMore,
         NEW k \in Calls, calls[k] # Idle, Carried(k), calls'[k] = calls[k]
  PROVE  Carried(k)'
<1>1. calls[k] \in Handling
  BY DEF InboxTypeOK
<1>2. calls[k].event \in Events /\ calls[k].target \in Origins
  BY <1>1 DEF Handling
<1>3. PICK e \in Events : e = calls[k].event
  BY <1>2
<1>4. calls'[k].event = e
  BY <1>3
<1>5. Good(e) => Good(e)'
  BY GoodStays
<1>6. <<ConferenceOf[e], calls[k].target>> \in Conferences \X Origins
  BY <1>2 DEF InboxAssumption
<1>7. kindOf' = kindOf
  BY DEF OnlyMore
<1>8. rows[<<ConferenceOf[e], calls[k].target>>].linked =>
        rows'[<<ConferenceOf[e], calls[k].target>>].linked
  BY <1>6 DEF OnlyMore
<1> QED BY <1>3, <1>4, <1>5, <1>7, <1>8 DEF Carried, At, Kind, Conference, Fetched

(* A step keeps the invariant when what it leaves is typed, the handlings   *)
(* it moves carry what they may, and the log shows no more than was good.   *)
LEMMA StepKeeps ==
  ASSUME InboxAssumption, InboxInv, InboxTypeOK', OnlyMore,
         \A j \in Calls : calls'[j] = calls[j] \/ (calls'[j] # Idle => Carried(j)'),
         \A e \in Events : eventLog'[e] = "PROCESSED" /\ Fetched(kindOf[e]) =>
           eventLog[e] = "PROCESSED" \/ Good(e)
  PROVE  InboxInv'
<1>1. \A j \in Calls : calls'[j] # Idle => Carried(j)'
  <2> SUFFICES ASSUME NEW j \in Calls, calls'[j] # Idle
               PROVE  Carried(j)'
    OBVIOUS
  <2>1. CASE calls'[j] = calls[j]
    <3>1. calls[j] # Idle
      BY <2>1
    <3>2. Carried(j)
      BY <3>1 DEF InboxInv
    <3> QED BY <2>1, <3>1, <3>2, CarriedStays DEF InboxInv
  <2> QED BY <2>1
<1>2. ProcessedIsFetched'
  <2> SUFFICES ASSUME NEW e \in Events, Fetched(kindOf'[e]), eventLog'[e] = "PROCESSED"
               PROVE  Good(e)'
    BY DEF ProcessedIsFetched, Good, Fetched
  <2>1. Fetched(kindOf[e])
    BY DEF OnlyMore, Fetched
  <2>2. Good(e)
    BY <2>1 DEF InboxInv, ProcessedIsFetched, Good
  <2> QED BY <2>2, GoodStays
<1> QED BY <1>1, <1>2 DEF InboxInv
----------------------------------------------------------------------------
(* Who sets a handling to call leaves the others alone, and the types too.  *)
LEMMA ToTypes ==
  ASSUME InboxTypeOK, NEW k \in Calls, NEW call \in Handling \cup {Idle}, To(k, call)
  PROVE  /\ calls' \in [Calls -> Handling \cup {Idle}]
         /\ calls'[k] = call
         /\ \A j \in Calls \ {k} : calls'[j] = calls[j]
BY DEF To, InboxTypeOK

(* A handling at one of its steps is one.                                   *)
LEMMA AtHandling ==
  ASSUME InboxTypeOK, NEW k \in Calls, calls[k].step # "idle"
  PROVE  calls[k] \in Handling /\ calls[k] # Idle
BY DEF InboxTypeOK, Idle

LEMMA NoRowTyped == NoRow \in MeetingRow
BY DEF NoRow, MeetingRow, ProcessingStatus

LEMMA InboxStarts ==
  ASSUME InboxAssumption, InboxInit
  PROVE  InboxInv
<1>1. InboxTypeOK
  BY NoRowTyped DEF InboxInit, InboxTypeOK, InboxAssumption
<1>2. \A k \in Calls : calls[k] = Idle
  BY DEF InboxInit
<1>3. ProcessedIsFetched
  BY DEF InboxInit, ProcessedIsFetched
<1> QED BY <1>1, <1>2, <1>3 DEF InboxInv

(* A push that comes in carries nothing yet.                                *)
LEMMA DeliverKeeps ==
  ASSUME InboxAssumption, InboxInv, NEW k \in Calls, NEW e \in Events, Deliver(k, e)
  PROVE  InboxInv'
<1> DEFINE fresh == eventLog[e] \in {"absent", "FAILED"}
           call == [step |-> IF fresh THEN "looking" ELSE "answering", event |-> e,
                    target |-> "notice", read |-> NoRow,
                    outcome |-> IF fresh THEN "none" ELSE "DUPLICATE"]
<1>1. call \in Handling
  BY NoRowTyped DEF Handling, Origins
<1>2. To(k, call) /\ InboxTypeOK
  BY DEF Deliver, InboxInv
<1> HIDE DEF call
<1>3. /\ calls' \in [Calls -> Handling \cup {Idle}]
      /\ calls'[k] = call /\ \A j \in Calls \ {k} : calls'[j] = calls[j]
  BY <1>1, <1>2, ToTypes
<1>4. InboxTypeOK'
  BY <1>2, <1>3 DEF InboxTypeOK, Deliver, EventStatus
<1>5. OnlyMore
  BY DEF OnlyMore, Deliver
<1>6. Carried(k)'
  BY <1>3 DEF Carried, At, call
<1>7. \A d \in Events : eventLog'[d] = "PROCESSED" => eventLog[d] = "PROCESSED"
  BY <1>2 DEF Deliver, InboxTypeOK
<1> QED BY <1>3, <1>4, <1>5, <1>6, <1>7, StepKeeps

(* The steps up to the commit carry no outcome but that of an error.        *)
LEMMA IgnoreKeeps ==
  ASSUME InboxAssumption, InboxInv, NEW k \in Calls, Ignore(k)
  PROVE  InboxInv'
<1> DEFINE call == [calls[k] EXCEPT !.step = "saving", !.outcome = "IGNORED"]
<1>1. InboxTypeOK /\ calls[k] \in Handling
  BY AtHandling DEF InboxInv, Ignore, At
<1>2. call \in Handling /\ call.step = "saving" /\ call.outcome = "IGNORED"
  BY <1>1 DEF Handling
<1>3. To(k, call)
  BY DEF Ignore, Ends
<1> HIDE DEF call
<1>4. /\ calls' \in [Calls -> Handling \cup {Idle}]
      /\ calls'[k] = call /\ \A j \in Calls \ {k} : calls'[j] = calls[j]
  BY <1>1, <1>2, <1>3, ToTypes
<1>5. InboxTypeOK' /\ OnlyMore
  BY <1>1, <1>4 DEF InboxTypeOK, Ignore, OnlyMore
<1>6. Carried(k)'
  BY <1>2, <1>4 DEF Carried, At
<1>7. eventLog' = eventLog
  BY DEF Ignore
<1> QED BY <1>4, <1>5, <1>6, <1>7, StepKeeps

LEMMA LookUpKeeps ==
  ASSUME InboxAssumption, InboxInv, NEW k \in Calls, LookUp(k)
  PROVE  InboxInv'
<1>1. InboxTypeOK /\ calls[k] \in Handling
  BY AtHandling DEF InboxInv, LookUp, At
<1>2. Conference(k) \in Conferences
  BY <1>1 DEF Conference, Handling, InboxAssumption
<1>3. PICK call \in Handling :
        /\ To(k, call)
        /\ call.step \in {"asking", "writing"} /\ call.event = calls[k].event
        /\ call.step = "writing" =>
             call.read = rows[<<Conference(k), call.target>>]
  <2>1. CASE To(k, [calls[k] EXCEPT !.step = "asking"])
    <3>1. [calls[k] EXCEPT !.step = "asking"] \in Handling
      BY <1>1 DEF Handling
    <3> QED BY <1>1, <2>1, <3>1 DEF Handling
  <2>2. ASSUME NEW o \in Origins,
               To(k, [calls[k] EXCEPT !.step = "writing", !.target = o,
                                      !.read = rows[Conference(k), o]])
        PROVE  \E call \in Handling :
                 /\ To(k, call)
                 /\ call.step \in {"asking", "writing"} /\ call.event = calls[k].event
                 /\ call.step = "writing" =>
                      call.read = rows[<<Conference(k), call.target>>]
    <3>1. rows[<<Conference(k), o>>] \in MeetingRow
      BY <1>1, <1>2 DEF InboxTypeOK
    <3>2. [calls[k] EXCEPT !.step = "writing", !.target = o,
                           !.read = rows[Conference(k), o]] \in Handling
      BY <1>1, <3>1 DEF Handling
    <3> QED BY <1>1, <2>2, <3>2 DEF Handling
  <2> QED BY <2>1, <2>2 DEF LookUp
<1>4. /\ calls' \in [Calls -> Handling \cup {Idle}]
      /\ calls'[k] = call /\ \A j \in Calls \ {k} : calls'[j] = calls[j]
  BY <1>1, <1>3, ToTypes
<1>5. InboxTypeOK' /\ OnlyMore
  BY <1>1, <1>4 DEF InboxTypeOK, LookUp, OnlyMore
<1>6. Carried(k)'
  BY <1>3, <1>4 DEF Carried, At, Conference, LookUp
<1>7. eventLog' = eventLog
  BY DEF LookUp
<1> QED BY <1>4, <1>5, <1>6, <1>7, StepKeeps

(* What Google resolves leads to a row that is not linked.                  *)
LEMMA ResolveKeeps ==
  ASSUME InboxAssumption, InboxInv, NEW k \in Calls, Resolve(k)
  PROVE  InboxInv'
<1>1. InboxTypeOK /\ calls[k] \in Handling
  BY AtHandling DEF InboxInv, Resolve, At
<1>2. <<Conference(k), "calendar">> \in Conferences \X Origins
  BY <1>1 DEF Conference, Handling, InboxAssumption, Origins
<1>3. PICK call \in Handling :
        To(k, call) /\ call.step = "writing" /\ ~call.read.linked
  <2> DEFINE planned == rows[<<Conference(k), "calendar">>]
             found == [calls[k] EXCEPT !.step = "writing", !.target = "calendar",
                                       !.read = planned]
             made == [calls[k] EXCEPT !.step = "writing", !.target = "notice",
                                      !.read = [NoRow EXCEPT !.status = "IN_PROGRESS"]]
  <2>1. found \in Handling /\ found.step = "writing" /\ found.read = planned
    BY <1>1, <1>2 DEF Handling, InboxTypeOK, Origins
  <2>2. [NoRow EXCEPT !.status = "IN_PROGRESS"] \in MeetingRow
    BY DEF NoRow, MeetingRow, ProcessingStatus
  <2>3. made \in Handling /\ made.step = "writing" /\ ~made.read.linked
    BY <1>1, <2>2 DEF Handling, Origins, NoRow
  <2>4. (To(k, found) /\ ~planned.linked) \/ To(k, made)
    BY DEF Resolve
  <2> HIDE DEF found, made
  <2> QED BY <2>1, <2>3, <2>4
<1>4. /\ calls' \in [Calls -> Handling \cup {Idle}]
      /\ calls'[k] = call /\ \A j \in Calls \ {k} : calls'[j] = calls[j]
  BY <1>1, <1>3, ToTypes
<1>5. InboxTypeOK' /\ OnlyMore
  BY <1>1, <1>4 DEF InboxTypeOK, Resolve, OnlyMore
<1>6. Carried(k)'
  BY <1>3, <1>4 DEF Carried, At
<1>7. eventLog' = eventLog
  BY DEF Resolve
<1> QED BY <1>4, <1>5, <1>6, <1>7, StepKeeps

LEMMA GoogleFailsKeeps ==
  ASSUME InboxAssumption, InboxInv, NEW k \in Calls, GoogleFails(k)
  PROVE  InboxInv'
<1>1. InboxTypeOK /\ calls[k] \in Handling
  BY AtHandling DEF InboxInv, GoogleFails, At
<1>2. PICK outcome \in {"FAILED", "REFUSED"} : Ends(k, outcome)
  BY DEF GoogleFails
<1> DEFINE call == [calls[k] EXCEPT !.step = "saving", !.outcome = outcome]
<1>3. call \in Handling /\ call.step = "saving" /\ call.outcome = outcome
  BY <1>1 DEF Handling
<1>4. To(k, call)
  BY <1>2 DEF Ends
<1> HIDE DEF call
<1>5. /\ calls' \in [Calls -> Handling \cup {Idle}]
      /\ calls'[k] = call /\ \A j \in Calls \ {k} : calls'[j] = calls[j]
  BY <1>1, <1>3, <1>4, ToTypes
<1>6. InboxTypeOK' /\ OnlyMore
  BY <1>1, <1>5 DEF InboxTypeOK, GoogleFails, OnlyMore, Fault, InboxAssumption
<1>7. Carried(k)'
  BY <1>3, <1>5 DEF Carried, At
<1>8. eventLog' = eventLog
  BY DEF GoogleFails
<1> QED BY <1>5, <1>6, <1>7, <1>8, StepKeeps

(* A row keeps the link it has or was given.                                *)
LEMMA NotedKeepsLink ==
  ASSUME NEW kind, NEW read, NEW row \in MeetingRow
  PROVE  Noted(kind, read, row) \in MeetingRow /\ Noted(kind, read, row).linked = row.linked
BY DEF Noted, MeetingRow, ProcessingStatus

(* The commit makes good what its notice asks for.                          *)
LEMMA CommitKeeps ==
  ASSUME InboxAssumption, InboxInv, NEW k \in Calls, Commit(k)
  PROVE  InboxInv'
<1> DEFINE at == <<Conference(k), calls[k].target>>
           row == IF calls[k].read.linked THEN rows[at]
                  ELSE [calls[k].read EXCEPT !.linked = TRUE]
           call == [calls[k] EXCEPT !.step = "saving", !.outcome = "PROCESSED"]
<1>1. InboxTypeOK /\ calls[k] \in Handling /\ calls[k] # Idle
  BY AtHandling DEF InboxInv, Commit, At
<1>2. at \in Conferences \X Origins /\ calls[k].read \in MeetingRow
  BY <1>1 DEF Conference, Handling, InboxAssumption
<1>3. row \in MeetingRow /\ row.linked
  <2>1. CASE calls[k].read.linked
    BY <1>1, <1>2, <2>1 DEF InboxInv, InboxTypeOK, Carried, Commit
  <2>2. CASE ~calls[k].read.linked
    BY <1>2, <2>2 DEF MeetingRow
  <2> QED BY <2>1, <2>2
<1>4. call \in Handling /\ call.step = "saving" /\ call.outcome = "PROCESSED"
        /\ call.event = calls[k].event
  BY <1>1 DEF Handling
<1>5. To(k, call)
  BY DEF Commit, Ends
<1>6. rows' = [rows EXCEPT ![at] = Noted(Kind(k), calls[k].read, row)]
  BY DEF Commit
<1>7. fetchesSent' = fetchesSent \cup (IF Fetched(Kind(k)) THEN {at} ELSE {})
  BY DEF Commit
<1> DEFINE noted == Noted(Kind(k), calls[k].read, row)
<1> HIDE DEF row, call
<1>8. noted \in MeetingRow /\ noted.linked
  BY <1>3, NotedKeepsLink
<1> HIDE DEF noted, at
<1>9. /\ calls' \in [Calls -> Handling \cup {Idle}]
      /\ calls'[k] = call /\ \A j \in Calls \ {k} : calls'[j] = calls[j]
  BY <1>1, <1>4, <1>5, ToTypes
<1>10. rows' \in [Conferences \X Origins -> MeetingRow] /\ rows'[at].linked
  BY <1>1, <1>2, <1>6, <1>8 DEF InboxTypeOK, noted
<1>11. InboxTypeOK'
  BY <1>1, <1>2, <1>7, <1>9, <1>10 DEF InboxTypeOK, Commit
<1>12. OnlyMore
  BY <1>1, <1>2, <1>6, <1>7, <1>8 DEF OnlyMore, Commit, InboxTypeOK, noted
<1>13. Fetched(Kind(k)) => Good(calls[k].event)'
  <2> SUFFICES ASSUME Fetched(Kind(k))
               PROVE  Good(calls[k].event)'
    OBVIOUS
  <2>1. at \in fetchesSent'
    BY <1>7
  <2>2. calls'[k].event = calls[k].event /\ calls[k].target \in Origins
    BY <1>1, <1>4, <1>9 DEF Handling
  <2>3. at = <<ConferenceOf[calls'[k].event], calls[k].target>>
    BY <2>2 DEF at, Conference
  <2> QED BY <1>10, <2>1, <2>2, <2>3 DEF Good
<1>14. Carried(k)'
  BY <1>4, <1>9, <1>13 DEF Carried, At, Kind, Fetched, Commit
<1>15. eventLog' = eventLog
  BY DEF Commit
<1> QED BY <1>9, <1>11, <1>12, <1>14, <1>15, StepKeeps

LEMMA RollBackKeeps ==
  ASSUME InboxAssumption, InboxInv, NEW k \in Calls, RollBack(k)
  PROVE  InboxInv'
<1> DEFINE call == [calls[k] EXCEPT !.step = "saving", !.outcome = "FAILED"]
<1>1. InboxTypeOK /\ calls[k] \in Handling
  BY AtHandling DEF InboxInv, RollBack, At
<1>2. <<Conference(k), calls[k].target>> \in Conferences \X Origins
  BY <1>1 DEF Conference, Handling, InboxAssumption
<1>3. call \in Handling /\ call.step = "saving" /\ call.outcome = "FAILED"
  BY <1>1 DEF Handling
<1>4. To(k, call)
  BY DEF RollBack, Ends
<1> HIDE DEF call
<1>5. /\ calls' \in [Calls -> Handling \cup {Idle}]
      /\ calls'[k] = call /\ \A j \in Calls \ {k} : calls'[j] = calls[j]
  BY <1>1, <1>3, <1>4, ToTypes
<1>6. fetchesSent \subseteq fetchesSent' /\ fetchesSent' \subseteq Conferences \X Origins
        /\ faults' \in 0..MaxFaults
  BY <1>1, <1>2 DEF InboxTypeOK, RollBack, Fault, InboxAssumption
<1>7. InboxTypeOK' /\ OnlyMore
  BY <1>1, <1>5, <1>6 DEF InboxTypeOK, RollBack, OnlyMore
<1>8. Carried(k)'
  BY <1>3, <1>5 DEF Carried, At
<1>9. eventLog' = eventLog
  BY DEF RollBack
<1> QED BY <1>5, <1>7, <1>8, <1>9, StepKeeps

(* The log shows what the handling carried.                                 *)
LEMMA SaveEventKeeps ==
  ASSUME InboxAssumption, InboxInv, NEW k \in Calls, SaveEvent(k)
  PROVE  InboxInv'
<1> DEFINE call == [calls[k] EXCEPT !.step = "answering"]
<1>1. InboxTypeOK /\ calls[k] \in Handling /\ calls[k] # Idle
  BY AtHandling DEF InboxInv, SaveEvent, At
<1>2. Carried(k) /\ calls[k].step = "saving"
  BY <1>1 DEF InboxInv, SaveEvent, At
<1>3. call \in Handling /\ call.step = "answering" /\ call.outcome = calls[k].outcome
        /\ call.event = calls[k].event
  BY <1>1 DEF Handling
<1>4. To(k, call)
  BY DEF SaveEvent
<1> HIDE DEF call
<1>5. /\ calls' \in [Calls -> Handling \cup {Idle}]
      /\ calls'[k] = call /\ \A j \in Calls \ {k} : calls'[j] = calls[j]
  BY <1>1, <1>3, <1>4, ToTypes
<1>6. calls[k].outcome \in {"PROCESSED", "IGNORED", "FAILED", "REFUSED"}
  BY <1>2 DEF Carried, At
<1>7. InboxTypeOK' /\ OnlyMore
  BY <1>1, <1>5, <1>6 DEF InboxTypeOK, SaveEvent, OnlyMore, EventStatus
<1>8. PICK e \in Events : e = calls[k].event
  BY <1>1 DEF Handling
<1>9. calls[k].outcome = "PROCESSED" /\ Fetched(kindOf[e]) => Good(e)
  BY <1>2, <1>8 DEF Carried, Kind
<1>10. Carried(k)'
  <2>1. Good(e) => Good(e)'
    BY <1>7, GoodStays
  <2>2. calls'[k].event = e /\ kindOf' = kindOf
    BY <1>3, <1>5, <1>8 DEF SaveEvent
  <2> QED BY <1>3, <1>5, <1>9, <2>1, <2>2 DEF Carried, At, Kind, Fetched
<1>11. \A d \in Events : eventLog'[d] = "PROCESSED" /\ Fetched(kindOf[d]) =>
         eventLog[d] = "PROCESSED" \/ Good(d)
  BY <1>1, <1>8, <1>9 DEF SaveEvent, InboxTypeOK
<1> QED BY <1>5, <1>7, <1>10, <1>11, StepKeeps

(* Answering and dying end a handling and touch neither rows nor fetches.   *)
LEMMA EndKeeps ==
  ASSUME InboxAssumption, InboxInv, NEW k \in Calls, Answer(k) \/ Dies(k)
  PROVE  InboxInv'
<1>1. InboxTypeOK /\ To(k, Idle)
  BY DEF InboxInv, Answer, Dies
<1>2. /\ calls' \in [Calls -> Handling \cup {Idle}]
      /\ calls'[k] = Idle /\ \A j \in Calls \ {k} : calls'[j] = calls[j]
  BY <1>1, ToTypes
<1>3. UNCHANGED <<kindOf, eventLog, rows, fetchesSent>>
  BY DEF Answer, Dies
<1>4. unacked' \subseteq unacked /\ faults' \in 0..MaxFaults
  BY <1>1 DEF Answer, Dies, Fault, InboxTypeOK, InboxAssumption
<1>5. InboxTypeOK' /\ OnlyMore
  BY <1>1, <1>2, <1>3, <1>4 DEF InboxTypeOK, OnlyMore
<1> QED BY <1>2, <1>3, <1>5, StepKeeps

(* The calendar and the pipeline leave the links of the rows alone.         *)
LEMMA OthersKeep ==
  ASSUME InboxAssumption, InboxInv,
         \/ \E c \in Conferences : Announce(c)
         \/ \E at \in Conferences \X Origins : PipelineMoves(at)
  PROVE  InboxInv'
<1>1. InboxTypeOK
  BY DEF InboxInv
<1>2. UNCHANGED <<kindOf, eventLog, unacked, calls, fetchesSent, faults>>
  BY DEF Announce, PipelineMoves
<1>3. /\ rows' \in [Conferences \X Origins -> MeetingRow]
      /\ \A at \in Conferences \X Origins : rows[at].linked => rows'[at].linked
  <2>1. ASSUME NEW c \in Conferences, Announce(c)
        PROVE  /\ rows' \in [Conferences \X Origins -> MeetingRow]
               /\ \A at \in Conferences \X Origins : rows[at].linked => rows'[at].linked
    <3>1. PICK status \in {"SCHEDULED", "CANCELLED"} :
            rows' = [rows EXCEPT ![<<c, "calendar">>].status = status]
      BY <2>1 DEF Announce
    <3>2. <<c, "calendar">> \in Conferences \X Origins
      BY DEF Origins
    <3> QED BY <1>1, <3>1, <3>2 DEF InboxTypeOK, MeetingRow
  <2>2. ASSUME NEW to \in Conferences \X Origins, PipelineMoves(to)
        PROVE  /\ rows' \in [Conferences \X Origins -> MeetingRow]
               /\ \A at \in Conferences \X Origins : rows[at].linked => rows'[at].linked
    <3>1. rows' = [rows EXCEPT ![to].processing = "INGESTED"]
      BY <2>2 DEF PipelineMoves
    <3> QED BY <1>1, <3>1 DEF InboxTypeOK, MeetingRow, ProcessingStatus
  <2> QED BY <2>1, <2>2
<1>4. InboxTypeOK' /\ OnlyMore
  BY <1>1, <1>2, <1>3 DEF InboxTypeOK, OnlyMore
<1> QED BY <1>2, <1>4, StepKeeps

LEMMA InboxStep ==
  ASSUME InboxAssumption, InboxInv, [InboxNext]_inboxVars
  PROVE  InboxInv'
<1>1. ASSUME NEW k \in Calls, Handle(k)
      PROVE  InboxInv'
  BY <1>1, IgnoreKeeps, LookUpKeeps, ResolveKeeps, GoogleFailsKeeps, CommitKeeps,
     RollBackKeeps, SaveEventKeeps, EndKeeps DEF Handle
<1>2. ASSUME NEW k \in Calls, Dies(k)
      PROVE  InboxInv'
  BY <1>2, EndKeeps
<1>3. ASSUME NEW e \in Events, Push(e)
      PROVE  InboxInv'
  <2>1. (CHOOSE k \in Calls : calls[k] = Idle) \in Calls
    BY <1>3 DEF Push
  <2>2. PICK k \in Calls : k = (CHOOSE j \in Calls : calls[j] = Idle)
    BY <2>1
  <2>3. Deliver(k, e)
    BY <1>3, <2>2 DEF Push
  <2> QED BY <2>3, DeliverKeeps
<1>4. CASE UNCHANGED inboxVars
  <2>1. InboxTypeOK' /\ OnlyMore
    BY <1>4 DEF InboxInv, InboxTypeOK, OnlyMore, inboxVars
  <2>2. calls' = calls /\ eventLog' = eventLog
    BY <1>4 DEF inboxVars
  <2> QED BY <2>1, <2>2, StepKeeps
<1> QED BY <1>1, <1>2, <1>3, <1>4, OthersKeep DEF InboxNext

----------------------------------------------------------------------------
(* The event log and the meetings keep their types under every interleaving *)
(* of pushes.                                                               *)
THEOREM InboxTypesHold == InboxSpec => []InboxTypeOK
<1>1. InboxInit => InboxInv
  BY InboxStarts, InboxAssumption
<1>2. InboxInv /\ [InboxNext]_inboxVars => InboxInv'
  BY InboxStep, InboxAssumption
<1>3. InboxInv => InboxTypeOK
  BY DEF InboxInv
<1> QED BY <1>1, <1>2, <1>3, PTL DEF InboxSpec

(* Whatever pushes overlap, race, roll back or crash, an ended conference   *)
(* or a finished transcript the log shows as processed has a linked meeting *)
(* a fetch was sent for.                                                    *)
THEOREM ProcessedIsAlwaysFetched == InboxSpec => []ProcessedIsFetched
<1>1. InboxInit => InboxInv
  BY InboxStarts, InboxAssumption
<1>2. InboxInv /\ [InboxNext]_inboxVars => InboxInv'
  BY InboxStep, InboxAssumption
<1>3. InboxInv => ProcessedIsFetched
  BY DEF InboxInv
<1> QED BY <1>1, <1>2, <1>3, PTL DEF InboxSpec

----------------------------------------------------------------------------
(* The subscriptions.                                                       *)
Alive(n) == n \in Names /\ atGoogle[n].state # "free"

(* A row of user u, in the table or in the memory of a visit.               *)
Owned(u, row) ==
  /\ Alive(row.name) => atGoogle[row.name].user = u
  /\ row.state = "ACTIVE" => row.name \in Names

(* What a visit knows.                                                      *)
Sound(visit) ==
  /\ Owned(visit.user, visit.existing)
  /\ Alive(visit.name) => atGoogle[visit.name].user = visit.user
  /\ visit.step \in {"renewing", "saving"} => visit.name \in Names
  /\ visit.step = "saving" /\ Alive(visit.name) => atGoogle[visit.name].left = Ttl

Covered(row) ==
  row.state = "ACTIVE" /\ Alive(row.name) => atGoogle[row.name].left >= row.left

SubscriptionInv ==
  /\ SubscriptionTypeOK
  /\ \A u \in Users : Owned(u, subscriptions[u]) /\ Covered(subscriptions[u])
  /\ \A v \in Visits : Sound(visits[v])

----------------------------------------------------------------------------
LEMMA RestingTyped ==
  ASSUME SubscriptionAssumption
  PROVE  /\ Resting \in Visit /\ Resting.step = "resting"
         /\ Resting.name = NoName /\ Resting.existing = NoSubscription
         /\ NoSubscription \in SubscriptionRow
BY DEF Resting, Visit, SubscriptionRow, NoSubscription, SubscriptionAssumption

LEMMA RestingSound ==
  ASSUME SubscriptionAssumption
  PROVE  Sound(Resting)
BY RestingTyped DEF Sound, Owned, Alive, NoSubscription, SubscriptionAssumption

(* The inductive invariant implies that rows do not overstate.              *)
LEMMA Claimed ==
  ASSUME SubscriptionAssumption, SubscriptionInv
  PROVE  RowsDoNotOverstate
BY DEF SubscriptionInv, SubscriptionTypeOK, SubscriptionRow, RowsDoNotOverstate, Owned,
       Covered, Alive

LEMMA SubscriptionStarts ==
  ASSUME SubscriptionAssumption, SubscriptionInit
  PROVE  SubscriptionInv
<1>1. SubscriptionTypeOK
  <2>1. Resting.user \in Users
    BY RestingTyped DEF Visit
  <2>2. [state |-> "free", user |-> Resting.user, left |-> 0] \in GoogleSide
    BY <2>1 DEF GoogleSide, SubscriptionAssumption
  <2> QED BY <2>2, RestingTyped DEF SubscriptionInit, SubscriptionTypeOK, SubscriptionAssumption
<1>2. \A u \in Users : Owned(u, subscriptions[u]) /\ Covered(subscriptions[u])
  BY DEF SubscriptionInit, Owned, Covered, Alive, NoSubscription, SubscriptionAssumption
<1>3. \A n \in Names : ~Alive(n)
  BY DEF SubscriptionInit, Alive
<1>4. \A v \in Visits : Sound(visits[v])
  BY <1>3, RestingTyped DEF SubscriptionInit, Sound, Owned, Alive, NoSubscription
<1> QED BY <1>1, <1>2, <1>4 DEF SubscriptionInv

(* How Google's side may change under what others hold: a name that lives   *)
(* afterwards and is referred to lived before, for the same user, and its   *)
(* days only went back to the full term.                                    *)
GoogleKeeps(n) ==
  Alive(n)' => /\ Alive(n)
               /\ atGoogle'[n].user = atGoogle[n].user
               /\ atGoogle'[n].left \in {atGoogle[n].left, Ttl}

(* A step that moves one visit and at most its user's row keeps the         *)
(* invariant when these two are sound afterwards.                           *)
LEMMA VisitStepKeeps ==
  ASSUME SubscriptionAssumption, SubscriptionInv, SubscriptionTypeOK', NEW v \in Visits,
         \A w \in Visits \ {v} :
           /\ visits'[w] = visits[w]
           /\ GoogleKeeps(visits[w].name) /\ GoogleKeeps(visits[w].existing.name),
         Sound(visits[v])',
         \A u \in Users :
           \/ subscriptions'[u] = subscriptions[u] /\ GoogleKeeps(subscriptions[u].name)
           \/ Owned(u, subscriptions[u])' /\ Covered(subscriptions[u])'
  PROVE  SubscriptionInv'
<1>1. SubscriptionTypeOK
  BY DEF SubscriptionInv
<1>2. ASSUME NEW w \in Visits
      PROVE  Sound(visits[w])'
  <2>1. CASE w = v
    BY <2>1
  <2>2. CASE w # v
    <3>1. visits[w] \in Visit /\ Sound(visits[w]) /\ visits'[w] = visits[w]
      BY <1>1, <2>2 DEF SubscriptionInv, SubscriptionTypeOK
    <3>2. GoogleKeeps(visits[w].name) /\ GoogleKeeps(visits[w].existing.name)
      BY <2>2
    <3> DEFINE visit == visits[w]
    <3>3. Sound(visit)'
      BY <3>1, <3>2 DEF GoogleKeeps, Sound, Owned, Alive, Visit, SubscriptionRow
    <3> QED BY <3>3
  <2> QED BY <2>1, <2>2
<1>3. ASSUME NEW u \in Users
      PROVE  Owned(u, subscriptions[u])' /\ Covered(subscriptions[u])'
  <2>1. CASE subscriptions'[u] = subscriptions[u] /\ GoogleKeeps(subscriptions[u].name)
    <3>1. subscriptions[u] \in SubscriptionRow
      BY <1>1 DEF SubscriptionTypeOK
    <3>2. Owned(u, subscriptions[u]) /\ Covered(subscriptions[u])
      BY DEF SubscriptionInv
    <3>3. subscriptions[u].left \in 0..Ttl
      BY <3>1 DEF SubscriptionRow
    <3> QED BY <1>1, <2>1, <3>1, <3>2, <3>3
            DEF GoogleKeeps, Owned, Covered, Alive, SubscriptionAssumption, SubscriptionTypeOK,
                GoogleSide
  <2> QED BY <2>1
<1> QED BY <1>2, <1>3 DEF SubscriptionInv

(* Where no row and no visit changes.                                       *)
LEMMA QuietKeeps ==
  ASSUME SubscriptionAssumption, SubscriptionInv, SubscriptionTypeOK',
         UNCHANGED <<subscriptions, visits>>, \A m : GoogleKeeps(m)
  PROVE  SubscriptionInv'
<1>1. ASSUME NEW v \in Visits
      PROVE  Sound(visits[v])'
  <2>1. visits[v] \in Visit /\ Sound(visits[v])
    BY DEF SubscriptionInv, SubscriptionTypeOK
  <2> QED BY <2>1 DEF GoogleKeeps, Sound, Owned, Alive, Visit, SubscriptionRow
<1>2. ASSUME NEW u \in Users
      PROVE  Owned(u, subscriptions[u])' /\ Covered(subscriptions[u])'
  <2>1. /\ Owned(u, subscriptions[u]) /\ Covered(subscriptions[u])
        /\ subscriptions[u].left \in 0..Ttl
    BY DEF SubscriptionInv, SubscriptionTypeOK, SubscriptionRow
  <2> QED BY <2>1 DEF SubscriptionInv, GoogleKeeps, Owned, Covered, Alive, SubscriptionAssumption,
                      SubscriptionTypeOK, GoogleSide
<1> QED BY <1>1, <1>2 DEF SubscriptionInv

LEMMA VisitToTyped ==
  ASSUME SubscriptionTypeOK, NEW v \in Visits
  PROVE  \A name \in Names \cup {NoName},
            step \in {"resting", "creating", "renewing", "saving", "failing"} :
           VisitTo(v, step, name) =>
             /\ visits' \in [Visits -> Visit]
             /\ visits'[v].step = step /\ visits'[v].name = name
             /\ visits'[v].user = visits[v].user /\ visits'[v].existing = visits[v].existing
             /\ \A w \in Visits \ {v} : visits'[w] = visits[w]
<1> TAKE name \in Names \cup {NoName},
         step \in {"resting", "creating", "renewing", "saving", "failing"}
<1> HAVE VisitTo(v, step, name)
<1> DEFINE visit == [visits[v] EXCEPT !.step = step, !.name = name]
<1>1. visits[v] \in Visit
  BY DEF SubscriptionTypeOK
<1>2. /\ visit \in Visit /\ visit.step = step /\ visit.name = name
      /\ visit.user = visits[v].user /\ visit.existing = visits[v].existing
  BY <1>1 DEF Visit
<1>3. visits' = [visits EXCEPT ![v] = visit]
  BY <1>1 DEF VisitTo, SubscriptionTypeOK
<1> HIDE DEF visit
<1>4. visits' \in [Visits -> Visit] /\ visits'[v] = visit
        /\ \A w \in Visits \ {v} : visits'[w] = visits[w]
  BY <1>2, <1>3 DEF SubscriptionTypeOK
<1> QED BY <1>2, <1>4 DEF visit

(* A visit that ends.                                                       *)
LEMMA Rested ==
  ASSUME SubscriptionAssumption, SubscriptionTypeOK, NEW v \in Visits,
         visits' = [visits EXCEPT ![v] = Resting]
  PROVE  /\ visits' \in [Visits -> Visit]
         /\ Sound(visits[v])'
         /\ \A w \in Visits \ {v} : visits'[w] = visits[w]
<1>1. visits'[v] = Resting
  BY DEF SubscriptionTypeOK
<1>2. visits' \in [Visits -> Visit] /\ \A w \in Visits \ {v} : visits'[w] = visits[w]
  BY RestingTyped DEF SubscriptionTypeOK
<1>3. Sound(visits[v])'
  BY <1>1, RestingTyped DEF Sound, Owned, Alive, NoSubscription, SubscriptionAssumption
<1> QED BY <1>2, <1>3

(* Google that stands still keeps what it granted.                          *)
LEMMA Untouched ==
  ASSUME SubscriptionTypeOK, UNCHANGED atGoogle, NEW n
  PROVE  GoogleKeeps(n)
BY DEF GoogleKeeps, Alive

LEMMA BeginKeeps ==
  ASSUME SubscriptionAssumption, SubscriptionInv, NEW v \in Visits, NEW u \in Users,
         BeginVisit(v, u)
  PROVE  SubscriptionInv'
<1> DEFINE row == subscriptions[u]
           step == IF NeedsCreate(row) THEN "creating"
                   ELSE IF row.left < RenewThreshold THEN "renewing" ELSE "resting"
           visit == IF step = "resting" THEN Resting
                    ELSE [step |-> step, user |-> u, existing |-> row, name |-> row.name]
<1>1. SubscriptionTypeOK /\ row \in SubscriptionRow /\ Owned(u, row)
  BY DEF SubscriptionInv, SubscriptionTypeOK
<1>2. visits' = [visits EXCEPT ![v] = visit]
  BY DEF BeginVisit
<1>3. visit \in Visit
  BY <1>1, RestingTyped DEF Visit, SubscriptionRow
<1>4. UNCHANGED <<monitored, subscriptions, atGoogle, troubles>> /\ visited' \subseteq Users
  BY <1>1 DEF BeginVisit, SubscriptionTypeOK
<1>5. Sound(visit)
  <2>1. CASE step = "resting"
    BY <2>1, RestingSound
  <2>2. CASE step \in {"creating", "renewing"}
    BY <1>1, <2>2 DEF Sound, Owned, NeedsCreate, SubscriptionRow
  <2> QED BY <2>1, <2>2
<1> HIDE DEF visit
<1>6. /\ visits'[v] = visit /\ visits' \in [Visits -> Visit]
      /\ \A w \in Visits \ {v} : visits'[w] = visits[w]
  BY <1>1, <1>2, <1>3 DEF SubscriptionTypeOK
<1>7. SubscriptionTypeOK'
  BY <1>1, <1>4, <1>6 DEF SubscriptionTypeOK
<1>8. Sound(visits[v])'
  BY <1>4, <1>5, <1>6 DEF Sound, Owned, Alive
<1> QED BY <1>1, <1>4, <1>6, <1>7, <1>8, VisitStepKeeps, Untouched

(* The name Google gives is one that nothing refers to.                     *)
LEMMA CreateKeeps ==
  ASSUME SubscriptionAssumption, SubscriptionInv, NEW v \in Visits, CreateAtGoogle(v)
  PROVE  SubscriptionInv'
<1> DEFINE n == CHOOSE name \in Unused : TRUE
           live == [state |-> "ACTIVE", user |-> visits[v].user, left |-> Ttl]
<1>1. SubscriptionTypeOK /\ visits[v] \in Visit /\ Sound(visits[v])
  BY DEF SubscriptionInv, SubscriptionTypeOK
<1>2. n \in Unused
  BY DEF CreateAtGoogle
<1> HIDE DEF n
<1>3. /\ n \in Names /\ atGoogle[n].state = "free"
      /\ \A u \in Users : subscriptions[u].name # n
      /\ \A w \in Visits : visits[w].name # n /\ visits[w].existing.name # n
  BY <1>2 DEF Unused
<1>4. live \in GoogleSide
  BY <1>1 DEF GoogleSide, Visit, SubscriptionAssumption
<1>5. atGoogle' = [atGoogle EXCEPT ![n] = live]
  BY DEF CreateAtGoogle, n
<1>6. /\ atGoogle' \in [Names -> GoogleSide] /\ atGoogle'[n] = live
      /\ \A m \in Names \ {n} : atGoogle'[m] = atGoogle[m]
  BY <1>1, <1>3, <1>4, <1>5 DEF SubscriptionTypeOK
<1>7. \A m : m # n => GoogleKeeps(m)
  BY <1>6 DEF GoogleKeeps, Alive
<1>8. PICK step \in {"saving", "failing"}, name \in {n, NoName} :
        /\ VisitTo(v, step, name) /\ (step = "saving" => name = n)
        /\ troubles' \in 0..MaxTroubles
  <2>1. CASE VisitTo(v, "saving", n) /\ UNCHANGED troubles
    BY <1>1, <2>1 DEF SubscriptionTypeOK
  <2>2. CASE VisitTo(v, "failing", NoName) /\ Trouble
    BY <1>1, <2>2 DEF SubscriptionTypeOK, Trouble, SubscriptionAssumption
  <2> QED BY <2>1, <2>2 DEF CreateAtGoogle, n
<1>9. /\ visits' \in [Visits -> Visit]
      /\ visits'[v].step = step /\ visits'[v].name = name
      /\ visits'[v].user = visits[v].user /\ visits'[v].existing = visits[v].existing
      /\ \A w \in Visits \ {v} : visits'[w] = visits[w]
  <2>1. step \in {"resting", "creating", "renewing", "saving", "failing"}
          /\ name \in Names \cup {NoName} /\ VisitTo(v, step, name)
    BY <1>3, <1>8
  <2> QED BY <1>1, <2>1, VisitToTyped
<1>10. SubscriptionTypeOK'
  BY <1>1, <1>6, <1>8, <1>9 DEF SubscriptionTypeOK, CreateAtGoogle
<1>11. Sound(visits[v])'
  <2>1. Owned(visits[v].user, visits[v].existing)'
    BY <1>1, <1>3, <1>7, <1>9 DEF Sound, Owned, GoogleKeeps
  <2>2. Alive(name)' => name = n
    BY <1>8 DEF Alive, SubscriptionAssumption
  <2> QED BY <1>3, <1>6, <1>8, <1>9, <2>1, <2>2 DEF Sound
<1> QED BY <1>3, <1>7, <1>9, <1>10, <1>11, VisitStepKeeps DEF CreateAtGoogle

LEMMA RenewedTyped ==
  ASSUME SubscriptionAssumption, NEW side \in GoogleSide
  PROVE  /\ [side EXCEPT !.state = "ACTIVE", !.left = Ttl] \in GoogleSide
         /\ [side EXCEPT !.state = "ACTIVE", !.left = Ttl].user = side.user
         /\ [side EXCEPT !.state = "ACTIVE", !.left = Ttl].left = Ttl
<1>1. Ttl \in 0..Ttl
  BY DEF SubscriptionAssumption
<1> QED BY <1>1 DEF GoogleSide

(* Where a renewed name lives, it lives for the full term.                  *)
LEMMA RenewKeeps ==
  ASSUME SubscriptionAssumption, SubscriptionInv, NEW v \in Visits, RenewAtGoogle(v)
  PROVE  SubscriptionInv'
<1> DEFINE n == visits[v].name
<1>1. /\ SubscriptionTypeOK /\ visits[v] \in Visit /\ Sound(visits[v])
      /\ n \in Names /\ atGoogle[n] \in GoogleSide
  BY DEF SubscriptionInv, SubscriptionTypeOK, Sound, RenewAtGoogle
<1>2. atGoogle' \in [Names -> GoogleSide] /\ \A m : GoogleKeeps(m)
  <2>1. CASE UNCHANGED atGoogle
    BY <1>1, <2>1, Untouched DEF SubscriptionTypeOK
  <2>2. CASE /\ atGoogle[n].state # "free"
             /\ atGoogle' = [atGoogle EXCEPT ![n].state = "ACTIVE", ![n].left = Ttl]
    <3> DEFINE live == [atGoogle[n] EXCEPT !.state = "ACTIVE", !.left = Ttl]
    <3>1. live \in GoogleSide /\ live.user = atGoogle[n].user /\ live.left = Ttl
      BY <1>1, RenewedTyped
    <3>2. atGoogle' = [atGoogle EXCEPT ![n] = live]
      BY <1>1, <2>2 DEF SubscriptionTypeOK
    <3> HIDE DEF live
    <3>3. atGoogle' \in [Names -> GoogleSide] /\ atGoogle'[n] = live
            /\ \A m \in Names \ {n} : atGoogle'[m] = atGoogle[m]
      BY <1>1, <3>1, <3>2 DEF SubscriptionTypeOK
    <3> QED BY <1>1, <2>2, <3>1, <3>3 DEF GoogleKeeps, Alive
  <2> QED BY <2>1, <2>2 DEF RenewAtGoogle
<1>3. PICK step \in {"saving", "failing"} :
        /\ VisitTo(v, step, n)
        /\ step = "saving" => atGoogle'[n].left = Ttl
  <2>1. CASE atGoogle[n].state = "free"
    BY <2>1 DEF RenewAtGoogle
  <2>2. CASE atGoogle[n].state # "free"
    <3>1. atGoogle'[n].left = Ttl
      BY <1>1, <2>2 DEF RenewAtGoogle, SubscriptionTypeOK, GoogleSide
    <3> QED BY <2>2, <3>1 DEF RenewAtGoogle
  <2> QED BY <2>1, <2>2
<1>4. /\ visits' \in [Visits -> Visit]
      /\ visits'[v].step = step /\ visits'[v].name = n
      /\ visits'[v].user = visits[v].user /\ visits'[v].existing = visits[v].existing
      /\ \A w \in Visits \ {v} : visits'[w] = visits[w]
  <2>1. step \in {"resting", "creating", "renewing", "saving", "failing"}
          /\ n \in Names \cup {NoName} /\ VisitTo(v, step, n)
    BY <1>1, <1>3
  <2> QED BY <1>1, <2>1, VisitToTyped
<1>5. SubscriptionTypeOK'
  BY <1>1, <1>2, <1>4 DEF SubscriptionTypeOK, RenewAtGoogle
<1>6. Sound(visits[v])'
  BY <1>1, <1>2, <1>3, <1>4 DEF Sound, Owned, GoogleKeeps
<1> QED BY <1>2, <1>4, <1>5, <1>6, VisitStepKeeps DEF RenewAtGoogle

LEMMA FailsKeeps ==
  ASSUME SubscriptionAssumption, SubscriptionInv, NEW v \in Visits, VisitFails(v)
  PROVE  SubscriptionInv'
<1> DEFINE n == visits[v].name
<1>1. /\ SubscriptionTypeOK /\ visits[v] \in Visit /\ Sound(visits[v])
      /\ n \in Names \cup {NoName}
  BY DEF SubscriptionInv, SubscriptionTypeOK, Visit
<1>2. atGoogle' \in [Names -> GoogleSide] /\ \A m : GoogleKeeps(m)
  <2>1. CASE UNCHANGED atGoogle
    BY <1>1, <2>1, Untouched DEF SubscriptionTypeOK
  <2>2. CASE /\ visits[v].step = "renewing" /\ atGoogle[n].state = "SUSPENDED"
             /\ atGoogle' = [atGoogle EXCEPT ![n].state = "ACTIVE"]
    <3>1. n \in Names /\ atGoogle[n] \in GoogleSide
      BY <1>1, <2>2 DEF Sound, SubscriptionTypeOK
    <3> DEFINE live == [atGoogle[n] EXCEPT !.state = "ACTIVE"]
    <3>2. live \in GoogleSide /\ live.user = atGoogle[n].user /\ live.left = atGoogle[n].left
      BY <3>1 DEF GoogleSide
    <3>3. atGoogle' = [atGoogle EXCEPT ![n] = live]
      BY <1>1, <2>2, <3>1 DEF SubscriptionTypeOK
    <3> HIDE DEF live
    <3>4. atGoogle' \in [Names -> GoogleSide] /\ atGoogle'[n] = live
            /\ \A m \in Names \ {n} : atGoogle'[m] = atGoogle[m]
      BY <1>1, <3>1, <3>2, <3>3 DEF SubscriptionTypeOK
    <3> QED BY <2>2, <3>1, <3>2, <3>4 DEF GoogleKeeps, Alive
  <2> QED BY <2>1, <2>2 DEF VisitFails
<1>3. VisitTo(v, "failing", n) /\ troubles' \in 0..MaxTroubles
  BY <1>1 DEF VisitFails, Trouble, SubscriptionTypeOK, SubscriptionAssumption
<1>4. /\ visits' \in [Visits -> Visit]
      /\ visits'[v].step = "failing" /\ visits'[v].name = n
      /\ visits'[v].user = visits[v].user /\ visits'[v].existing = visits[v].existing
      /\ \A w \in Visits \ {v} : visits'[w] = visits[w]
  BY <1>1, <1>3, VisitToTyped
<1>5. SubscriptionTypeOK'
  BY <1>1, <1>2, <1>3, <1>4 DEF SubscriptionTypeOK, VisitFails
<1>6. Sound(visits[v])'
  BY <1>1, <1>2, <1>4 DEF Sound, Owned, GoogleKeeps
<1> QED BY <1>2, <1>4, <1>5, <1>6, VisitStepKeeps DEF VisitFails

(* What is saved is a name that lives for the full term, or no longer.      *)
LEMMA SaveKeeps ==
  ASSUME SubscriptionAssumption, SubscriptionInv, NEW v \in Visits, SaveSubscription(v)
  PROVE  SubscriptionInv'
<1> DEFINE row == [state |-> "ACTIVE", name |-> visits[v].name, left |-> Ttl]
<1>0. PICK u \in Users : u = visits[v].user
  BY DEF SubscriptionInv, SubscriptionTypeOK, Visit
<1>1. /\ SubscriptionTypeOK /\ visits[v] \in Visit /\ Sound(visits[v])
      /\ visits[v].step = "saving" /\ visits[v].name \in Names
  BY DEF SubscriptionInv, SubscriptionTypeOK, SaveSubscription, Sound, Visit
<1>2. row \in SubscriptionRow
  BY <1>1 DEF SubscriptionRow, SubscriptionAssumption
<1>3. subscriptions' = [subscriptions EXCEPT ![u] = row]
        /\ visits' = [visits EXCEPT ![v] = Resting] /\ visited' = visited \cup {u}
        /\ UNCHANGED <<monitored, atGoogle, troubles>>
  BY <1>0 DEF SaveSubscription
<1>4. /\ subscriptions'[u] = row /\ subscriptions' \in [Users -> SubscriptionRow]
      /\ \A w \in Users \ {u} : subscriptions'[w] = subscriptions[w]
  BY <1>1, <1>2, <1>3 DEF SubscriptionTypeOK
<1>5. /\ visits' \in [Visits -> Visit] /\ Sound(visits[v])'
      /\ \A w \in Visits \ {v} : visits'[w] = visits[w]
  BY <1>1, <1>3, Rested
<1>6. SubscriptionTypeOK'
  BY <1>1, <1>3, <1>4, <1>5 DEF SubscriptionTypeOK
<1>7. Owned(u, subscriptions[u])' /\ Covered(subscriptions[u])'
  BY <1>0, <1>1, <1>3, <1>4 DEF Sound, Owned, Covered, Alive, SubscriptionAssumption
<1>8. \A n : GoogleKeeps(n)
  BY <1>1, <1>3, Untouched
<1> QED BY <1>4, <1>5, <1>6, <1>7, <1>8, VisitStepKeeps

(* A row in error promises nothing.                                         *)
LEMMA SaveErrorKeeps ==
  ASSUME SubscriptionAssumption, SubscriptionInv, NEW v \in Visits, SaveError(v)
  PROVE  SubscriptionInv'
<1> DEFINE row == [visits[v].existing EXCEPT !.state = "ERROR"]
<1>0. PICK u \in Users : u = visits[v].user
  BY DEF SubscriptionInv, SubscriptionTypeOK, Visit
<1>1. /\ SubscriptionTypeOK /\ visits[v] \in Visit /\ Sound(visits[v])
  BY DEF SubscriptionInv, SubscriptionTypeOK, Visit
<1>2. row \in SubscriptionRow /\ row.state = "ERROR" /\ row.name = visits[v].existing.name
  BY <1>1 DEF SubscriptionRow, Visit
<1>3. subscriptions' = [subscriptions EXCEPT ![u] = row]
        /\ visits' = [visits EXCEPT ![v] = Resting] /\ visited' = visited \cup {u}
        /\ UNCHANGED <<monitored, atGoogle, troubles>>
  BY <1>0 DEF SaveError
<1> HIDE DEF row
<1>4. /\ subscriptions'[u] = row /\ subscriptions' \in [Users -> SubscriptionRow]
      /\ \A w \in Users \ {u} : subscriptions'[w] = subscriptions[w]
  BY <1>1, <1>2, <1>3 DEF SubscriptionTypeOK
<1>5. /\ visits' \in [Visits -> Visit] /\ Sound(visits[v])'
      /\ \A w \in Visits \ {v} : visits'[w] = visits[w]
  BY <1>1, <1>3, Rested
<1>6. SubscriptionTypeOK'
  BY <1>1, <1>3, <1>4, <1>5 DEF SubscriptionTypeOK
<1>7. Owned(u, subscriptions[u])' /\ Covered(subscriptions[u])'
  BY <1>0, <1>1, <1>2, <1>3, <1>4 DEF Sound, Owned, Covered, Alive
<1>8. \A n : GoogleKeeps(n)
  BY <1>1, <1>3, Untouched
<1> QED BY <1>4, <1>5, <1>6, <1>7, <1>8, VisitStepKeeps

LEMMA DiesKeeps ==
  ASSUME SubscriptionAssumption, SubscriptionInv, NEW v \in Visits, VisitDies(v)
  PROVE  SubscriptionInv'
<1>1. SubscriptionTypeOK /\ visits' = [visits EXCEPT ![v] = Resting]
        /\ UNCHANGED <<monitored, subscriptions, atGoogle, visited>>
  BY DEF SubscriptionInv, VisitDies
<1>2. /\ visits' \in [Visits -> Visit] /\ Sound(visits[v])'
      /\ \A w \in Visits \ {v} : visits'[w] = visits[w]
  BY <1>1, Rested
<1>3. SubscriptionTypeOK'
  BY <1>1, <1>2 DEF SubscriptionTypeOK, VisitDies, Trouble, SubscriptionAssumption
<1>4. \A n : GoogleKeeps(n)
  BY <1>1, Untouched
<1> QED BY <1>1, <1>2, <1>3, <1>4, VisitStepKeeps

----------------------------------------------------------------------------
(* What happens at Google: a name is suspended or dropped.                  *)
LEMMA RevokeKeeps ==
  ASSUME SubscriptionAssumption, SubscriptionInv, NEW n \in Names, Revoke(n)
  PROVE  SubscriptionInv'
<1> DEFINE side == [atGoogle[n] EXCEPT !.state = IF @ = "ACTIVE" THEN "SUSPENDED" ELSE "free"]
<1>1. SubscriptionTypeOK /\ atGoogle[n] \in GoogleSide /\ atGoogle[n].state # "free"
  BY DEF SubscriptionInv, SubscriptionTypeOK, Revoke
<1>2. side \in GoogleSide /\ side.user = atGoogle[n].user /\ side.left = atGoogle[n].left
  BY <1>1 DEF GoogleSide
<1>3. atGoogle' = [atGoogle EXCEPT ![n] = side]
  BY <1>1 DEF Revoke, SubscriptionTypeOK
<1> HIDE DEF side
<1>4. /\ atGoogle' \in [Names -> GoogleSide] /\ atGoogle'[n] = side
      /\ \A m \in Names \ {n} : atGoogle'[m] = atGoogle[m]
  BY <1>1, <1>2, <1>3 DEF SubscriptionTypeOK
<1>5. \A m : GoogleKeeps(m)
  BY <1>1, <1>2, <1>4 DEF GoogleKeeps, Alive
<1>6. SubscriptionTypeOK'
  BY <1>1, <1>4 DEF SubscriptionTypeOK, Revoke, Trouble, SubscriptionAssumption
<1>7. UNCHANGED <<subscriptions, visits>>
  BY DEF Revoke
<1> QED BY <1>1, <1>5, <1>6, <1>7, QuietKeeps

LEMMA MonitorKeeps ==
  ASSUME SubscriptionAssumption, SubscriptionInv, NEW u \in Users, Monitor(u)
  PROVE  SubscriptionInv'
<1>1. SubscriptionTypeOK /\ SubscriptionTypeOK'
  BY DEF SubscriptionInv, SubscriptionTypeOK, Monitor
<1>2. \A m : GoogleKeeps(m)
  BY <1>1, Untouched DEF Monitor
<1> QED BY <1>1, <1>2, QuietKeeps DEF Monitor

(* A day takes one from both sides, and drops at Google what had no more.   *)
LEMMA DayKeeps ==
  ASSUME SubscriptionAssumption, SubscriptionInv, Day
  PROVE  SubscriptionInv'
<1>1. SubscriptionTypeOK /\ UNCHANGED <<monitored, visits>> /\ visited' = {}
        /\ \A v \in Visits : visits[v] = Resting
  BY DEF SubscriptionInv, Day
<1>2. troubles' \in 0..MaxTroubles
  <2>1. UNCHANGED troubles \/ Trouble
    BY DEF Day
  <2> QED BY <1>1, <2>1 DEF Trouble, SubscriptionTypeOK, SubscriptionAssumption
<1>3. \A left \in 0..Ttl : Sooner(left) \in 0..Ttl
  BY DEF Sooner, SubscriptionAssumption
<1>4. ASSUME NEW u \in Users
      PROVE  /\ subscriptions'[u] \in SubscriptionRow
             /\ subscriptions'[u].state = subscriptions[u].state
             /\ subscriptions'[u].name = subscriptions[u].name
             /\ subscriptions'[u].left = Sooner(subscriptions[u].left)
  <2> DEFINE row == subscriptions[u]
  <2>1. row \in SubscriptionRow /\ Sooner(row.left) \in 0..Ttl
    BY <1>1, <1>3 DEF SubscriptionTypeOK, SubscriptionRow
  <2>2. subscriptions'[u] = [row EXCEPT !.left = Sooner(row.left)]
    BY <2>1 DEF Day, SubscriptionRow
  <2> HIDE DEF row
  <2> QED BY <2>1, <2>2 DEF SubscriptionRow, row
<1>5. ASSUME NEW n \in Names
      PROVE  /\ atGoogle'[n] \in GoogleSide
             /\ atGoogle'[n].user = atGoogle[n].user
             /\ atGoogle'[n].left = Sooner(atGoogle[n].left)
             /\ atGoogle'[n].state # "free" =>
                  atGoogle[n].state # "free" /\ atGoogle[n].left > 1
  <2> DEFINE side == atGoogle[n]
             left == Sooner(side.left)
             state == IF side.left <= 1 THEN "free" ELSE side.state
  <2>1. side \in GoogleSide /\ left \in 0..Ttl /\ state \in {"free", "ACTIVE", "SUSPENDED"}
    BY <1>1, <1>3 DEF SubscriptionTypeOK, GoogleSide
  <2>2. atGoogle'[n] = [side EXCEPT !.left = left, !.state = state]
    BY <2>1 DEF Day, GoogleSide
  <2>3. side.left \in Nat
    BY <2>1 DEF GoogleSide
  <2> HIDE DEF left
  <2>4. /\ atGoogle'[n] \in GoogleSide /\ atGoogle'[n].user = side.user
        /\ atGoogle'[n].left = left /\ atGoogle'[n].state = state
    BY <2>1, <2>2 DEF GoogleSide
  <2> QED BY <2>3, <2>4 DEF left
<1>6. SubscriptionTypeOK'
  <2>1. subscriptions' \in [Users -> SubscriptionRow] /\ atGoogle' \in [Names -> GoogleSide]
    BY <1>4, <1>5 DEF Day
  <2> QED BY <1>1, <1>2, <2>1 DEF SubscriptionTypeOK
<1>7. ASSUME NEW u \in Users
      PROVE  Owned(u, subscriptions[u])' /\ Covered(subscriptions[u])'
  <2>1. Owned(u, subscriptions[u]) /\ Covered(subscriptions[u])
          /\ subscriptions[u].left \in Nat
    BY <1>1 DEF SubscriptionInv, SubscriptionTypeOK, SubscriptionRow
  <2>2. subscriptions[u].name \in Names => atGoogle[subscriptions[u].name].left \in Nat
    BY <1>1 DEF SubscriptionTypeOK, GoogleSide
  <2> QED BY <1>4, <1>5, <2>1, <2>2 DEF Owned, Covered, Alive, Sooner
<1>8. \A v \in Visits : Sound(visits[v])'
  BY <1>1, RestingTyped DEF Sound, Owned, Alive, NoSubscription, SubscriptionAssumption
<1> QED BY <1>6, <1>7, <1>8 DEF SubscriptionInv

LEMMA SubscriptionStutters ==
  ASSUME SubscriptionAssumption, SubscriptionInv, UNCHANGED subscriptionVars
  PROVE  SubscriptionInv'
<1>1. SubscriptionTypeOK /\ SubscriptionTypeOK'
  BY DEF SubscriptionInv, SubscriptionTypeOK, subscriptionVars
<1>2. \A m : GoogleKeeps(m)
  BY <1>1, Untouched DEF subscriptionVars
<1> QED BY <1>1, <1>2, QuietKeeps DEF subscriptionVars

(* Every action of the visits, of Google and of the administrators keeps    *)
(* the inductive invariant of the subscriptions.                            *)
THEOREM SubscriptionStep ==
  ASSUME SubscriptionAssumption, SubscriptionInv, [SubscriptionNext]_subscriptionVars
  PROVE  SubscriptionInv'
<1>1. ASSUME NEW v \in Visits, VisitStep(v)
      PROVE  SubscriptionInv'
  BY <1>1, CreateKeeps, RenewKeeps, SaveKeeps, SaveErrorKeeps DEF VisitStep
<1>2. ASSUME NEW v \in Visits, VisitFails(v) \/ VisitDies(v) \/ \E u \in Users : BeginVisit(v, u)
      PROVE  SubscriptionInv'
  BY <1>2, FailsKeeps, DiesKeeps, BeginKeeps
<1>3. ASSUME NEW u \in Users, Monitor(u)
      PROVE  SubscriptionInv'
  BY <1>3, MonitorKeeps
<1>4. ASSUME NEW n \in Names, Revoke(n)
      PROVE  SubscriptionInv'
  BY <1>4, RevokeKeeps
<1>5. CASE Day
  BY <1>5, DayKeeps
<1>6. CASE UNCHANGED subscriptionVars
  BY <1>6, SubscriptionStutters
<1> QED BY <1>1, <1>2, <1>3, <1>4, <1>5, <1>6 DEF SubscriptionNext

(* The rows, the visits and Google's side keep their types.                 *)
THEOREM SubscriptionTypesHold == SubscriptionSpec => []SubscriptionTypeOK
<1>1. SubscriptionInit => SubscriptionInv
  BY SubscriptionStarts, SubscriptionAssumption
<1>2. SubscriptionInv /\ [SubscriptionNext]_subscriptionVars => SubscriptionInv'
  BY SubscriptionStep, SubscriptionAssumption
<1>3. SubscriptionInv => SubscriptionTypeOK
  BY DEF SubscriptionInv
<1> QED BY <1>1, <1>2, <1>3, PTL DEF SubscriptionSpec

(* A row in ACTIVE promises no more days than Google will deliver notices   *)
(* for its user, unless Google revoked the subscription                     *)
(* (ensureWorkspaceSubscriptions writes Google first and the row after).    *)
THEOREM ActiveRowsAreCovered == SubscriptionSpec => []RowsDoNotOverstate
<1>1. SubscriptionInit => SubscriptionInv
  BY SubscriptionStarts, SubscriptionAssumption
<1>2. SubscriptionInv /\ [SubscriptionNext]_subscriptionVars => SubscriptionInv'
  BY SubscriptionStep, SubscriptionAssumption
<1>3. SubscriptionInv => RowsDoNotOverstate
  BY Claimed, SubscriptionAssumption
<1> QED BY <1>1, <1>2, <1>3, PTL DEF SubscriptionSpec

----------------------------------------------------------------------------
(* The capture of meetings.                                                 *)
(* A worker takes one job of the sync's queue at a time.                    *)
OneSync == \A s, t \in Syncs : s = t

Closed(row) == row.status \in {"ENDED", "CANCELLED"}

AbsentIsUnseen ==
  /\ \A at \in Places : captured[at].status = "absent" => captured[at].seen = 0
  /\ \A x \in Editors : edits[x] # NoEdit => edits[x].read.status # "absent"

(* What Google answered lies between the token and the calendar.            *)
AnswersTrail ==
  /\ \A c \in Occasions : cursor[c] <= agenda[c].version
  /\ \A s \in Syncs : syncs[s] # NoSync =>
       /\ syncs[s].since = cursor
       /\ \A c \in Occasions :
            /\ cursor[c] <= syncs[s].answer[c].version
            /\ syncs[s].answer[c].version <= agenda[c].version
            /\ syncs[s].answer[c].dropped \subseteq agenda[c].dropped

(* A row never falls behind one found or seen earlier, unless a user saved  *)
(* over it.                                                                 *)
Ahead(row, earlier) ==
  Closed(row) \/ (row.seen >= earlier.seen /\ ~Closed(earlier))

FoundTrails ==
  \A s \in Syncs : syncs[s].step = "upserting" =>
    \A at \in Places :
      /\ syncs[s].found[at].status = "absent" => syncs[s].found[at].seen = 0
      /\ at[1] \in overwritten \/ Ahead(captured[at], syncs[s].found[at])

CaptureInv ==
  CaptureTypeOK /\ AbsentIsUnseen /\ AnswersTrail /\ FoundTrails /\ TokenCoversMeetings

----------------------------------------------------------------------------
(* Types, step by step.                                                     *)
LEMMA EndedMoves ==
  ASSUME NEW row \in CapturedRow
  PROVE  Ended(row) \in CapturedRow /\ Closed(Ended(row)) /\ Ended(row).status # "absent"
BY DEF Ended, Closed, CapturedRow

LEMMA SweepTyped ==
  ASSUME CaptureTypeOK, NEW w \in Sweeps, sweeps[w] # NoSweep
  PROVE  sweeps[w] \in Sweep /\ sweeps[w].at \in Places /\ sweeps[w].at[1] \in Occasions
         /\ captured[sweeps[w].at] \in CapturedRow
BY DEF CaptureTypeOK, Sweep, Places

(* A sync about to commit, and the row its upsert makes of one it found.    *)
LEMMA UpsertedTyped ==
  ASSUME CaptureAssumption, CaptureTypeOK, NEW s \in Syncs, syncs[s].step = "upserting",
         NEW at \in Places
  PROVE  /\ syncs[s] \in Sync /\ at[1] \in Occasions
         /\ syncs[s].answer[at[1]] \in AgendaItem
         /\ syncs[s].found[at] \in CapturedRow
         /\ Upserted(at[1], syncs[s], at) \in CapturedRow
<1>1. syncs[s] \in Sync
  BY DEF CaptureTypeOK, NoSync
<1>2. at[1] \in Occasions
  BY DEF Places
<1>3. syncs[s].answer[at[1]] \in AgendaItem /\ syncs[s].found[at] \in CapturedRow
  BY <1>1, <1>2 DEF Sync
<1> DEFINE item == syncs[s].answer[at[1]]
           row == syncs[s].found[at]
<1>4. /\ [Nowhere EXCEPT !.status = "SCHEDULED", !.seen = item.version] \in CapturedRow
      /\ [row EXCEPT !.status = "CANCELLED"] \in CapturedRow
      /\ [row EXCEPT !.seen = item.version] \in CapturedRow
  BY <1>3 DEF AgendaItem, CapturedRow, Nowhere, CaptureAssumption
<1>5. Upserted(at[1], syncs[s], at)
        \in {[Nowhere EXCEPT !.status = "SCHEDULED", !.seen = item.version],
             [row EXCEPT !.status = "CANCELLED"], [row EXCEPT !.seen = item.version], row}
  BY DEF Upserted
<1> QED BY <1>1, <1>2, <1>3, <1>4, <1>5

LEMMA CommitSyncTyped ==
  ASSUME CaptureAssumption, CaptureTypeOK, NEW s \in Syncs, CommitSync(s)
  PROVE  CaptureTypeOK'
<1>1. syncs[s] \in Sync
  BY DEF CaptureTypeOK, CommitSync, NoSync
<1>2. \A at \in Places : Upserted(at[1], syncs[s], at) \in CapturedRow
  BY UpsertedTyped DEF CommitSync
<1>3. captured' \in [Places -> CapturedRow]
  BY <1>2 DEF CommitSync, CaptureTypeOK
<1>4. cursor' \in [Occasions -> 0..MaxVersion]
  BY <1>1 DEF CommitSync, Sync, AgendaItem
<1>5. netJobs' \subseteq Places /\ swept' \subseteq Places
  BY DEF CommitSync, Changed, CaptureTypeOK
<1>6. syncs' \in [Syncs -> Sync \cup {NoSync}]
  BY DEF CommitSync, CaptureTypeOK
<1> QED BY <1>3, <1>4, <1>5, <1>6 DEF CommitSync, CaptureTypeOK, people

LEMMA CalendarTyped ==
  ASSUME CaptureAssumption, CaptureTypeOK,
         \/ \E c \in Occasions : Reschedule(c)
         \/ LoseToken
         \/ \E s \in Syncs : AskCalendar(s) \/ ReadMeetings(s) \/ AbortSync(s)
  PROVE  CaptureTypeOK'
<1>1. ASSUME NEW c \in Occasions, Reschedule(c)
      PROVE  CaptureTypeOK'
  <2>1. PICK cancelled \in BOOLEAN :
          agenda' = [agenda EXCEPT ![c] =
            [version |-> @.version + 1,
             dropped |-> @.dropped \cup (IF cancelled THEN {@.version + 1} ELSE {})]]
    BY <1>1 DEF Reschedule
  <2>2. agenda[c] \in AgendaItem
    BY DEF CaptureTypeOK
  <2>3. agenda'[c] \in AgendaItem
    BY <1>1, <2>1, <2>2 DEF Reschedule, AgendaItem, CaptureAssumption, CaptureTypeOK
  <2>4. agenda' \in [Occasions -> AgendaItem]
    BY <2>1, <2>3 DEF CaptureTypeOK
  <2> QED BY <1>1, <2>4 DEF Reschedule, CaptureTypeOK, people, netVars
<1>2. CASE LoseToken
  BY <1>2 DEF CaptureTypeOK, LoseToken, Slip, people, netVars, CaptureAssumption
<1>3. ASSUME NEW s \in Syncs, AskCalendar(s)
      PROVE  CaptureTypeOK'
  <2> DEFINE asked == [step |-> "asked", full |-> expired, since |-> cursor,
                       answer |-> agenda, found |-> [at \in Places |-> Nowhere]]
  <2>1. Nowhere \in CapturedRow
    BY DEF Nowhere, CapturedRow, CaptureAssumption
  <2>2. asked \in Sync
    BY <2>1 DEF CaptureTypeOK, Sync
  <2> QED BY <1>3, <2>2 DEF AskCalendar, CaptureTypeOK, people, netVars
<1>4. ASSUME NEW s \in Syncs, ReadMeetings(s)
      PROVE  CaptureTypeOK'
  <2> DEFINE read == [syncs[s] EXCEPT !.step = "upserting", !.found = captured]
  <2>1. syncs[s] \in Sync
    BY <1>4 DEF CaptureTypeOK, ReadMeetings, NoSync
  <2>2. syncs' = [syncs EXCEPT ![s] = read]
    BY <1>4, <2>1 DEF CaptureTypeOK, ReadMeetings, Sync
  <2>3. read \in Sync
    BY <2>1 DEF CaptureTypeOK, Sync
  <2> QED BY <1>4, <2>2, <2>3 DEF ReadMeetings, CaptureTypeOK, people, netVars
<1>5. ASSUME NEW s \in Syncs, AbortSync(s)
      PROVE  CaptureTypeOK'
  BY <1>5 DEF CaptureTypeOK, AbortSync, Slip, people, netVars, CaptureAssumption
<1> QED BY <1>1, <1>2, <1>3, <1>4, <1>5

LEMMA NoticeTyped ==
  ASSUME CaptureTypeOK, NEW c \in Occasions, NoticeOfEnd(c)
  PROVE  CaptureTypeOK'
<1>1. PICK at \in Places : /\ captured' = [captured EXCEPT ![at] = Ended(captured[at])]
                           /\ taken' = taken \cup {at}
  BY DEF NoticeOfEnd, Linked, Places, Makers
<1>2. Ended(captured[at]) \in CapturedRow
  BY EndedMoves DEF CaptureTypeOK
<1> QED BY <1>1, <1>2 DEF NoticeOfEnd, CaptureTypeOK, calendarVars, people

LEMMA FinishTyped ==
  ASSUME CaptureTypeOK, NEW at \in Places, Finish(at)
  PROVE  CaptureTypeOK'
<1>1. captured[at] \in CapturedRow
  BY DEF CaptureTypeOK
<1>2. [captured[at] EXCEPT !.processing = "COMPLETED"] \in CapturedRow
  BY <1>1 DEF CapturedRow
<1>3. captured' = [captured EXCEPT ![at] = [captured[at] EXCEPT !.processing = "COMPLETED"]]
  BY <1>1 DEF Finish, CaptureTypeOK, CapturedRow
<1> QED BY <1>2, <1>3 DEF Finish, CaptureTypeOK, calendarVars, people, netVars

LEMMA SweepStepTyped ==
  ASSUME CaptureAssumption, CaptureTypeOK, NEW w \in Sweeps,
         SweepStep(w) \/ SweepFails(w) \/ (\E at \in Places : BeginSweep(w, at))
  PROVE  CaptureTypeOK'
<1> DEFINE at == sweeps[w].at
<1>1. CASE SweepFails(w)
  BY <1>1 DEF CaptureTypeOK, SweepFails, Slip, calendarVars, people, CaptureAssumption
<1>2. ASSUME NEW o \in Places, BeginSweep(w, o)
      PROVE  CaptureTypeOK'
  <2>1. [step |-> "asking", at |-> o, read |-> captured[o]] \in Sweep
    BY DEF CaptureTypeOK, Sweep
  <2> QED BY <1>2, <2>1 DEF BeginSweep, CaptureTypeOK, calendarVars, people
<1>3. CASE SweepStep(w)
  <2>1. sweeps[w] \in Sweep /\ at \in Places /\ captured[at] \in CapturedRow
    BY <1>3, SweepTyped
       DEF SweepStep, SweepLinked, SweepFinds, SweepSends, SweepMisses, NoSweep
  <2>2. CASE SweepLinked(w) \/ SweepSends(w)
    BY <2>1, <2>2
       DEF SweepLinked, SweepSends, EndSweep, CaptureTypeOK, calendarVars, people
  <2>3. CASE SweepFinds(w) /\ Linked(at[1]) \subseteq {at}
    <3>1. captured' = [captured EXCEPT ![at] = Ended(captured[at])]
      BY <2>3 DEF SweepFinds
    <3>2. /\ sweeps' = [sweeps EXCEPT ![w] = [sweeps[w] EXCEPT !.step = "sending"]]
          /\ swept' = swept
      BY <2>1, <2>3 DEF SweepFinds, CaptureTypeOK, Sweep
    <3>3. [sweeps[w] EXCEPT !.step = "sending"] \in Sweep
      BY <2>1 DEF Sweep
    <3>4. Ended(captured[at]) \in CapturedRow
      BY <2>1, EndedMoves
    <3> QED BY <2>3, <3>1, <3>2, <3>3, <3>4
            DEF SweepFinds, CaptureTypeOK, calendarVars, people
  <2>4. CASE SweepFinds(w) /\ ~(Linked(at[1]) \subseteq {at})
    BY <2>1, <2>4 DEF SweepFinds, EndSweep, CaptureTypeOK, calendarVars, people
  <2>5. CASE SweepMisses(w)
    <3>1. netJobs' \subseteq Places /\ swept' \subseteq Places
          /\ sweeps' \in [Sweeps -> Sweep \cup {NoSweep}]
      BY <2>1, <2>5 DEF SweepMisses, EndSweep, CaptureTypeOK
    <3>2. captured' \in [Places -> CapturedRow]
      BY <2>1, <2>5 DEF SweepMisses, CaptureTypeOK, CapturedRow
    <3> QED BY <2>5, <3>1, <3>2 DEF SweepMisses, CaptureTypeOK, calendarVars, people
  <2> QED BY <1>3, <2>2, <2>3, <2>4, <2>5 DEF SweepStep
<1> QED BY <1>1, <1>2, <1>3

LEMMA EditTyped ==
  ASSUME CaptureAssumption, CaptureTypeOK, NEW x \in Editors,
         EditStep(x) \/ (\E at \in Places : BeginEdit(x, at))
  PROVE  CaptureTypeOK'
<1>1. ASSUME NEW at \in Places, BeginEdit(x, at)
      PROVE  CaptureTypeOK'
  <2>1. [step |-> "editing", at |-> at, read |-> captured[at]] \in Edit
    BY DEF CaptureTypeOK, Edit
  <2> QED BY <1>1, <2>1
          DEF BeginEdit, CaptureTypeOK, calendarVars, netVars, Slip, CaptureAssumption
<1>2. CASE EndEdit(x)
  <2>1. /\ edits[x] \in Edit /\ edits[x].at \in Places /\ edits[x].at[1] \in Occasions
        /\ edits[x].read \in CapturedRow
    BY <1>2 DEF CaptureTypeOK, EndEdit, Edit, Places
  <2>2. overwritten' \subseteq Occasions
    BY <1>2, <2>1 DEF EndEdit, CaptureTypeOK
  <2>3. /\ captured' \in [Places -> CapturedRow] /\ swept' \subseteq Places
        /\ edits' \in [Editors -> Edit \cup {NoEdit}]
    BY <1>2, <2>1 DEF EndEdit, CaptureTypeOK
  <2> QED BY <1>2, <2>2, <2>3 DEF EndEdit, CaptureTypeOK, calendarVars, netVars
<1>3. CASE EditRefused(x)
  BY <1>3 DEF EditRefused, CaptureTypeOK, calendarVars, netVars
<1> QED BY <1>1, <1>2, <1>3 DEF EditStep

LEMMA CaptureTyped ==
  ASSUME CaptureAssumption, CaptureTypeOK, [CaptureNext]_captureVars
  PROVE  CaptureTypeOK'
<1>1. CASE UNCHANGED captureVars
  BY <1>1 DEF captureVars, CaptureTypeOK
<1>2. ASSUME NEW c \in Occasions, Pass(c)
      PROVE  CaptureTypeOK'
  BY <1>2 DEF Pass, CaptureTypeOK, calendarVars, people, netVars
<1> QED BY <1>1, <1>2, CalendarTyped, CommitSyncTyped, NoticeTyped, FinishTyped,
           SweepStepTyped, EditTyped DEF CaptureNext, SyncStep

LEMMA CaptureTypedAtFirst ==
  ASSUME CaptureAssumption, CaptureInit
  PROVE  CaptureTypeOK
BY DEF CaptureAssumption, CaptureInit, CaptureTypeOK, AgendaItem, CapturedRow, Nowhere

----------------------------------------------------------------------------
LEMMA CaptureStarts ==
  ASSUME CaptureAssumption, CaptureInit
  PROVE  CaptureInv
<1>1. CaptureTypeOK
  BY CaptureTypedAtFirst
<1>2. AbsentIsUnseen /\ AnswersTrail /\ FoundTrails /\ TokenCoversMeetings
  BY DEF CaptureInit, AbsentIsUnseen, AnswersTrail, FoundTrails, TokenCoversMeetings, Nowhere,
         NoSync
<1> QED BY <1>1, <1>2 DEF CaptureInv

(* Steps on the rows that leave the calendar, its token and its answers     *)
(* alone keep the invariant when no row falls behind.                       *)
LEMMA RowsForward ==
  ASSUME CaptureAssumption, CaptureInv, CaptureTypeOK',
         UNCHANGED <<agenda, cursor>>, overwritten \subseteq overwritten',
         \A s \in Syncs : syncs'[s] \in {syncs[s], NoSync},
         \A at \in Places :
           /\ at[1] \in overwritten' \/ Ahead(captured'[at], captured[at])
           /\ captured'[at].status = "absent" => captured'[at].seen = 0,
         \A x \in Editors : edits'[x] # NoEdit => edits'[x].read.status # "absent"
  PROVE  CaptureInv'
<1>1. CaptureTypeOK
  BY DEF CaptureInv
<1>2. AbsentIsUnseen'
  BY DEF AbsentIsUnseen
<1>3. AnswersTrail'
  BY DEF CaptureInv, AnswersTrail, NoSync
<1>4. ASSUME NEW s \in Syncs, syncs'[s].step = "upserting", NEW at \in Places
      PROVE  /\ syncs'[s].found[at].status = "absent" => syncs'[s].found[at].seen = 0
             /\ at[1] \in overwritten' \/ Ahead(captured'[at], syncs'[s].found[at])
  <2>1. syncs'[s] = syncs[s]
    BY <1>4 DEF NoSync
  <2>2. syncs[s].found[at] \in CapturedRow
    BY <1>1, <1>4, <2>1 DEF CaptureTypeOK, Sync, NoSync
  <2>3. captured[at] \in CapturedRow /\ captured'[at] \in CapturedRow
    BY <1>1 DEF CaptureTypeOK
  <2>4. /\ syncs[s].found[at].status = "absent" => syncs[s].found[at].seen = 0
        /\ at[1] \in overwritten \/ Ahead(captured[at], syncs[s].found[at])
    BY <1>4, <2>1 DEF CaptureInv, FoundTrails
  <2> QED BY <2>1, <2>2, <2>3, <2>4 DEF Ahead, Closed, CapturedRow, CaptureAssumption
<1>5. ASSUME NEW c \in Occasions
      PROVE  \/ cursor[c] = 0 \/ cursor[c] \in agenda[c].dropped \/ c \in overwritten'
             \/ \E at \in {c} \X Makers :
                  captured'[at].seen >= cursor[c] \/ Closed(captured'[at])
  <2>1. CASE cursor[c] = 0 \/ cursor[c] \in agenda[c].dropped \/ c \in overwritten
    BY <2>1
  <2>2. ASSUME NEW at \in {c} \X Makers, captured[at].seen >= cursor[c] \/ Closed(captured[at])
        PROVE  c \in overwritten' \/ captured'[at].seen >= cursor[c] \/ Closed(captured'[at])
    <3>1. at \in Places /\ at[1] = c
      BY DEF Places
    <3>2. captured[at] \in CapturedRow /\ captured'[at] \in CapturedRow /\ cursor[c] \in Nat
      BY <1>1, <3>1 DEF CaptureTypeOK, CaptureAssumption
    <3>3. c \in overwritten' \/ Ahead(captured'[at], captured[at])
      BY <3>1
    <3> QED BY <2>2, <3>2, <3>3 DEF Ahead, Closed, CapturedRow, CaptureAssumption
  <2> QED BY <2>1, <2>2 DEF CaptureInv, TokenCoversMeetings, Closed
<1>6. TokenCoversMeetings'
  BY <1>5 DEF TokenCoversMeetings, Closed
<1>7. FoundTrails'
  BY <1>4 DEF FoundTrails
<1> QED BY <1>2, <1>3, <1>6, <1>7 DEF CaptureInv

(* Steps that leave the rows and their readers alone as well.               *)
LEMMA RowsRest ==
  ASSUME CaptureAssumption, CaptureInv, CaptureTypeOK',
         UNCHANGED <<agenda, cursor, captured, edits, overwritten>>,
         \A s \in Syncs : syncs'[s] \in {syncs[s], NoSync}
  PROVE  CaptureInv'
<1>1. \A at \in Places : captured[at] \in CapturedRow
  BY DEF CaptureInv, CaptureTypeOK
<1>2. \A at \in Places : Ahead(captured[at], captured[at])
  BY <1>1 DEF Ahead, CapturedRow, CaptureAssumption
<1> QED BY <1>2, RowsForward DEF CaptureInv, AbsentIsUnseen

----------------------------------------------------------------------------
LEMMA RescheduleKeeps ==
  ASSUME CaptureAssumption, CaptureInv, NEW c \in Occasions, Reschedule(c),
         CaptureTypeOK'
  PROVE  CaptureInv'
<1>1. PICK cancelled \in BOOLEAN :
        agenda' = [agenda EXCEPT ![c] =
          [version |-> @.version + 1,
           dropped |-> @.dropped \cup (IF cancelled THEN {@.version + 1} ELSE {})]]
  BY DEF Reschedule
<1>2. CaptureTypeOK
  BY DEF CaptureInv
<1>3. \A o \in Occasions : agenda[o] \in AgendaItem
  BY <1>2 DEF CaptureTypeOK
<1>7. ASSUME NEW o \in Occasions
      PROVE  /\ agenda[o].version <= agenda'[o].version
             /\ agenda[o].dropped \subseteq agenda'[o].dropped
  BY <1>1, <1>2, <1>3, <1>7 DEF CaptureTypeOK, AgendaItem, CaptureAssumption
<1>8. \A o \in Occasions : /\ cursor[o] \in Nat
                           /\ agenda[o].version \in Nat /\ agenda'[o].version \in Nat
  BY <1>2, <1>3 DEF CaptureTypeOK, AgendaItem, CaptureAssumption
<1>9. ASSUME NEW s \in Syncs, syncs[s] # NoSync, NEW o \in Occasions
      PROVE  syncs[s].answer[o].version \in Nat
  BY <1>2, <1>9 DEF CaptureTypeOK, Sync, AgendaItem, CaptureAssumption
<1>10. AnswersTrail'
  BY <1>7, <1>8, <1>9 DEF CaptureInv, AnswersTrail, Reschedule
<1>11. AbsentIsUnseen' /\ FoundTrails'
  BY DEF CaptureInv, AbsentIsUnseen, FoundTrails, Reschedule, people
<1>12. TokenCoversMeetings'
  BY <1>7 DEF CaptureInv, TokenCoversMeetings, Reschedule, people
<1> QED BY <1>10, <1>11, <1>12 DEF CaptureInv

LEMMA AskKeeps ==
  ASSUME CaptureAssumption, CaptureInv, NEW s \in Syncs, AskCalendar(s),
         CaptureTypeOK'
  PROVE  CaptureInv'
<1> DEFINE asked == [step |-> "asked", full |-> expired, since |-> cursor, answer |-> agenda,
                     found |-> [at \in Places |-> Nowhere]]
<1>1. CaptureTypeOK
  BY DEF CaptureInv
<1>2. syncs' = [syncs EXCEPT ![s] = asked]
  BY DEF AskCalendar
<1>6. ASSUME NEW t \in Syncs, t # s
      PROVE  syncs'[t] = syncs[t]
  BY <1>1, <1>2, <1>6 DEF CaptureTypeOK
<1>7. syncs'[s] = asked
  BY <1>1, <1>2 DEF CaptureTypeOK
<1>8. \A o \in Occasions : agenda[o].version \in Nat
  BY <1>1 DEF CaptureTypeOK, AgendaItem, CaptureAssumption
<1>9. AnswersTrail'
  BY <1>6, <1>7, <1>8 DEF CaptureInv, AnswersTrail, AskCalendar
<1>10. FoundTrails'
  BY <1>6, <1>7 DEF CaptureInv, FoundTrails, AskCalendar, people
<1>11. AbsentIsUnseen' /\ TokenCoversMeetings'
  BY DEF CaptureInv, AbsentIsUnseen, TokenCoversMeetings, AskCalendar, people
<1> QED BY <1>9, <1>10, <1>11 DEF CaptureInv

LEMMA ReadMeetingsKeeps ==
  ASSUME CaptureAssumption, CaptureInv, NEW s \in Syncs, ReadMeetings(s),
         CaptureTypeOK'
  PROVE  CaptureInv'
<1> DEFINE read == [syncs[s] EXCEPT !.step = "upserting", !.found = captured]
<1>1. CaptureTypeOK
  BY DEF CaptureInv
<1>2. syncs[s] \in Sync
  BY <1>1 DEF CaptureTypeOK, ReadMeetings, NoSync
<1>3. syncs' = [syncs EXCEPT ![s] = read]
  BY <1>1, <1>2 DEF CaptureTypeOK, ReadMeetings, Sync
<1>6. ASSUME NEW t \in Syncs, t # s
      PROVE  syncs'[t] = syncs[t]
  BY <1>1, <1>3, <1>6 DEF CaptureTypeOK
<1>7. /\ syncs'[s].found = captured /\ syncs'[s].since = syncs[s].since
      /\ syncs'[s].answer = syncs[s].answer
  BY <1>1, <1>2, <1>3 DEF CaptureTypeOK, Sync
<1>8. syncs[s] # NoSync
  BY DEF ReadMeetings, NoSync
<1>9. AnswersTrail'
  BY <1>6, <1>7, <1>8 DEF CaptureInv, AnswersTrail, ReadMeetings
<1>10. \A at \in Places : captured[at] \in CapturedRow
  BY <1>1 DEF CaptureTypeOK
<1>11. \A at \in Places : Ahead(captured[at], captured[at])
  BY <1>10 DEF Ahead, CapturedRow, CaptureAssumption
<1>12. ASSUME NEW t \in Syncs, syncs'[t].step = "upserting", NEW at \in Places
       PROVE  /\ syncs'[t].found[at].status = "absent" => syncs'[t].found[at].seen = 0
              /\ at[1] \in overwritten' \/ Ahead(captured'[at], syncs'[t].found[at])
  <2>1. CASE t = s
    BY <1>7, <1>11, <2>1 DEF CaptureInv, AbsentIsUnseen, ReadMeetings, people
  <2>2. CASE t # s
    BY <1>6, <1>12, <2>2 DEF CaptureInv, FoundTrails, ReadMeetings, people
  <2> QED BY <2>1, <2>2
<1>13. FoundTrails'
  BY <1>12 DEF FoundTrails
<1>14. AbsentIsUnseen' /\ TokenCoversMeetings'
  BY DEF CaptureInv, AbsentIsUnseen, TokenCoversMeetings, ReadMeetings, people
<1> QED BY <1>9, <1>13, <1>14 DEF CaptureInv

----------------------------------------------------------------------------
(* An event that is told of leaves a row at its version, or a closed one,   *)
(* unless it stands cancelled.                                              *)
LEMMA ToldIsCovered ==
  ASSUME CaptureAssumption, CaptureInv, NEW s \in Syncs, CommitSync(s), NEW c \in Occasions,
         Told(s, c), ~Cancelled(syncs[s].answer[c]), c \notin overwritten
  PROVE  \E at \in {c} \X Makers :
           captured'[at].seen >= syncs[s].answer[c].version \/ Closed(captured'[at])
<1> DEFINE item == syncs[s].answer[c]
           found == syncs[s].found
<1>1. CaptureTypeOK /\ syncs[s].step = "upserting"
  BY DEF CaptureInv, CommitSync
<1>2. \A at \in {c} \X Makers : at \in Places /\ at[1] = c
  BY DEF Places
<1>3. \A at \in {c} \X Makers : found[at] \in CapturedRow /\ captured[at] \in CapturedRow
  BY <1>1, <1>2, UpsertedTyped DEF CaptureTypeOK
<1>4. item \in AgendaItem /\ item.version \in Nat
  BY <1>1 DEF CaptureTypeOK, Sync, NoSync, AgendaItem, CaptureAssumption
<1>5. \A at \in {c} \X Makers :
        captured'[at] = IF Upserted(c, syncs[s], at) # found[at]
                        THEN Upserted(c, syncs[s], at) ELSE captured[at]
  BY <1>2 DEF CommitSync, Changed
<1>6. \A at \in {c} \X Makers :
        /\ found[at].status = "absent" => found[at].seen = 0
        /\ Ahead(captured[at], found[at])
  BY <1>1, <1>2 DEF CaptureInv, FoundTrails
<1>7. CASE Existing(c, found) = {}
  <2> DEFINE at == <<c, "calendar">>
  <2>1. at \in {c} \X Makers
    BY DEF Makers
  <2>2. \A o \in {c} \X Makers : found[o].status = "absent"
    <3>1. \A o \in {c} \X Makers : found[o].seen \in Nat
      BY <1>3 DEF CapturedRow, CaptureAssumption
    <3>2. ASSUME NEW o \in {c} \X Makers, found[o].status # "absent"
          PROVE  found[o].seen = 0
      <4>1. o \notin Existing(c, found)
        BY <1>7
      <4> QED BY <3>1, <3>2, <4>1 DEF Existing
    <3>3. \A o \in {c} \X Makers : found[o].seen = 0
      BY <1>6, <3>2
    <3> QED BY <1>7, <3>3 DEF Existing
  <2>3. Upserted(c, syncs[s], at) = [Nowhere EXCEPT !.status = "SCHEDULED", !.seen = item.version]
    BY <1>7 DEF Upserted
  <2>4. Upserted(c, syncs[s], at).status = "SCHEDULED" /\ Upserted(c, syncs[s], at).seen = item.version
    BY <2>3 DEF Nowhere
  <2>5. captured'[at].seen = item.version
    BY <1>5, <2>1, <2>2, <2>4
  <2> QED BY <1>4, <2>1, <2>5
<1>8. ASSUME NEW at \in Existing(c, found)
      PROVE  captured'[at].seen >= item.version \/ Closed(captured'[at])
  <2>1. at \in {c} \X Makers /\ found[at].status # "absent"
    BY DEF Existing
  <2>2. CASE found[at].status \in {"SCHEDULED", "IN_PROGRESS"}
    <3>1. Upserted(c, syncs[s], at) = [found[at] EXCEPT !.seen = item.version]
      BY <1>8, <2>2 DEF Upserted
    <3>2. Upserted(c, syncs[s], at).seen = item.version
      BY <1>3, <2>1, <3>1 DEF CapturedRow
    <3>3. CASE Upserted(c, syncs[s], at) # found[at]
      <4>1. captured'[at].seen = item.version
        BY <1>5, <2>1, <3>2, <3>3
      <4> QED BY <1>4, <4>1
    <3>4. CASE Upserted(c, syncs[s], at) = found[at]
      BY <1>5, <1>6, <2>1, <3>2, <3>4 DEF Ahead
    <3> QED BY <3>3, <3>4
  <2>3. CASE Closed(found[at])
    <3>1. Upserted(c, syncs[s], at) = found[at]
      BY <1>8, <2>3 DEF Upserted, Closed
    <3> QED BY <1>5, <1>6, <2>1, <2>3, <3>1 DEF Ahead
  <2> QED BY <1>3, <2>1, <2>2, <2>3 DEF CapturedRow, Closed
<1>9. \A at \in Existing(c, found) : at \in {c} \X Makers
  BY DEF Existing
<1> QED BY <1>7, <1>8, <1>9

LEMMA CommitSyncKeeps ==
  ASSUME CaptureAssumption, OneSync, CaptureInv, NEW s \in Syncs, CommitSync(s),
         CaptureTypeOK'
  PROVE  CaptureInv'
<1>1. CaptureTypeOK /\ syncs[s].step = "upserting" /\ syncs[s] # NoSync
  BY DEF CaptureInv, CommitSync, NoSync
<1>3. \A t \in Syncs : syncs'[t] = NoSync
  BY <1>1 DEF OneSync, CommitSync, CaptureTypeOK
<1>4. FoundTrails'
  BY <1>3 DEF FoundTrails, NoSync
<1>5. \A c \in Occasions : cursor'[c] = syncs[s].answer[c].version
  BY DEF CommitSync
<1>6. AnswersTrail'
  BY <1>1, <1>3, <1>5 DEF CaptureInv, AnswersTrail, CommitSync
<1>7. ASSUME NEW at \in Places, captured'[at].status = "absent"
      PROVE  captured'[at].seen = 0
  <2>1. CASE at \notin Changed(s)
    BY <1>7, <2>1 DEF CaptureInv, AbsentIsUnseen, CommitSync
  <2>2. CASE at \in Changed(s)
    <3> DEFINE item == syncs[s].answer[at[1]]
               row == syncs[s].found[at]
    <3>1. captured'[at] = Upserted(at[1], syncs[s], at)
      BY <2>2 DEF CommitSync
    <3>2. row \in CapturedRow
      BY <1>1, UpsertedTyped
    <3>3. row.status = "absent" => row.seen = 0
      BY <1>1 DEF CaptureInv, FoundTrails
    <3>4. captured'[at] # row
      BY <2>2, <3>1 DEF Changed
    <3>5. \/ captured'[at] = [Nowhere EXCEPT !.status = "SCHEDULED", !.seen = item.version]
          \/ captured'[at] = [row EXCEPT !.status = "CANCELLED"]
          \/ /\ row.status \in {"SCHEDULED", "IN_PROGRESS"}
             /\ captured'[at] = [row EXCEPT !.seen = item.version]
      BY <3>1, <3>4 DEF Upserted
    <3> QED BY <1>7, <3>2, <3>5 DEF Nowhere, CapturedRow
  <2> QED BY <2>1, <2>2
<1>8. AbsentIsUnseen'
  BY <1>7 DEF CaptureInv, AbsentIsUnseen, CommitSync, people
<1>9. ASSUME NEW c \in Occasions, c \notin overwritten, cursor'[c] # 0,
             cursor'[c] \notin agenda[c].dropped
      PROVE  \E at \in {c} \X Makers :
               captured'[at].seen >= cursor'[c] \/ Closed(captured'[at])
  <2>1. syncs[s].answer[c].dropped \subseteq agenda[c].dropped
    BY <1>1 DEF CaptureInv, AnswersTrail
  <2>2. ~Cancelled(syncs[s].answer[c])
    BY <1>5, <1>9, <2>1 DEF Cancelled
  <2>3. CASE Told(s, c)
    BY <1>5, <1>9, <2>2, <2>3, ToldIsCovered
  <2>4. CASE ~Told(s, c)
    <3>1. syncs[s].answer[c].version \in Nat /\ cursor[c] \in Nat
      BY <1>1 DEF CaptureTypeOK, Sync, AgendaItem, CaptureAssumption
    <3>2. /\ cursor[c] <= syncs[s].answer[c].version
          /\ syncs[s].since = cursor
      BY <1>1 DEF CaptureInv, AnswersTrail
    <3>3. cursor'[c] = cursor[c]
      BY <1>5, <1>9, <2>4, <3>1, <3>2 DEF Told
    <3>4. \A at \in {c} \X Makers : at \in Places /\ at[1] = c
      BY DEF Places
    <3>5. \A at \in {c} \X Makers : captured'[at] = captured[at]
      BY <2>4, <3>4 DEF Changed, CommitSync
    <3> QED BY <1>9, <3>3, <3>5 DEF CaptureInv, TokenCoversMeetings, Closed
  <2> QED BY <2>3, <2>4
<1>10. TokenCoversMeetings'
  BY <1>9 DEF TokenCoversMeetings, Closed, CommitSync, people
<1> QED BY <1>4, <1>6, <1>8, <1>10 DEF CaptureInv

LEMMA AbortSyncKeeps ==
  ASSUME CaptureAssumption, CaptureInv, NEW s \in Syncs, AbortSync(s),
         CaptureTypeOK'
  PROVE  CaptureInv'
<1>2. \A t \in Syncs : syncs'[t] \in {syncs[t], NoSync}
  BY DEF CaptureInv, CaptureTypeOK, AbortSync
<1> QED BY <1>2, RowsRest DEF AbortSync, people

LEMMA LoseTokenKeeps ==
  ASSUME CaptureAssumption, CaptureInv, LoseToken,
         CaptureTypeOK'
  PROVE  CaptureInv'
BY RowsRest DEF LoseToken, people

----------------------------------------------------------------------------
(* Others write a row.                                                      *)
(* A step that writes one row as it stands in the table.                    *)
LEMMA RowWritten ==
  ASSUME CaptureAssumption, CaptureInv, CaptureTypeOK',
         UNCHANGED <<agenda, cursor, syncs, edits, overwritten>>,
         NEW at \in Places, NEW row \in CapturedRow,
         captured' = [captured EXCEPT ![at] = row],
         Ahead(row, captured[at]), row.status # "absent"
  PROVE  CaptureInv'
<1>1. \A o \in Places : captured[o] \in CapturedRow
  BY DEF CaptureInv, CaptureTypeOK
<1>2. \A o \in Places : Ahead(captured[o], captured[o])
  BY <1>1 DEF Ahead, CapturedRow, CaptureAssumption
<1>3. \A o \in Places : captured'[o] = IF o = at THEN row ELSE captured[o]
  BY DEF CaptureInv, CaptureTypeOK
<1>4. \A o \in Places : /\ Ahead(captured'[o], captured[o])
                        /\ captured'[o].status = "absent" => captured'[o].seen = 0
  BY <1>2, <1>3 DEF CaptureInv, AbsentIsUnseen
<1> QED BY <1>4, RowsForward DEF CaptureInv, AbsentIsUnseen

LEMMA NoticeKeeps ==
  ASSUME CaptureAssumption, CaptureInv, NEW c \in Occasions, NoticeOfEnd(c),
         CaptureTypeOK'
  PROVE  CaptureInv'
<1>1. CaptureTypeOK
  BY DEF CaptureInv
<1>2. PICK at \in Places : /\ captured' = [captured EXCEPT ![at] = Ended(@)]
                           /\ taken' = taken \cup {at}
  BY DEF NoticeOfEnd, Linked, Places, Makers
<1>3. captured[at] \in CapturedRow
  BY <1>1 DEF CaptureTypeOK
<1>4. Ended(captured[at]) \in CapturedRow /\ Closed(Ended(captured[at]))
      /\ Ended(captured[at]).status # "absent"
  BY <1>3, EndedMoves
<1>5. captured' = [captured EXCEPT ![at] = Ended(captured[at])]
  BY <1>2
<1> QED BY <1>4, <1>5, RowWritten DEF NoticeOfEnd, Ahead, calendarVars, people

LEMMA FinishKeeps ==
  ASSUME CaptureAssumption, CaptureInv, NEW at \in Places, Finish(at),
         CaptureTypeOK'
  PROVE  CaptureInv'
<1> DEFINE row == [captured[at] EXCEPT !.processing = "COMPLETED"]
<1>1. CaptureTypeOK
  BY DEF CaptureInv
<1>2. captured[at] \in CapturedRow
  BY <1>1 DEF CaptureTypeOK
<1>3. row \in CapturedRow /\ row.status = captured[at].status /\ row.seen = captured[at].seen
  BY <1>2 DEF CapturedRow
<1>4. captured' = [captured EXCEPT ![at] = row]
  BY <1>1, <1>2 DEF Finish, CaptureTypeOK, CapturedRow
<1>6. CASE captured[at].status = "absent"
  <2>1. captured[at].seen = 0
    BY <1>6 DEF CaptureInv, AbsentIsUnseen
  <2>2. \A o \in Places : captured[o] \in CapturedRow
    BY <1>1 DEF CaptureTypeOK
  <2>3. \A o \in Places : captured'[o] = IF o = at THEN row ELSE captured[o]
    BY <1>1, <1>4 DEF CaptureTypeOK
  <2>4. \A o \in Places : /\ captured'[o].status = captured[o].status
                          /\ captured'[o].seen = captured[o].seen
    BY <1>3, <2>3
  <2>5. \A o \in Places : /\ Ahead(captured'[o], captured[o])
                          /\ captured'[o].status = "absent" => captured'[o].seen = 0
    BY <2>2, <2>4 DEF Ahead, Closed, CapturedRow, CaptureAssumption, CaptureInv, AbsentIsUnseen
  <2> QED BY <2>5, RowsForward
          DEF Finish, CaptureInv, AbsentIsUnseen, calendarVars, people
<1>7. CASE captured[at].status # "absent"
  <2>1. Ahead(row, captured[at])
    BY <1>2, <1>3 DEF Ahead, Closed, CapturedRow, CaptureAssumption
  <2> QED BY <1>3, <1>4, <1>7, <2>1, RowWritten DEF Finish, calendarVars, people
<1> QED BY <1>6, <1>7

----------------------------------------------------------------------------
LEMMA BeginSweepKeeps ==
  ASSUME CaptureAssumption, CaptureInv, NEW w \in Sweeps, NEW at \in Places, BeginSweep(w, at),
         CaptureTypeOK'
  PROVE  CaptureInv'
BY RowsRest DEF BeginSweep, calendarVars, people

LEMMA SweepLinkedKeeps ==
  ASSUME CaptureAssumption, CaptureInv, NEW w \in Sweeps, SweepLinked(w),
         CaptureTypeOK'
  PROVE  CaptureInv'
BY RowsRest DEF SweepLinked, calendarVars, people

LEMMA SweepSendsKeeps ==
  ASSUME CaptureAssumption, CaptureInv, NEW w \in Sweeps, SweepSends(w),
         CaptureTypeOK'
  PROVE  CaptureInv'
BY RowsRest DEF SweepSends, calendarVars, people

LEMMA SweepFailsKeeps ==
  ASSUME CaptureAssumption, CaptureInv, NEW w \in Sweeps, SweepFails(w),
         CaptureTypeOK'
  PROVE  CaptureInv'
BY RowsRest DEF SweepFails, calendarVars, people

LEMMA SweepFindsKeeps ==
  ASSUME CaptureAssumption, CaptureInv, NEW w \in Sweeps, SweepFinds(w),
         CaptureTypeOK'
  PROVE  CaptureInv'
<1> DEFINE at == sweeps[w].at
<1>1. CaptureTypeOK
  BY DEF CaptureInv
<1>2. sweeps[w] \in Sweep /\ at \in Places /\ captured[at] \in CapturedRow
  BY <1>1, SweepTyped DEF SweepFinds, NoSweep
<1>3. CASE Linked(at[1]) \subseteq {at}
  <2>1. captured' = [captured EXCEPT ![at] = Ended(captured[at])]
    BY <1>3 DEF SweepFinds
  <2>4. Ended(captured[at]) \in CapturedRow /\ Closed(Ended(captured[at]))
        /\ Ended(captured[at]).status # "absent"
    BY <1>2, EndedMoves
  <2> QED BY <1>2, <2>1, <2>4, RowWritten DEF SweepFinds, Ahead, calendarVars, people
<1>4. CASE ~(Linked(at[1]) \subseteq {at})
  BY <1>4, RowsRest DEF SweepFinds, calendarVars, people
<1> QED BY <1>3, <1>4

LEMMA SweepMissesKeeps ==
  ASSUME CaptureAssumption, CaptureInv, NEW w \in Sweeps, SweepMisses(w),
         CaptureTypeOK'
  PROVE  CaptureInv'
<1> DEFINE at == sweeps[w].at
           waits == [captured[at] EXCEPT !.processing = "WAITING_FOR_ARTIFACTS"]
           ends(verdict) == [captured[at] EXCEPT !.processing = verdict, !.status = "ENDED"]
<1>1. CaptureTypeOK
  BY DEF CaptureInv
<1>2. sweeps[w] \in Sweep /\ at \in Places /\ captured[at] \in CapturedRow
  BY <1>1, SweepTyped DEF SweepMisses, NoSweep
<1>4. /\ waits \in CapturedRow /\ waits.status = captured[at].status
      /\ waits.seen = captured[at].seen
  BY <1>2 DEF CapturedRow
<1>5. \A verdict \in {"COMPLETED", "FAILED"} :
        ends(verdict) \in CapturedRow /\ ends(verdict).status = "ENDED"
  BY <1>2 DEF CapturedRow
<1>6. PICK row \in CapturedRow :
        /\ captured' = [captured EXCEPT ![at] = row]
        /\ row = captured[at] \/ row = waits \/ (\E verdict \in {"COMPLETED", "FAILED"} :
                                                   row = ends(verdict))
  <2>1. captured = [captured EXCEPT ![at] = captured[at]]
    BY <1>1 DEF CaptureTypeOK
  <2>2. \/ captured' = captured
        \/ captured' = [captured EXCEPT ![at] = waits]
        \/ captured' = [captured EXCEPT ![at] = ends("COMPLETED")]
        \/ captured' = [captured EXCEPT ![at] = ends("FAILED")]
    <3> DEFINE open == captured[at].processing \in {"DISCOVERED", "WAITING_FOR_ARTIFACTS"}
    <3>1. CASE ~open
      BY <3>1 DEF SweepMisses
    <3>2. CASE open /\ at[1] \notin hosted
      BY <3>2 DEF SweepMisses
    <3>3. CASE open /\ at[1] \in hosted /\ phase[at[1]] = "over"
      BY <3>3 DEF SweepMisses
    <3>4. CASE open /\ at[1] \in hosted /\ phase[at[1]] # "over"
      BY <3>4 DEF SweepMisses
    <3> QED BY <3>1, <3>2, <3>3, <3>4
  <2> QED BY <1>2, <1>4, <1>5, <2>1, <2>2
<1>8. \A o \in Places : captured[o] \in CapturedRow
  BY <1>1 DEF CaptureTypeOK
<1>9. \A o \in Places : captured'[o] = IF o = at THEN row ELSE captured[o]
  BY <1>1, <1>6 DEF CaptureTypeOK
<1>10. \/ row.status = "ENDED"
       \/ row.status = captured[at].status /\ row.seen = captured[at].seen
  BY <1>4, <1>5, <1>6
<1>11. ASSUME NEW o \in Places
       PROVE  /\ Ahead(captured'[o], captured[o])
              /\ captured'[o].status = "absent" => captured'[o].seen = 0
  BY <1>8, <1>9, <1>10 DEF Ahead, Closed, CapturedRow, CaptureAssumption, CaptureInv,
                           AbsentIsUnseen
<1> QED BY <1>11, RowsForward
        DEF SweepMisses, CaptureInv, AbsentIsUnseen, calendarVars, people

----------------------------------------------------------------------------
LEMMA BeginEditKeeps ==
  ASSUME CaptureAssumption, CaptureInv, NEW x \in Editors, NEW at \in Places, BeginEdit(x, at),
         CaptureTypeOK'
  PROVE  CaptureInv'
<1>1. CaptureTypeOK
  BY DEF CaptureInv
<1>4. \A o \in Places : captured[o] \in CapturedRow
  BY <1>1 DEF CaptureTypeOK
<1>5. \A o \in Places : Ahead(captured[o], captured[o])
  BY <1>4 DEF Ahead, CapturedRow, CaptureAssumption
<1>6. \A y \in Editors : edits'[y] # NoEdit => edits'[y].read.status # "absent"
  BY <1>1 DEF CaptureInv, AbsentIsUnseen, BeginEdit, CaptureTypeOK
<1> QED BY <1>5, <1>6, RowsForward DEF BeginEdit, CaptureInv, AbsentIsUnseen, calendarVars

LEMMA EndEditKeeps ==
  ASSUME CaptureAssumption, CaptureInv, NEW x \in Editors, EndEdit(x),
         CaptureTypeOK'
  PROVE  CaptureInv'
<1> DEFINE at == edits[x].at
           read == edits[x].read
<1>1. CaptureTypeOK
  BY DEF CaptureInv
<1>4. read.status # "absent"
  BY DEF CaptureInv, AbsentIsUnseen, EndEdit
<1>5. \A o \in Places : captured[o] \in CapturedRow
  BY <1>1 DEF CaptureTypeOK
<1>6. \A o \in Places : Ahead(captured[o], captured[o])
  BY <1>5 DEF Ahead, CapturedRow, CaptureAssumption
<1>7. \A o \in Places : captured'[o] = IF o = at THEN read ELSE captured[o]
  BY <1>1 DEF EndEdit, CaptureTypeOK
<1>8. at[1] \in overwritten' \/ captured[at] = read
  BY DEF EndEdit
<1>9. \A o \in Places : /\ o[1] \in overwritten' \/ Ahead(captured'[o], captured[o])
                        /\ captured'[o].status = "absent" => captured'[o].seen = 0
  BY <1>4, <1>6, <1>7, <1>8 DEF CaptureInv, AbsentIsUnseen
<1>10. \A y \in Editors : edits'[y] # NoEdit => edits'[y].read.status # "absent"
  BY <1>1 DEF CaptureInv, AbsentIsUnseen, EndEdit, CaptureTypeOK
<1>11. overwritten \subseteq overwritten'
  BY DEF EndEdit
<1> QED BY <1>9, <1>10, <1>11, RowsForward DEF EndEdit, calendarVars

LEMMA EditRefusedKeeps ==
  ASSUME CaptureAssumption, CaptureInv, NEW x \in Editors, EditRefused(x),
         CaptureTypeOK'
  PROVE  CaptureInv'
<1>1. CaptureTypeOK
  BY DEF CaptureInv
<1>3. \A o \in Places : captured[o] \in CapturedRow
  BY <1>1 DEF CaptureTypeOK
<1>4. \A o \in Places : Ahead(captured[o], captured[o])
  BY <1>3 DEF Ahead, CapturedRow, CaptureAssumption
<1>5. \A y \in Editors : edits'[y] # NoEdit => edits'[y].read.status # "absent"
  BY <1>1 DEF CaptureInv, AbsentIsUnseen, EditRefused, CaptureTypeOK
<1> QED BY <1>4, <1>5, RowsForward
        DEF EditRefused, CaptureInv, AbsentIsUnseen, calendarVars

LEMMA PassKeeps ==
  ASSUME CaptureAssumption, CaptureInv, NEW c \in Occasions, Pass(c),
         CaptureTypeOK'
  PROVE  CaptureInv'
BY RowsRest DEF Pass, calendarVars, people

LEMMA CaptureStutters ==
  ASSUME CaptureInv, UNCHANGED captureVars
  PROVE  CaptureInv'
BY DEF CaptureInv, captureVars, CaptureTypeOK, AbsentIsUnseen, AnswersTrail, FoundTrails,
       TokenCoversMeetings

LEMMA CaptureStep ==
  ASSUME CaptureAssumption, OneSync, CaptureInv, [CaptureNext]_captureVars
  PROVE  CaptureInv'
<1>0. CaptureTypeOK'
  BY CaptureTyped DEF CaptureInv
<1>1. CASE UNCHANGED captureVars
  BY <1>1, CaptureStutters
<1>2. ASSUME NEW s \in Syncs, AskCalendar(s) \/ SyncStep(s) \/ AbortSync(s)
      PROVE  CaptureInv'
  BY <1>0, <1>2, AskKeeps, ReadMeetingsKeeps, CommitSyncKeeps, AbortSyncKeeps DEF SyncStep
<1>3. ASSUME NEW w \in Sweeps,
             SweepStep(w) \/ SweepFails(w) \/ (\E at \in Places : BeginSweep(w, at))
      PROVE  CaptureInv'
  BY <1>0, <1>3, SweepLinkedKeeps, SweepFindsKeeps, SweepSendsKeeps, SweepMissesKeeps,
     SweepFailsKeeps, BeginSweepKeeps DEF SweepStep
<1>4. ASSUME NEW x \in Editors, EditStep(x) \/ (\E at \in Places : BeginEdit(x, at))
      PROVE  CaptureInv'
  BY <1>0, <1>4, EndEditKeeps, EditRefusedKeeps, BeginEditKeeps DEF EditStep
<1>5. ASSUME NEW c \in Occasions, Reschedule(c) \/ NoticeOfEnd(c) \/ Pass(c)
      PROVE  CaptureInv'
  BY <1>0, <1>5, RescheduleKeeps, NoticeKeeps, PassKeeps
<1>6. ASSUME NEW at \in Places, Finish(at)
      PROVE  CaptureInv'
  BY <1>0, <1>6, FinishKeeps
<1>7. CASE LoseToken
  BY <1>0, <1>7, LoseTokenKeeps
<1> QED BY <1>1, <1>2, <1>3, <1>4, <1>5, <1>6, <1>7 DEF CaptureNext

(* The tables of the capture keep their types, however many syncs overlap.  *)
THEOREM CaptureTypesHold == CaptureSpec => []CaptureTypeOK
<1>1. CaptureInit => CaptureTypeOK
  BY CaptureAssumption, CaptureTypedAtFirst
<1>2. CaptureTypeOK /\ [CaptureNext]_captureVars => CaptureTypeOK'
  BY CaptureAssumption, CaptureTyped
<1> QED BY <1>1, <1>2, PTL DEF CaptureSpec

(* The stored token never runs ahead of the stored meetings, for any number *)
(* of occasions, versions, sweeps, editors and slips, with syncs one by one.*)
THEOREM TokensCoverMeetings ==
  ASSUME OneSync
  PROVE  CaptureSpec => []TokenCoversMeetings
<1>1. CaptureInit => CaptureInv
  BY CaptureAssumption, CaptureStarts
<1>2. CaptureInv /\ [CaptureNext]_captureVars => CaptureInv'
  BY CaptureAssumption, CaptureStep
<1>3. CaptureInv => TokenCoversMeetings
  BY DEF CaptureInv
<1> QED BY <1>1, <1>2, <1>3, PTL DEF CaptureSpec

----------------------------------------------------------------------------
(* The schedule of the digest.                                              *)
LEMMA ScheduleTypedAtFirst ==
  ASSUME ScheduleAssumption, ScheduleInit
  PROVE  ScheduleTypeOK
<1>1. requests \in [Admins -> [step: {"saved"}] \cup [step: {"read"}, time: Times] \cup {NoRequest}]
  BY DEF ScheduleInit
<1>2. hitches \in 0..MaxHitches
  BY DEF ScheduleInit, ScheduleAssumption
<1>3. dropped \in BOOLEAN /\ digestFlag \in BOOLEAN
  BY DEF ScheduleInit
<1> QED BY <1>1, <1>2, <1>3 DEF ScheduleInit, ScheduleTypeOK

LEMMA ScheduleTyped ==
  ASSUME ScheduleAssumption, ScheduleTypeOK, [ScheduleNext]_scheduleVars
  PROVE  ScheduleTypeOK'
<1>1. ASSUME NEW a \in Admins, SaveConfig(a) \/ Respond(a) \/ DropRequest(a)
      PROVE  ScheduleTypeOK'
  <2>1. config \in Schedule /\ (config.enabled => config.time \in Times)
    BY DEF ScheduleTypeOK, Schedule
  <2>2. CASE SaveConfig(a)
    BY <2>2 DEF SaveConfig, ScheduleTypeOK
  <2>3. CASE ReadConfig(a)
    BY <2>1, <2>3 DEF ReadConfig, ScheduleTypeOK
  <2>4. CASE Register(a)
    <3>1. requests[a] \in [step: {"read"}, time: Times]
      BY <2>4 DEF Register, ScheduleTypeOK, NoRequest
    <3> QED BY <2>4, <3>1 DEF Register, ScheduleTypeOK
  <2>5. CASE DropRequest(a)
    BY <2>5 DEF DropRequest, ScheduleTypeOK
  <2> QED BY <1>1, <2>2, <2>3, <2>4, <2>5 DEF Respond
<1>2. CASE SetFlag \/ RestartWorker
  <2>1. digestFlag' \in BOOLEAN
    BY <1>2 DEF SetFlag, RestartWorker, ScheduleTypeOK
  <2>2. hitches' \in 0..MaxHitches
    BY <1>2 DEF SetFlag, RestartWorker, Hitch, ScheduleTypeOK, ScheduleAssumption
  <2> QED BY <1>2, <2>1, <2>2 DEF SetFlag, RestartWorker, ScheduleTypeOK
<1>3. CASE Look
  <2>1. [config EXCEPT !.enabled = @ /\ digestFlag] \in Schedule
    BY DEF ScheduleTypeOK, Schedule
  <2> QED BY <1>3, <2>1 DEF Look, ScheduleTypeOK
<1>4. CASE Act \/ ActFails
  <2>1. watcher.next \in Schedule /\ config.time \in Times
    BY <1>4 DEF Act, ActFails, ScheduleTypeOK, Asleep, Schedule
  <2>2. dropped' \in BOOLEAN
    BY <1>4 DEF Act, ActFails, ScheduleTypeOK
  <2>3. hitches' \in 0..MaxHitches
    BY <1>4 DEF Act, ActFails, Hitch, ScheduleTypeOK, ScheduleAssumption
  <2>4. cron' \in Times \cup {Never} /\ last' \in Schedule \cup {Never}
    BY <1>4, <2>1 DEF Act, ActFails, ScheduleTypeOK
  <2> QED BY <1>4, <2>2, <2>3, <2>4 DEF Act, ActFails, ScheduleTypeOK
<1>5. CASE UNCHANGED scheduleVars
  BY <1>5 DEF scheduleVars, ScheduleTypeOK
<1> QED BY <1>1, <1>2, <1>3, <1>4, <1>5 DEF ScheduleNext

(* The configuration, the cron entry, the watcher and the requests keep     *)
(* their types.                                                             *)
THEOREM ScheduleTypesHold == ScheduleSpec => []ScheduleTypeOK
<1>1. ScheduleInit => ScheduleTypeOK
  BY ScheduleAssumption, ScheduleTypedAtFirst
<1>2. ScheduleTypeOK /\ [ScheduleNext]_scheduleVars => ScheduleTypeOK'
  BY ScheduleAssumption, ScheduleTyped
<1> QED BY <1>1, <1>2, PTL DEF ScheduleSpec

----------------------------------------------------------------------------
(* Together: every behaviour of the background is one of each part, which   *)
(* rests while another is in focus.                                         *)
THEOREM BackgroundImplementsItsParts ==
  Spec => InboxSpec /\ SubscriptionSpec /\ CaptureSpec /\ ScheduleSpec
<1>1. Init => InboxInit /\ SubscriptionInit /\ CaptureInit /\ ScheduleInit
  BY DEF Init
<1>2. [Next]_AllVars => /\ [InboxNext]_inboxVars /\ [SubscriptionNext]_subscriptionVars
                        /\ [CaptureNext]_captureVars /\ [ScheduleNext]_scheduleVars
  BY DEF Next, AllVars, InboxMoves, SubscriptionsMove, CaptureMoves, ScheduleMoves
<1> QED BY <1>1, <1>2, PTL
        DEF Spec, InboxSpec, SubscriptionSpec, CaptureSpec, ScheduleSpec

(* Every part keeps its types.                                              *)
THEOREM BackgroundTypesHold == Spec => []BackgroundTypesOK
BY BackgroundImplementsItsParts, InboxTypesHold, SubscriptionTypesHold, CaptureTypesHold,
   ScheduleTypesHold, PTL DEF BackgroundTypesOK

(* What the three parts promise holds of the background as it is run.       *)
THEOREM BackgroundIsSafe ==
  ASSUME OneSync
  PROVE  Spec => [](ProcessedIsFetched /\ RowsDoNotOverstate /\ TokenCoversMeetings)
BY BackgroundImplementsItsParts, ProcessedIsAlwaysFetched, ActiveRowsAreCovered,
   TokensCoverMeetings, PTL
=============================================================================
