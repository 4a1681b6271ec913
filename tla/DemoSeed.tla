------------------------------- MODULE DemoSeed -------------------------------
(***************************************************************************)
(* The demonstration data (prisma/seed.ts): catalogs, 15 meetings, 47      *)
(* tasks with their histories, a proposal of closure, review items and an  *)
(* audit trail, each upserted by a stable id and committed on its own.     *)
(* The script is said to be idempotent; it may die anywhere and be run     *)
(* again, also over a database people work in, who meanwhile create and    *)
(* move tasks.                                                             *)
(*                                                                         *)
(* Texts are left out: of a meeting its outcome and the number of segments *)
(* of its transcript, of a task its status, its history and what it quotes.*)
(***************************************************************************)
EXTENDS ActionItemStateMachine, Integers, Sequences, FiniteSets

CONSTANTS
  Touchable,   \* tasks of the demonstration people work on
  MaxSeeds,    \* bounds the runs of the script
  MaxWorks     \* bounds what people do

ASSUME SeedAssumption == Touchable \subseteq 1..47 /\ MaxSeeds \in Nat /\ MaxWorks \in Nat

VARIABLES
  shown,       \* how many meetings are stored
  rows,        \* the tasks of the demonstration
  unanswered,  \* tasks with a pending completion proposal
  inReview,    \* the review items of the demonstration that are pending
  audited,     \* its audit trail is stored
  numbers,     \* sequence numbers in use by tasks people created
  nextNumber,  \* the serial of action_items.sequence
  seedAt,      \* step the run under way is at, 0 when there is none
  seeds, works,
  whole        \* the last run came to its end and nobody worked since (history)

seedVars == <<shown, rows, unanswered, inReview, audited, numbers, nextNumber, seedAt,
              seeds, works, whole>>

----------------------------------------------------------------------------
(* The meetings: outcome, transcript and length of the transcript.          *)
Told(key, outcome, lines) ==
  [key |-> key, outcome |-> outcome, transcript |-> "INGESTED", lines |-> lines]
Untold(key, outcome, transcript) ==
  [key |-> key, outcome |-> outcome, transcript |-> transcript, lines |-> 0]

ContractMeeting == <<Told("alfa", "REVIEW_REQUIRED", 26)>>

BoardMeetings == <<Told("comite", "COMPLETED", 8), Told("legal", "COMPLETED", 6)>>

SalesMeetings == <<Told("kickoffBeta", "COMPLETED", 7), Told("pipeline", "ANALYZED", 6)>>

FundMeetings == <<Told("cierre", "COMPLETED", 6), Told("gamma", "COMPLETED", 5)>>

ServiceMeetings == <<Told("nps", "ANALYZED", 6), Told("norte", "COMPLETED", 6)>>

UntoldMeetings ==
  <<Untold("externo", "COMPLETED", "UNAVAILABLE_EXTERNAL_HOST"),
    Untold("syncOps", "FAILED", "FAILED"),
    Untold("licencias", "WAITING_FOR_ARTIFACTS", "PENDING"),
    Untold("entrevista", "EXCLUDED", "AVAILABLE")>>

LateMeetings == <<Told("negociacion", "COMPLETED", 5), Told("avancesBeta", "ANALYZED", 7)>>

Meetings == ContractMeeting \o BoardMeetings \o SalesMeetings \o FundMeetings
              \o ServiceMeetings \o UntoldMeetings \o LateMeetings

(* The tasks: status, whether a user owns it, whether it comes from the old *)
(* workbook, the statuses its history goes through when it has one, and the *)
(* last line it quotes of each meeting.                                     *)
Owned(status, via, quotes) ==
  [status |-> status, owned |-> TRUE, legacy |-> FALSE, via |-> via, quotes |-> quotes]
Unowned(status, via, quotes) ==
  [status |-> status, owned |-> FALSE, legacy |-> FALSE, via |-> via, quotes |-> quotes]
Migrated(status, owned, via) ==
  [status |-> status, owned |-> owned, legacy |-> TRUE, via |-> via, quotes |-> {}]
Started == <<"PENDING", "IN_PROGRESS">>

ContractItems ==
  <<Owned("PENDING", <<>>, {<<"alfa", 5>>, <<"comite", 4>>, <<"legal", 6>>, <<"negociacion", 3>>}),
    Owned("COMPLETION_PROPOSED", Started \o <<"COMPLETION_PROPOSED">>, {<<"alfa", 15>>, <<"kickoffBeta", 6>>}),
    Owned("PENDING", <<>>, {<<"alfa", 12>>}),
    Owned("PENDING", <<>>, {<<"alfa", 20>>}),
    Owned("COMPLETED", <<>>, {<<"comite", 6>>}),
    Owned("IN_PROGRESS", Started, {<<"comite", 3>>})>>

SupplierItems ==
  <<Owned("WAITING", <<"PENDING", "WAITING">>, {<<"legal", 5>>}),
    Owned("COMPLETED", <<>>, {<<"legal", 3>>, <<"negociacion", 4>>}),
    Owned("BLOCKED", Started \o <<"BLOCKED">>, {<<"avancesBeta", 2>>, <<"kickoffBeta", 3>>}),
    Unowned("WAITING", <<"WAITING">>, {<<"kickoffBeta", 2>>}),
    Owned("IN_PROGRESS", Started, {<<"kickoffBeta", 5>>}),
    Owned("IN_PROGRESS", Started, {<<"pipeline", 2>>}),
    Owned("PENDING", <<>>, {<<"pipeline", 3>>})>>

FollowUpItems ==
  <<Owned("PROPOSED", <<>>, {<<"pipeline", 6>>}),
    Owned("COMPLETED", <<>>, {<<"cierre", 1>>}),
    Owned("COMPLETED", <<>>, {<<"cierre", 1>>}),
    Unowned("PENDING", <<>>, {<<"cierre", 4>>}),
    Owned("COMPLETED", <<>>, {<<"gamma", 2>>}),
    Owned("WAITING", <<"PENDING", "WAITING">>, {<<"gamma", 3>>}),
    Owned("IN_PROGRESS", Started, {<<"nps", 1>>})>>

ExpansionItems ==
  <<Owned("PENDING", <<>>, {<<"nps", 2>>}),
    Unowned("PROPOSED", <<>>, {<<"nps", 5>>}),
    Owned("IN_PROGRESS", Started, {<<"norte", 2>>}),
    Owned("PENDING", <<>>, {<<"norte", 3>>}),
    Owned("BLOCKED", <<"PENDING", "BLOCKED">>, {<<"norte", 4>>}),
    Owned("COMPLETED", <<>>, {<<"negociacion", 1>>}),
    Owned("COMPLETED", <<>>, {<<"legal", 1>>, <<"negociacion", 4>>})>>

MigratedItems ==
  <<Owned("IN_PROGRESS", Started, {<<"avancesBeta", 5>>}),
    Owned("PROPOSED", <<>>, {<<"avancesBeta", 6>>}),
    Owned("PENDING", <<>>, {<<"avancesBeta", 4>>}),
    Migrated("COMPLETED", TRUE, <<>>),
    Migrated("COMPLETED", TRUE, <<>>),
    Migrated("COMPLETED", TRUE, <<>>),
    Migrated("IN_PROGRESS", TRUE, <<"IN_PROGRESS">>),
    Migrated("COMPLETED", TRUE, <<>>),
    Migrated("PENDING", FALSE, <<>>),
    Migrated("COMPLETED", TRUE, <<>>),
    Migrated("WAITING", FALSE, <<"WAITING">>)>>

LateItems ==
  <<Owned("PENDING", <<>>, {}),
    Migrated("PENDING", TRUE, <<>>),
    Owned("CANCELLED", <<"PENDING", "CANCELLED">>, {<<"cierre", 5>>}),
    Owned("PENDING", <<>>, {<<"comite", 8>>}),
    Owned("COMPLETED", <<>>, {<<"gamma", 5>>}),
    Owned("PENDING", <<>>, {<<"comite", 7>>, <<"nps", 5>>}),
    Owned("COMPLETED", <<>>, {<<"cierre", 3>>}),
    Owned("BLOCKED", <<"PENDING", "BLOCKED">>, {<<"norte", 5>>}),
    Unowned("PENDING", <<>>, {<<"nps", 6>>})>>

Items == ContractItems \o SupplierItems \o FollowUpItems \o ExpansionItems
           \o MigratedItems \o LateItems

(* The review items: the task each is about, and the line it quotes.        *)
Reviews ==
  <<[about |-> 1, quote |-> <<"alfa", 5>>], [about |-> 14, quote |-> <<"pipeline", 5>>],
    [about |-> 22, quote |-> <<"nps", 4>>], [about |-> 29, quote |-> <<"avancesBeta", 6>>],
    [about |-> 6, quote |-> <<"comite", 3>>], [about |-> 21, quote |-> <<"nps", 3>>]>>

(* The audit trail: approvals of closures, and changes of status.           *)
AuditedApprovals == {5, 8, 15, 16, 18, 26, 27, 43, 45}
AuditedChanges ==
  {<<6, "PENDING", "IN_PROGRESS">>, <<9, "IN_PROGRESS", "BLOCKED">>, <<25, "PENDING", "BLOCKED">>,
   <<46, "PENDING", "BLOCKED">>, <<41, "PENDING", "CANCELLED">>}

Proposed == 2
FirstItem == Len(Meetings) + 1
Wrap == Len(Meetings) + Len(Items) + 1
StepsOfSeed == Wrap + 3

----------------------------------------------------------------------------
SeedTypeOK ==
  /\ shown \in 0..Len(Meetings)
  /\ Len(rows) <= Len(Items)
  /\ rows \in Seq([status : Status, log : Seq(Status), later : Seq(Status)])
  /\ unanswered \subseteq 1..Len(Items) /\ inReview \subseteq 1..Len(Reviews)
  /\ audited \in BOOLEAN /\ whole \in BOOLEAN
  /\ numbers \subseteq Nat /\ nextNumber \in Nat
  /\ seedAt \in 0..StepsOfSeed /\ seeds \in 0..MaxSeeds /\ works \in 0..MaxWorks

SeedInit ==
  /\ shown = 0 /\ rows = <<>>
  /\ unanswered = {} /\ inReview = {} /\ audited = FALSE
  /\ numbers = {} /\ nextNumber = 1
  /\ seedAt = 0 /\ seeds = 0 /\ works = 0 /\ whole = FALSE

(* The history a task is given.                                             *)
Log(item) ==
  IF item.status = "COMPLETED" /\ ~item.legacy /\ item.owned
  THEN item.via \o <<"PENDING", "COMPLETION_PROPOSED", "COMPLETED">>
  ELSE IF item.via # <<>> THEN item.via
  ELSE IF item.legacy THEN <<item.status>>
  ELSE <<IF item.status = "PROPOSED" THEN "PROPOSED" ELSE "PENDING">>

InUse == numbers \cup DOMAIN rows

(* The row of a task; the tasks are stored in the order of their numbers.   *)
SeededRow(item, n) ==
  IF n \in DOMAIN rows THEN [rows[n] EXCEPT !.status = item.status]
  ELSE [status |-> item.status, log |-> <<>>, later |-> <<>>]
Over(table, n, row) == IF n \in DOMAIN table THEN [table EXCEPT ![n] = row] ELSE Append(table, row)

(* Mutant: the tasks come first.                                            *)
BeginWithItems ==
  /\ seedAt = 0 /\ seeds < MaxSeeds
  /\ seedAt' = FirstItem /\ seeds' = seeds + 1 /\ whole' = FALSE
  /\ UNCHANGED <<shown, rows, unanswered, inReview, audited, numbers, nextNumber, works>>

BeginSeed ==
  /\ seedAt = 0 /\ seeds < MaxSeeds
  /\ seedAt' = 1 /\ seeds' = seeds + 1 /\ whole' = FALSE
  /\ UNCHANGED <<shown, rows, unanswered, inReview, audited, numbers, nextNumber, works>>

SeedMeeting ==
  /\ seedAt \in 1..Len(Meetings)
  /\ shown' = IF shown < seedAt THEN seedAt ELSE shown
  /\ seedAt' = seedAt + 1
  /\ UNCHANGED <<rows, unanswered, inReview, audited, numbers, nextNumber, seeds, works, whole>>

(* Row, links, history and, of a closure, its approved proposal, each       *)
(* written over what its id finds.  The process may die after the row.  The *)
(* create fails when a person's task has the number, and the run with it.   *)
SeedItem ==
  LET n == seedAt - Len(Meetings)
      item == Items[n] IN
  /\ seedAt \in FirstItem..(Wrap - 1)
  /\ \/ /\ n \in DOMAIN rows \/ n \notin numbers
        /\ \/ rows' = Over(rows, n, [SeededRow(item, n) EXCEPT !.log = Log(item)])
              /\ seedAt' = seedAt + 1
           \/ rows' = Over(rows, n, SeededRow(item, n)) /\ seedAt' = 0
     \/ /\ n \notin DOMAIN rows /\ n \in numbers
        /\ rows' = rows /\ seedAt' = 0
  /\ UNCHANGED <<shown, unanswered, inReview, audited, numbers, nextNumber, seeds, works, whole>>

SeedProposal ==
  /\ seedAt = Wrap
  /\ unanswered' = unanswered \cup {Proposed}
  /\ seedAt' = seedAt + 1
  /\ UNCHANGED <<shown, rows, inReview, audited, numbers, nextNumber, seeds, works, whole>>

SeedReviews ==
  /\ seedAt = Wrap + 1
  /\ inReview' = 1..Len(Reviews)
  /\ seedAt' = seedAt + 1
  /\ UNCHANGED <<shown, rows, unanswered, audited, numbers, nextNumber, seeds, works, whole>>

Top(s) == CHOOSE n \in s : \A m \in s : m <= n

(* setval: the serial goes on above the tasks there are.                    *)
AdvanceNumbers ==
  /\ seedAt = Wrap + 2
  /\ nextNumber' = Top(InUse) + 1
  /\ seedAt' = seedAt + 1
  /\ UNCHANGED <<shown, rows, unanswered, inReview, audited, numbers, seeds, works, whole>>

(* seedSystem: settings, digest, subscriptions, events and the audit trail. *)
SeedSystem ==
  /\ seedAt = Wrap + 3
  /\ audited' = TRUE /\ seedAt' = 0 /\ whole' = (works = 0)
  /\ UNCHANGED <<shown, rows, unanswered, inReview, numbers, nextNumber, seeds, works>>

SeedDies ==
  /\ seedAt # 0 /\ seedAt' = 0
  /\ UNCHANGED <<shown, rows, unanswered, inReview, audited, numbers, nextNumber, seeds, works, whole>>

----------------------------------------------------------------------------
Works ==
  /\ works < MaxWorks /\ works' = works + 1 /\ whole' = FALSE
  /\ UNCHANGED <<shown, inReview, audited, seedAt, seeds>>

(* The serial gives a number and does not take it back if it is in use.     *)
CreateTask ==
  /\ Works
  /\ numbers' = IF nextNumber \in InUse THEN numbers ELSE numbers \cup {nextNumber}
  /\ nextNumber' = nextNumber + 1
  /\ UNCHANGED <<rows, unanswered>>

MoveItem(n, to) ==
  /\ Works /\ n \in DOMAIN rows
  /\ CanTransition(rows[n].status, to, "USER", n \in unanswered)
  /\ rows' = [rows EXCEPT ![n].status = to, ![n].later = Append(@, to)]
  /\ unanswered' = IF to = "COMPLETION_PROPOSED" THEN unanswered \cup {n}
              ELSE IF to = "COMPLETED" THEN unanswered \ {n} ELSE unanswered
  /\ UNCHANGED <<numbers, nextNumber>>

SeedNext ==
  \/ BeginSeed \/ SeedMeeting \/ SeedItem \/ SeedProposal \/ SeedReviews
  \/ AdvanceNumbers \/ SeedSystem \/ SeedDies
  \/ CreateTask
  \/ \E n \in Touchable, to \in Status : MoveItem(n, to)

SeedSpec == SeedInit /\ [][SeedNext]_seedVars

----------------------------------------------------------------------------
IsChain(log) ==
  \A i \in 1..(Len(log) - 1) : CanTransition(log[i], log[i + 1], "USER", log[i + 1] = "COMPLETED")

Quoted(quote) ==
  \E i \in 1..shown : Meetings[i].key = quote[1] /\ quote[2] \in 1..Meetings[i].lines

(* The script writes numbers of its own beside the serial of the table, and *)
(* runs before may have died short of advancing it: once one came through,  *)
(* nobody who creates a task is refused over a number in use, not even      *)
(* while the script runs again.                                             *)
NumbersAreFree == audited => \A n \in InUse : n < nextNumber

(* At any time, whatever died before, the tasks stored quote lines of       *)
(* transcripts that are stored, and their histories are legal chains.       *)
(* After a run that came to its end the demonstration shows only what the   *)
(* platform itself could have made (while nobody worked on it): a history   *)
(* ends in the status of its row, closures were approved except in the      *)
(* migrated tasks, whatever awaits a person's answer has something to       *)
(* answer, and the audit trail tells what the histories tell.  People go on *)
(* from there: the numbers are free.                                        *)
DemoIsCoherent ==
  /\ NumbersAreFree
  /\ \A n \in DOMAIN rows :
       IsChain(rows[n].log) /\ \A quote \in Items[n].quotes : Quoted(quote)
  /\ whole =>
    \A n \in 1..Len(Items) :
      LET log == rows[n].log IN
      /\ log[Len(log)] = rows[n].status
      /\ rows[n].status = "COMPLETION_PROPOSED" <=> n \in unanswered
      /\ rows[n].status = "PROPOSED" => \E r \in inReview : Reviews[r].about = n
      /\ (rows[n].status = "COMPLETED" /\ ~Items[n].legacy) <=> (audited /\ n \in AuditedApprovals)
      /\ \A c \in AuditedChanges : c[1] = n =>
           \E i \in 1..(Len(log) - 1) : log[i] = c[2] /\ log[i + 1] = c[3]
=============================================================================
