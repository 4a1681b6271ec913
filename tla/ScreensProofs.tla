---------------------------- MODULE ScreensProofs ----------------------------
(***************************************************************************)
(* What the screens promise, for any number of people, findings, versions  *)
(* and requests.  None of the three properties is inductive alone.         *)
(*                                                                         *)
(* The page of a task: the screen and the read under way are earlier       *)
(* states of the row, and those of its version are the row (ScreenTrails,  *)
(* ReadingTrails); a dialog and a request read no later than that, so what *)
(* was offered for the row as it stands is still accepted (DialogFits,     *)
(* SentFits).                                                              *)
(*                                                                         *)
(* The inbox of the AI: only the settings are not about a finding, only    *)
(* their fields are settings, and only the page of the meeting shows them  *)
(* (FormFits, RequestFits, PageFits).                                      *)
(*                                                                         *)
(* The screens of administrators: what carries the count of the last write *)
(* shows what is stored (ScreenIsCurrent).                                 *)
(***************************************************************************)
EXTENDS TaskPage, ReviewDesk, Administration, TLAPS, SequenceTheorems

----------------------------------------------------------------------------
(* The page of a task.                                                      *)

(* What was offered for the row as it stands is accepted, or is one of the  *)
(* known exceptions; what a form hands to whom is still open.               *)
Stands(b) ==
  \/ Orphaned(row)
  \/ IF b.kind \in {"hand", "edit"} THEN CanUpdateActionItem(visitor, row) ELSE Accepts(b)

(* A decision on a proposal is about the one on screen.                     *)
AboutRow(b) ==
  IF MutationOf(b.kind) = "review" THEN [b EXCEPT !.proposal = row.proposal] ELSE b

KnowsOwner(b) == b.kind \in {"hand", "edit"} => b.owner \in Owners

(* The screen and the read under way are earlier states of the row, and of  *)
(* its version are the row itself.                                          *)
ScreenTrails ==
  /\ screen.version = row.version => screen = row
  /\ CanAccessActionItem(visitor, screen)

ReadingTrails ==
  reading.stage = "answered" =>
    /\ reading.got \in PageRow /\ CanAccessActionItem(visitor, reading.got)
    /\ screen.version <= reading.got.version /\ reading.got.version <= row.version
    /\ reading.got.version = row.version => reading.got = row
    /\ reading.got.version >= acked \/ reading.again

DialogFits ==
  dialog # Absent =>
    /\ dialog.read <= screen.version /\ KnowsOwner(dialog.body)
    /\ dialog.read = row.version => Stands(AboutRow(dialog.body))

SentFits(request) ==
  request # Absent =>
    /\ request.version <= row.version /\ request.read <= row.version
    /\ KnowsOwner(request.body)
    /\ request.stage = "travelling" /\ request.read = row.version => Stands(request.body)

PageInv ==
  /\ PageTypeOK
  /\ acked <= row.version
  /\ ScreenTrails /\ ReadingTrails /\ DialogFits
  /\ \A m \in Mutations : SentFits(sent[m])
  /\ OwnWorkIsShown

----------------------------------------------------------------------------
LEMMA PageStarts ==
  ASSUME PageAssumption, PageInit
  PROVE  PageInv
<1>1. row \in PageRow
  BY DEF PageAssumption, PageInit
<1>2. NotReading \in [stage: {"none", "asked", "answered"}, got: PageRow \cup {Absent},
                      again: BOOLEAN]
  BY DEF NotReading
<1>3. row.version \in Nat /\ 0 \in 0..MaxVersion
  BY <1>1 DEF PageRow, PageAssumption
<1>4. PageTypeOK
  <2>1. visitor \in Visitors /\ place \in {"detail", "board"} /\ blind \in BOOLEAN
    BY DEF PageInit
  <2>2. sent \in [Mutations -> Request \cup {Absent}] /\ dialog = Absent
    BY DEF PageInit
  <2>3. screen = row /\ row.version <= row.version
    BY <1>3 DEF PageInit
  <2>4. reading = NotReading /\ acked \in 0..MaxVersion
    BY <1>3 DEF PageInit
  <2> QED BY <1>1, <1>2, <2>1, <2>2, <2>3, <2>4 DEF PageTypeOK
<1> QED BY <1>1, <1>3, <1>4
        DEF PageInit, PageInv, ScreenTrails, ReadingTrails, DialogFits, SentFits,
            OwnWorkIsShown, NotReading

(* A change of the row: what was read before is older than it now.          *)
LEMMA RowChanges ==
  ASSUME PageAssumption, PageInv, PageTypeOK', row'.version = row.version + 1,
         UNCHANGED <<viewVars, screen, reading, dialog, acked, blind>>,
         \A m \in Mutations : SentFits(sent[m])'
  PROVE  PageInv'
<1>1. /\ row.version \in Nat /\ screen.version \in Nat /\ acked \in Nat
      /\ screen.version <= row.version
  BY DEF PageInv, PageTypeOK, PageRow, PageAssumption
<1>2. ScreenTrails'
  BY <1>1 DEF PageInv, ScreenTrails, viewVars
<1>3. ReadingTrails'
  <2>1. reading.stage = "answered" => reading.got.version \in Nat
    BY DEF PageInv, ReadingTrails, PageRow, PageAssumption
  <2> QED BY <1>1, <2>1 DEF PageInv, ReadingTrails, viewVars
<1>4. DialogFits'
  <2>1. dialog # Absent => dialog.read \in Nat
    BY DEF PageInv, PageTypeOK, PageAssumption
  <2> QED BY <1>1, <2>1 DEF PageInv, DialogFits, KnowsOwner
<1>5. OwnWorkIsShown'
  BY DEF PageInv, OwnWorkIsShown
<1> QED BY <1>1, <1>2, <1>3, <1>4, <1>5 DEF PageInv

(* A request that was sent before the row changed, or was answered with it. *)
LEMMA SentEarlier ==
  ASSUME PageAssumption, PageInv, row'.version = row.version + 1, NEW m \in Mutations,
         sent'[m] = sent[m]
  PROVE  SentFits(sent[m])'
<1>1. row.version \in Nat
  BY DEF PageInv, PageTypeOK, PageRow, PageAssumption
<1>2. sent[m] # Absent => sent[m].version \in Nat /\ sent[m].read \in Nat
  BY DEF PageInv, PageTypeOK, Request, PageAssumption
<1> QED BY <1>1, <1>2 DEF PageInv, SentFits, KnowsOwner

LEMMA ChangedTyped ==
  ASSUME PageAssumption, NEW r \in PageRow, r.version < MaxVersion
  PROVE  /\ Changed(r) \in PageRow /\ Changed(r).version = r.version + 1
         /\ \A to \in Status : Moved(r, to) \in PageRow /\ Moved(r, to).version = r.version + 1
         /\ \A o \in Owners : Handed(r, o) \in PageRow /\ Handed(r, o).version = r.version + 1
         /\ ProposedFor(r) \in PageRow /\ ProposedFor(r).version = r.version + 1
         /\ \A to \in Status :
              Reviewed(r, to) \in PageRow /\ Reviewed(r, to).version = r.version + 1
<1>1. Changed(r) \in PageRow /\ Changed(r).version = r.version + 1
  BY DEF Changed, PageRow, PageAssumption
<1>2. ASSUME NEW to \in Status
      PROVE  /\ Moved(r, to) \in PageRow /\ Moved(r, to).version = r.version + 1
             /\ Reviewed(r, to) \in PageRow /\ Reviewed(r, to).version = r.version + 1
  <2>1. Moved(r, to) \in PageRow /\ Moved(r, to).version = r.version + 1
    BY <1>1 DEF Moved, PageRow
  <2>2. 0 \in 0..MaxVersion
    BY DEF PageAssumption
  <2>3. Reviewed(r, to) = [Moved(r, to) EXCEPT !.proposal = 0]
    BY DEF Reviewed
  <2> QED BY <2>1, <2>2, <2>3 DEF PageRow
<1>3. ASSUME NEW o \in Owners
      PROVE  Handed(r, o) \in PageRow /\ Handed(r, o).version = r.version + 1
  BY <1>1 DEF Handed, PageRow, PageAssumption
<1>4. ProposedFor(r) \in PageRow /\ ProposedFor(r).version = r.version + 1
  <2>1. r.version + 1 \in 0..MaxVersion /\ "COMPLETION_PROPOSED" \in Status
    BY DEF PageRow, PageAssumption, Status
  <2> QED BY <1>2, <2>1 DEF ProposedFor, PageRow
<1> QED BY <1>1, <1>2, <1>3, <1>4

LEMMA ColleagueKeeps ==
  ASSUME PageAssumption, PageInv, ColleagueActs
  PROVE  PageInv'
<1>1. row \in PageRow /\ row.version < MaxVersion
  BY DEF PageInv, PageTypeOK, ColleagueActs
<1>2. {"COMPLETED", "IN_PROGRESS"} \cup Moves \subseteq Status
  BY DEF Status, PageAssumption
<1>3. row' \in PageRow /\ row'.version = row.version + 1
  <2>1. CASE \E to \in Moves : row' = Moved(row, to)
    BY <1>1, <1>2, <2>1, ChangedTyped
  <2>2. CASE \E o \in Owners : row' = Handed(row, o)
    BY <1>1, <2>2, ChangedTyped
  <2>3. CASE row' = ProposedFor(row)
    BY <1>1, <2>3, ChangedTyped
  <2>4. CASE \E to \in {"COMPLETED", "IN_PROGRESS"} : row' = Reviewed(row, to)
    BY <1>1, <1>2, <2>4, ChangedTyped
  <2> QED BY <2>1, <2>2, <2>3, <2>4 DEF ColleagueActs
<1>4. row.version \in Nat /\ screen.version \in Nat
  BY <1>1 DEF PageRow, PageAssumption, PageInv, PageTypeOK
<1>5. PageTypeOK'
  BY <1>3, <1>4 DEF PageInv, PageTypeOK, ColleagueActs, viewVars
<1>6. \A m \in Mutations : SentFits(sent[m])'
  BY <1>3, SentEarlier DEF ColleagueActs
<1> QED BY <1>3, <1>5, <1>6, RowChanges DEF ColleagueActs

----------------------------------------------------------------------------
(* The table of the transitions a person may make.                          *)
LEMMA HumanMoves ==
  /\ \A s \in Status : HumanTransitions[s] \subseteq Status \ {s}
  /\ "IN_PROGRESS" \in HumanTransitions["COMPLETED"]
  /\ {"PENDING", "IN_PROGRESS"} \subseteq HumanTransitions["COMPLETION_PROPOSED"]
  /\ {"PENDING", "IN_PROGRESS", "COMPLETED", "COMPLETION_PROPOSED", "CANCELLED"} \subseteq Status
<1>1. \A s \in Status : s \in OpenForProposal \cup {"PROPOSED", "COMPLETION_PROPOSED", "COMPLETED",
                                                   "CANCELLED"}
  BY DEF Status, OpenForProposal
<1>2. \A s \in Status : HumanTransitions[s] \subseteq Status \ {s}
  BY <1>1 DEF HumanTransitions, Status, OpenForProposal
<1> QED BY <1>2 DEF HumanTransitions, Status, OpenForProposal

(* The shapes of what is offered.                                           *)
LEMMA OfferKinds ==
  ASSUME NEW b \in Offers
  PROVE  /\ May("ACTION_ITEM_UPDATE") \/ b.kind \in {"approve", "reject"}
         /\ \/ \E s \in Transitions \cap Moves :
                 /\ b = To("move", s) /\ s \notin {"COMPLETED", "COMPLETION_PROPOSED"}
                 /\ s = "CANCELLED" => May("ACTION_ITEM_CANCEL")
            \/ b = Bare("touch")
            \/ b = Bare("propose") /\ CanProposeCompletion(screen.status)
            \/ b = For("hand", screen.owner) \/ b = For("edit", screen.owner)
            \/ b = Bare("reopen") /\ screen.status = "COMPLETED"
            \/ /\ b \in {Bare("approve"), To("reject", "PENDING"), To("reject", "IN_PROGRESS")}
               /\ screen.proposal # 0 /\ CanApproveCompletion(visitor, screen)
<1>1. CASE b \in QuickOffers
  BY <1>1 DEF QuickOffers, MoveOffers, If
<1>2. CASE b \in DetailOffers
  BY <1>2 DEF DetailOffers, For, To, Bare
<1> QED BY <1>1, <1>2 DEF Offers

(* What a button sends is well formed, and would be accepted if the task    *)
(* were still as the screen shows it.                                       *)
LEMMA OffersFit ==
  ASSUME PageAssumption, PageInv, NEW b \in Offers
  PROVE  /\ b \in Body /\ KnowsOwner(b)
         /\ screen.version = row.version => Stands(AboutRow(b))
<1>1. screen \in PageRow /\ screen.status \in Status /\ screen.owner \in Owners
  BY DEF PageInv, PageTypeOK, PageRow
<1>2. 0 \in 0..MaxVersion
  BY DEF PageAssumption
<1>3. \A k \in Kinds : /\ Bare(k) \in Body /\ Bare(k).kind = k
                       /\ \A s \in Status : To(k, s) \in Body /\ To(k, s).kind = k /\ To(k, s).to = s
                       /\ \A o \in Owners : /\ For(k, o) \in Body /\ For(k, o).kind = k
                                            /\ For(k, o).owner = o
  BY <1>1, <1>2 DEF Bare, To, For, Body
<1>4. Transitions \subseteq HumanTransitions[screen.status]
  BY DEF Transitions
<1>5. b \in Body /\ KnowsOwner(b)
  BY <1>1, <1>3, <1>4, OfferKinds, HumanMoves DEF KnowsOwner, Kinds
<1>6. ASSUME screen = row
      PROVE  Stands(AboutRow(b))
  <2>1. CanAccessActionItem(visitor, row)
    BY <1>6 DEF PageInv, ScreenTrails
  <2>2. May("ACTION_ITEM_UPDATE") => CanUpdateActionItem(visitor, row)
    BY <2>1 DEF May, CanUpdateActionItem
  <2>3. ASSUME NEW s \in Transitions \cap Moves, b = To("move", s),
               s \notin {"COMPLETED", "COMPLETION_PROPOSED"},
               s = "CANCELLED" => May("ACTION_ITEM_CANCEL")
        PROVE  Stands(AboutRow(b))
    <3>1. b.kind = "move" /\ b.to = s /\ s \in Status
      BY <1>1, <1>3, <1>4, <2>3, HumanMoves DEF Kinds
    <3>2. AboutRow(b) = b
      BY <3>1 DEF AboutRow, MutationOf
    <3>3. CanTransition(row.status, s, "USER", FALSE)
      BY <1>1, <1>4, <1>6, <2>3, HumanMoves DEF CanTransition
    <3>4. May("ACTION_ITEM_UPDATE")
      BY <3>1, OfferKinds
    <3>5. Accepts(b)
      BY <2>2, <2>3, <3>1, <3>3, <3>4 DEF Accepts
    <3> QED BY <3>1, <3>2, <3>5 DEF Stands
  <2>4. CASE b = Bare("touch")
    <3>1. b.kind = "touch" /\ AboutRow(b) = b
      BY <1>3, <2>4 DEF Kinds, AboutRow, MutationOf
    <3> QED BY <2>2, <3>1, OfferKinds DEF Stands, Accepts
  <2>5. CASE b = Bare("propose") /\ CanProposeCompletion(screen.status)
    <3>1. b.kind = "propose" /\ AboutRow(b) = b
      BY <1>3, <2>5 DEF Kinds, AboutRow, MutationOf
    <3>2. row.proposal # 0 => Orphaned(row)
      BY <1>6, <2>5 DEF Orphaned, CanProposeCompletion, OpenForProposal
    <3> QED BY <1>6, <2>2, <2>5, <3>1, <3>2, OfferKinds DEF Stands, Accepts
  <2>6. CASE b = For("hand", screen.owner) \/ b = For("edit", screen.owner)
    <3>1. b.kind \in {"hand", "edit"}
      BY <1>1, <1>3, <2>6 DEF Kinds
    <3>2. AboutRow(b) = b
      BY <3>1 DEF AboutRow, MutationOf
    <3>3. b.kind \notin {"approve", "reject"}
      BY <3>1
    <3>4. May("ACTION_ITEM_UPDATE")
      BY <3>3, OfferKinds
    <3> QED BY <2>2, <3>1, <3>2, <3>4 DEF Stands
  <2>7. CASE b = Bare("reopen") /\ screen.status = "COMPLETED"
    <3>1. b.kind = "reopen" /\ AboutRow(b) = b
      BY <1>3, <2>7 DEF Kinds, AboutRow, MutationOf
    <3>2. CanTransition(row.status, "IN_PROGRESS", "USER", FALSE)
      BY <1>6, <2>7, HumanMoves DEF CanTransition
    <3> QED BY <2>2, <3>1, <3>2, OfferKinds DEF Stands, Accepts
  <2>8. CASE /\ b \in {Bare("approve"), To("reject", "PENDING"), To("reject", "IN_PROGRESS")}
             /\ screen.proposal # 0 /\ CanApproveCompletion(visitor, screen)
    <3> DEFINE c == AboutRow(b)
    <3>1. /\ b \in Body
          /\ \/ b.kind = "approve"
             \/ b.kind = "reject" /\ b.to \in {"PENDING", "IN_PROGRESS"}
      BY <1>3, <2>8, HumanMoves DEF Kinds
    <3>2. MutationOf(b.kind) = "review"
      BY <3>1 DEF MutationOf
    <3>3. c.kind = b.kind /\ c.to = b.to /\ c.proposal = row.proposal
      BY <3>1, <3>2 DEF AboutRow, Body
    <3>4. CASE row.status # "COMPLETION_PROPOSED"
      BY <1>6, <2>8, <3>4 DEF Stands, Orphaned
    <3>5. CASE row.status = "COMPLETION_PROPOSED"
      <4>1. CanTransition(row.status, "COMPLETED", "USER", TRUE)
        BY <3>5 DEF CanTransition
      <4>2. b.kind = "reject" => CanTransition(row.status, b.to, "USER", FALSE)
        BY <3>1, <3>5, HumanMoves DEF CanTransition
      <4>3. c.kind \notin {"move", "hand", "edit", "touch", "propose", "reopen"}
        BY <3>1, <3>3
      <4>4. Accepts(c)
        BY <1>6, <2>8, <3>1, <3>3, <4>1, <4>2, <4>3 DEF Accepts
      <4> QED BY <4>3, <4>4 DEF Stands
    <3> QED BY <3>4, <3>5
  <2> QED BY <2>3, <2>4, <2>5, <2>6, <2>7, <2>8, OfferKinds
<1>7. screen.version = row.version => screen = row
  BY DEF PageInv, ScreenTrails
<1> QED BY <1>5, <1>6, <1>7

----------------------------------------------------------------------------
(* Steps that leave the row alone.                                          *)
LEMMA DialogStays ==
  ASSUME PageAssumption, PageInv, PageTypeOK', UNCHANGED <<row, viewVars>>,
         screen.version <= screen'.version, dialog' \in {dialog, Absent}
  PROVE  DialogFits'
<1>1. CASE dialog' = Absent
  BY <1>1 DEF DialogFits
<1>2. CASE dialog' = dialog /\ dialog # Absent
  <2>1. dialog.read \in Nat /\ screen.version \in Nat /\ screen'.version \in Nat
    BY <1>2 DEF PageInv, PageTypeOK, PageRow, PageAssumption
  <2>2. dialog'.read <= screen'.version /\ KnowsOwner(dialog'.body)
    BY <1>2, <2>1 DEF PageInv, DialogFits
  <2>3. ASSUME dialog'.read = row'.version
        PROVE  Stands(AboutRow(dialog.body))'
    <3>1. Stands(AboutRow(dialog.body))
      BY <1>2, <2>3 DEF PageInv, DialogFits
    <3> QED BY <1>2, <3>1 DEF Stands, AboutRow, Orphaned, Accepts, Reassigns, May, viewVars
  <2> QED BY <2>2, <2>3 DEF DialogFits, KnowsOwner
<1> QED BY <1>1, <1>2

(* A request that only changes its stage stays the one that was sent.       *)
LEMMA SentStays ==
  ASSUME PageAssumption, PageInv, UNCHANGED <<row, viewVars>>, NEW m \in Mutations,
         \/ sent'[m] \in {sent[m], Absent}
         \/ sent[m] # Absent
            /\ \E stage \in {"refused", "settling"} : sent'[m] = [sent[m] EXCEPT !.stage = stage]
  PROVE  SentFits(sent[m])'
<1>1. CASE sent'[m] = Absent
  BY <1>1 DEF SentFits
<1>2. CASE sent'[m] = sent[m]
  BY <1>2 DEF PageInv, SentFits, KnowsOwner, Stands, Orphaned, Accepts, Reassigns, May, viewVars
<1>3. ASSUME sent[m] # Absent, NEW stage \in {"refused", "settling"},
             sent'[m] = [sent[m] EXCEPT !.stage = stage]
      PROVE  SentFits(sent[m])'
  <2>1. sent[m] \in Request
    BY <1>3 DEF PageInv, PageTypeOK
  <2>2. /\ sent'[m].stage # "travelling" /\ sent'[m].body = sent[m].body
        /\ sent'[m].read = sent[m].read /\ sent'[m].version = sent[m].version
    BY <1>3, <2>1 DEF Request
  <2> QED BY <1>3, <2>2 DEF PageInv, SentFits, KnowsOwner
<1> QED BY <1>1, <1>2, <1>3

LEMMA ScreenStays ==
  ASSUME PageInv, UNCHANGED <<row, viewVars, screen>>
  PROVE  ScreenTrails'
BY DEF PageInv, ScreenTrails, viewVars

LEMMA ReadingStays ==
  ASSUME PageInv, UNCHANGED <<row, viewVars, screen, reading, acked>>
  PROVE  ReadingTrails'
BY DEF PageInv, ReadingTrails, viewVars

LEMMA VersionsAreNat ==
  ASSUME PageAssumption, PageInv
  PROVE  /\ row.version \in Nat /\ screen.version \in Nat /\ acked \in Nat
         /\ screen.version <= screen.version
BY DEF PageInv, PageTypeOK, PageRow, PageAssumption

LEMMA DialogKeeps ==
  ASSUME PageAssumption, PageInv,
         \/ \E b \in Offers : OpenDialog(b)
         \/ \E o \in Owners : PickOwner(o)
         \/ DismissDialog
  PROVE  PageInv'
<1>1. UNCHANGED <<row, viewVars, screen, reading, sent, acked, blind>>
  BY DEF OpenDialog, PickOwner, DismissDialog
<1>2. /\ ScreenTrails' /\ ReadingTrails' /\ OwnWorkIsShown'
      /\ \A m \in Mutations : SentFits(sent[m])'
  BY <1>1, ScreenStays, ReadingStays, SentStays DEF PageInv, OwnWorkIsShown
<1>3. dialog' \in [body: Body, read: 0..MaxVersion] \cup {Absent} /\ DialogFits'
  <2>1. ASSUME NEW b \in Offers, OpenDialog(b)
        PROVE  dialog' \in [body: Body, read: 0..MaxVersion] \cup {Absent} /\ DialogFits'
    <3>1. dialog' = [body |-> b, read |-> screen.version]
      BY <2>1 DEF OpenDialog
    <3>2. dialog'.body = b /\ dialog'.read = screen.version
      BY <3>1
    <3>3. b \in Body /\ KnowsOwner(b) /\ (screen.version = row.version => Stands(AboutRow(b)))
      BY OffersFit
    <3>4. screen.version \in 0..MaxVersion
      BY DEF PageInv, PageTypeOK, PageRow
    <3>5. ASSUME dialog'.read = row'.version
          PROVE  Stands(AboutRow(dialog.body))'
      <4>1. Stands(AboutRow(b))
        BY <1>1, <3>2, <3>3, <3>5
      <4> QED BY <1>1, <3>2, <4>1 DEF Stands, AboutRow, Orphaned, Accepts, Reassigns, May, viewVars
    <3> QED BY <1>1, <3>1, <3>2, <3>3, <3>4, <3>5, VersionsAreNat DEF DialogFits, KnowsOwner
  <2>2. ASSUME NEW o \in Owners, PickOwner(o)
        PROVE  dialog' \in [body: Body, read: 0..MaxVersion] \cup {Absent} /\ DialogFits'
    <3>1. dialog \in [body: Body, read: 0..MaxVersion] /\ dialog # Absent
      BY <2>2 DEF PageInv, PageTypeOK, PickOwner
    <3>2. dialog' = [dialog EXCEPT !.body = [dialog.body EXCEPT !.owner = o]]
      BY <2>2, <3>1 DEF PickOwner, Body
    <3>3. /\ dialog'.body \in Body /\ dialog'.body.owner = o /\ dialog'.read = dialog.read
          /\ dialog'.body.kind = dialog.body.kind /\ dialog.body.kind \in {"hand", "edit"}
          /\ dialog' \in [body: Body, read: 0..MaxVersion]
      BY <2>2, <3>1, <3>2 DEF PickOwner, Body
    <3>4. ASSUME dialog'.read = row'.version
          PROVE  Stands(AboutRow(dialog.body))'
      <4>1. Stands(AboutRow(dialog.body))
        BY <1>1, <3>1, <3>3, <3>4 DEF PageInv, DialogFits
      <4>2. AboutRow(dialog.body) = dialog.body /\ MutationOf(dialog'.body.kind) # "review"
        BY <3>3 DEF AboutRow, MutationOf
      <4>3. Orphaned(row) \/ CanUpdateActionItem(visitor, row)
        BY <3>3, <4>1, <4>2 DEF Stands
      <4> QED BY <1>1, <3>3, <4>2, <4>3 DEF Stands, AboutRow, Orphaned, viewVars
    <3> QED BY <1>1, <3>1, <3>3, <3>4 DEF PageInv, DialogFits, KnowsOwner
  <2>3. CASE DismissDialog
    BY <2>3 DEF DismissDialog, DialogFits
  <2> QED BY <2>1, <2>2, <2>3
<1>4. PageTypeOK'
  BY <1>1, <1>3 DEF PageInv, PageTypeOK, viewVars
<1> QED BY <1>1, <1>2, <1>3, <1>4 DEF PageInv

LEMMA ConfirmKeeps ==
  ASSUME PageAssumption, PageInv, Confirm
  PROVE  PageInv'
<1> DEFINE m == MutationOf(dialog.body.kind)
           asked == IF m = "review" THEN [dialog.body EXCEPT !.proposal = screen.proposal]
                                    ELSE dialog.body
           request == [stage |-> "travelling", read |-> dialog.read, version |-> 0, body |-> asked]
<1>1. dialog \in [body: Body, read: 0..MaxVersion] /\ dialog # Absent
  BY DEF PageInv, PageTypeOK, Confirm
<1>2. screen \in PageRow /\ screen.proposal \in 0..MaxVersion /\ 0 \in 0..MaxVersion
  BY DEF PageInv, PageTypeOK, PageRow, PageAssumption
<1>3. /\ asked \in Body /\ asked.kind = dialog.body.kind /\ asked.owner = dialog.body.owner
  BY <1>1, <1>2 DEF Body
<1>4. request \in Request
  BY <1>1, <1>2, <1>3 DEF Request
<1>5. sent' = [sent EXCEPT ![m] = request]
  BY DEF Confirm
<1>6. UNCHANGED <<row, viewVars, screen, reading, dialog, acked, blind>>
  BY DEF Confirm
<1>7. sent' \in [Mutations -> Request \cup {Absent}]
  BY <1>4, <1>5 DEF PageInv, PageTypeOK
<1>8. PageTypeOK'
  BY <1>6, <1>7 DEF PageInv, PageTypeOK, viewVars
<1>9. /\ dialog.read <= row.version /\ KnowsOwner(asked)
      /\ dialog.read = row.version => Stands(asked)
  <2>1. /\ dialog.read <= screen.version /\ KnowsOwner(dialog.body)
        /\ screen.version <= row.version
        /\ dialog.read = row.version => Stands(AboutRow(dialog.body))
    BY <1>1 DEF PageInv, PageTypeOK, DialogFits
  <2>2. dialog.read \in Nat
    BY <1>1 DEF PageAssumption
  <2>3. dialog.read = row.version => screen = row
    BY <2>1, <2>2, VersionsAreNat DEF PageInv, ScreenTrails
  <2>4. dialog.read = row.version => asked = AboutRow(dialog.body)
    BY <2>3 DEF AboutRow
  <2> QED BY <1>3, <2>1, <2>2, <2>4, VersionsAreNat DEF KnowsOwner
<1>10. ASSUME NEW n \in Mutations
       PROVE  SentFits(sent[n])'
  <2>1. CASE n # m
    <3>1. sent'[n] = sent[n]
      BY <1>5, <2>1 DEF PageInv, PageTypeOK
    <3> QED BY <1>6, <3>1, SentStays
  <2>2. CASE n = m
    <3>1. sent'[n] = request
      BY <1>5, <2>2 DEF PageInv, PageTypeOK
    <3>2. sent'[n].version = 0 /\ sent'[n].read = dialog.read /\ sent'[n].body = asked
      BY <3>1
    <3> HIDE DEF asked
    <3>3. ASSUME sent'[n].read = row'.version
          PROVE  Stands(sent[n].body)'
      <4>1. Stands(asked)
        BY <1>6, <1>9, <3>2, <3>3
      <4> QED BY <1>6, <3>2, <4>1 DEF Stands, Orphaned, Accepts, Reassigns, May, viewVars
    <3> QED BY <1>6, <1>9, <3>2, <3>3, VersionsAreNat DEF SentFits, KnowsOwner
  <2> QED BY <2>1, <2>2
<1>11. DialogFits'
  BY <1>6, <1>8, DialogStays, VersionsAreNat
<1>12. ScreenTrails' /\ ReadingTrails' /\ OwnWorkIsShown'
  BY <1>6, ScreenStays, ReadingStays DEF PageInv, OwnWorkIsShown
<1> QED BY <1>6, <1>8, <1>10, <1>11, <1>12 DEF PageInv

----------------------------------------------------------------------------
(* A request is served.                                                     *)
LEMMA OutcomeTyped ==
  ASSUME PageAssumption, PageInv, row.version < MaxVersion,
         NEW b \in Body, KnowsOwner(b)
  PROVE  Outcome(b) \in PageRow /\ Outcome(b).version = row.version + 1
<1>1. row \in PageRow /\ b.to \in Status /\ b.kind \in Kinds
  BY DEF PageInv, PageTypeOK, Body
<1>2. {"IN_PROGRESS", "COMPLETED"} \subseteq Status
  BY HumanMoves
<1>3. b.kind \in {"hand", "edit"} => b.owner \in Owners
  BY DEF KnowsOwner
<1> QED BY <1>1, <1>2, <1>3, ChangedTyped DEF Outcome, Kinds

LEMMA ServeRequestKeeps ==
  ASSUME PageAssumption, PageInv, NEW m \in Mutations, ServeRequest(m)
  PROVE  PageInv'
<1>1. sent[m] \in Request /\ sent[m] # Absent /\ sent[m].body \in Body /\ KnowsOwner(sent[m].body)
  BY DEF PageInv, PageTypeOK, ServeRequest, Request, SentFits
<1>2. UNCHANGED <<viewVars, screen, reading, dialog, acked, blind>>
  BY DEF ServeRequest
<1>3. \A n \in Mutations \ {m} : sent'[n] = sent[n]
  BY DEF ServeRequest, PageInv, PageTypeOK
<1>4. CASE Accepts(sent[m].body)
  <2>1. row' \in PageRow /\ row'.version = row.version + 1
    BY <1>1, <1>4, OutcomeTyped DEF ServeRequest
  <2>2. PICK stage \in {"accepted", "refused"} :
          sent' = [sent EXCEPT ![m] = [sent[m] EXCEPT !.version = row'.version, !.stage = stage]]
    BY <1>1, <1>4 DEF ServeRequest, PageInv, PageTypeOK, Request
  <2>3. row'.version \in 0..MaxVersion
    BY <2>1 DEF PageRow
  <2>4. /\ sent'[m] \in Request /\ sent'[m].version = row'.version /\ sent'[m].stage = stage
        /\ sent'[m].body = sent[m].body /\ sent'[m].read = sent[m].read
    BY <1>1, <2>2, <2>3 DEF PageInv, PageTypeOK, Request
  <2>5. sent' \in [Mutations -> Request \cup {Absent}]
    BY <2>2, <2>4 DEF PageInv, PageTypeOK
  <2>6. PageTypeOK'
    BY <1>2, <2>1, <2>5, VersionsAreNat DEF PageInv, PageTypeOK, viewVars
  <2>7. SentFits(sent[m])'
    <3>1. sent[m].read <= row.version /\ sent[m].read \in Nat /\ row.version \in Nat
      BY <1>1, VersionsAreNat DEF PageInv, SentFits, Request, PageAssumption
    <3>2. sent'[m].version <= row'.version
      BY <2>1, <2>4, <3>1
    <3> QED BY <1>1, <2>1, <2>4, <3>1, <3>2 DEF SentFits, KnowsOwner
  <2>8. \A n \in Mutations : SentFits(sent[n])'
    BY <1>3, <2>1, <2>7, SentEarlier
  <2> QED BY <1>2, <2>1, <2>6, <2>8, RowChanges
<1>5. CASE ~Accepts(sent[m].body)
  <2>1. row' = row /\ sent' = [sent EXCEPT ![m] = [sent[m] EXCEPT !.stage = "refused"]]
    BY <1>1, <1>5 DEF ServeRequest, PageInv, PageTypeOK, Request
  <2>2. [sent[m] EXCEPT !.stage = "refused"] \in Request
    BY <1>1 DEF Request
  <2>3. sent' \in [Mutations -> Request \cup {Absent}]
        /\ sent'[m] = [sent[m] EXCEPT !.stage = "refused"]
    BY <2>1, <2>2 DEF PageInv, PageTypeOK
  <2>4. PageTypeOK'
    BY <1>2, <2>1, <2>3 DEF PageInv, PageTypeOK, viewVars
  <2>5. \A n \in Mutations : SentFits(sent[n])'
    BY <1>1, <1>2, <1>3, <2>1, <2>3, SentStays
  <2>6. DialogFits' /\ ScreenTrails' /\ ReadingTrails' /\ OwnWorkIsShown'
    BY <1>2, <2>1, <2>4, DialogStays, ScreenStays, ReadingStays, VersionsAreNat
       DEF PageInv, OwnWorkIsShown
  <2> QED BY <1>2, <2>1, <2>4, <2>5, <2>6 DEF PageInv
<1> QED BY <1>4, <1>5

----------------------------------------------------------------------------
(* The answers.                                                             *)
LEMMA RereadAsks ==
  ASSUME PageInv
  PROVE  /\ Reread \in [stage: {"none", "asked", "answered"}, got: PageRow \cup {Absent},
                        again: BOOLEAN]
         /\ Reread.stage = "asked" \/ Reread.again
         /\ Reread.stage = "answered" => reading.stage = "answered" /\ Reread.got = reading.got
BY DEF PageInv, PageTypeOK, Reread, Asking

LEMMA SucceedKeeps ==
  ASSUME PageAssumption, PageInv, NEW m \in Mutations, Succeed(m)
  PROVE  PageInv'
<1> DEFINE done == IF place = "board" THEN {m} ELSE Settling
<1>1. sent[m] \in Request /\ sent[m] # Absent /\ sent[m].version <= row.version
  BY DEF PageInv, PageTypeOK, Succeed, SentFits
<1>2. UNCHANGED <<row, viewVars, screen>> /\ reading' = Reread /\ blind' = FALSE
  BY DEF Succeed
<1>3. acked' \in 0..MaxVersion /\ acked' <= row.version
  BY <1>1 DEF Succeed, PageInv, PageTypeOK, Request
<1>4. \A n \in Mutations :
        \/ sent'[n] \in {sent[n], Absent}
        \/ sent[n] # Absent /\ sent'[n] = [sent[n] EXCEPT !.stage = "settling"]
  BY <1>1 DEF Succeed
<1>5. [sent[m] EXCEPT !.stage = "settling"] \in Request
  BY <1>1 DEF Request
<1>6. sent' \in [Mutations -> Request \cup {Absent}]
  <2>1. sent' = [n \in Mutations |-> CASE n \in done -> Absent
                                       [] n \notin done /\ n = m -> [sent[m] EXCEPT !.stage = "settling"]
                                       [] OTHER -> sent[n]]
    BY DEF Succeed
  <2>2. \A n \in Mutations : sent[n] \in Request \cup {Absent}
    BY DEF PageInv, PageTypeOK
  <2> QED BY <1>5, <2>1, <2>2
<1>7. dialog' \in {dialog, Absent}
  BY DEF Succeed, AfterSuccessOf
<1>8. PageTypeOK'
  <2>1. dialog' \in [body: Body, read: 0..MaxVersion] \cup {Absent}
    BY <1>7 DEF PageInv, PageTypeOK
  <2>2. reading' \in [stage: {"none", "asked", "answered"}, got: PageRow \cup {Absent},
                      again: BOOLEAN]
    BY <1>2, RereadAsks
  <2> QED BY <1>2, <1>3, <1>6, <2>1, <2>2 DEF PageInv, PageTypeOK, viewVars
<1>9. DialogFits'
  BY <1>2, <1>7, <1>8, DialogStays, VersionsAreNat
<1>10. \A n \in Mutations : SentFits(sent[n])'
  BY <1>2, <1>4, SentStays
<1>11. ScreenTrails' /\ ReadingTrails' /\ OwnWorkIsShown'
  BY <1>2, ScreenStays, RereadAsks DEF PageInv, ReadingTrails, OwnWorkIsShown, viewVars
<1> QED BY <1>2, <1>3, <1>8, <1>9, <1>10, <1>11 DEF PageInv

LEMMA FailKeeps ==
  ASSUME PageAssumption, PageInv, NEW m \in Mutations, Fail(m)
  PROVE  PageInv'
<1>1. /\ UNCHANGED <<row, viewVars, screen, reading, dialog, acked, blind>>
      /\ sent' = [sent EXCEPT ![m] = Absent]
  BY DEF Fail
<1>2. PageTypeOK'
  BY <1>1 DEF PageInv, PageTypeOK, viewVars
<1>3. \A n \in Mutations : sent'[n] \in {sent[n], Absent}
  BY <1>1 DEF PageInv, PageTypeOK
<1>4. \A n \in Mutations : SentFits(sent[n])'
  BY <1>1, <1>3, SentStays
<1>5. DialogFits' /\ ScreenTrails' /\ ReadingTrails' /\ OwnWorkIsShown'
  BY <1>1, <1>2, DialogStays, ScreenStays, ReadingStays, VersionsAreNat
     DEF PageInv, OwnWorkIsShown
<1> QED BY <1>1, <1>2, <1>4, <1>5 DEF PageInv

LEMMA ReadingTyped ==
  ASSUME PageInv, CanAccessActionItem(visitor, row) \/ reading.stage # "asked"
  PROVE  /\ NotReading \in [stage: {"none", "asked", "answered"}, got: PageRow \cup {Absent},
                            again: BOOLEAN]
         /\ Asking \in [stage: {"none", "asked", "answered"}, got: PageRow \cup {Absent},
                        again: BOOLEAN]
         /\ [reading EXCEPT !.stage = "answered", !.got = row]
              \in [stage: {"none", "asked", "answered"}, got: PageRow \cup {Absent}, again: BOOLEAN]
BY DEF PageInv, PageTypeOK, NotReading, Asking

(* Reads that are begun or answered.                                        *)
LEMMA AskingKeeps ==
  ASSUME PageAssumption, PageInv, StartReading \/ ServeReading
  PROVE  PageInv'
<1>1. UNCHANGED <<row, viewVars, screen, dialog, sent, acked, blind>>
  BY DEF StartReading, ServeReading
<1>2. /\ reading' \in [stage: {"none", "asked", "answered"}, got: PageRow \cup {Absent},
                       again: BOOLEAN]
      /\ \/ reading'.stage = "asked"
         \/ /\ reading'.stage = "answered" /\ reading'.got = row
            /\ CanAccessActionItem(visitor, row)
  <2>1. CASE StartReading
    BY <2>1, ReadingTyped DEF StartReading, Asking, NotReading
  <2>2. CASE ServeReading
    BY <2>2, ReadingTyped DEF ServeReading, PageInv, PageTypeOK
  <2> QED BY <2>1, <2>2
<1>3. PageTypeOK'
  BY <1>1, <1>2 DEF PageInv, PageTypeOK, viewVars
<1>4. /\ row \in PageRow /\ screen.version <= row.version /\ acked <= row.version
      /\ row.version <= row.version
  BY VersionsAreNat DEF PageInv, PageTypeOK
<1>5. ReadingTrails' /\ OwnWorkIsShown'
  BY <1>1, <1>2, <1>4 DEF ReadingTrails, OwnWorkIsShown, viewVars
<1>6. \A n \in Mutations : SentFits(sent[n])'
  BY <1>1, SentStays
<1>7. DialogFits' /\ ScreenTrails'
  BY <1>1, <1>3, DialogStays, ScreenStays, VersionsAreNat
<1> QED BY <1>1, <1>3, <1>4, <1>5, <1>6, <1>7 DEF PageInv

LEMMA ReadingEnds ==
  ASSUME PageAssumption, PageInv, EndReading
  PROVE  /\ UNCHANGED <<row, viewVars, acked>>
         /\ reading' \in {Asking, NotReading} /\ (reading.again => reading' = Asking)
         /\ reading' \in [stage: {"none", "asked", "answered"}, got: PageRow \cup {Absent},
                          again: BOOLEAN]
         /\ sent' \in [Mutations -> Request \cup {Absent}]
         /\ \A n \in Mutations : SentFits(sent[n])'
<1>1. UNCHANGED <<row, viewVars, acked>>
  BY DEF EndReading
<1>2. reading' \in {Asking, NotReading} /\ (reading.again => reading' = Asking)
  BY DEF EndReading
<1>3. reading' \in [stage: {"none", "asked", "answered"}, got: PageRow \cup {Absent},
                    again: BOOLEAN]
  <2> DEFINE Reads == [stage: {"none", "asked", "answered"}, got: PageRow \cup {Absent},
                       again: BOOLEAN]
  <2>1. NotReading \in Reads
    BY DEF NotReading
  <2>2. Asking \in Reads
    BY DEF Asking
  <2> QED BY <1>2, <2>1, <2>2
<1>4. sent' \in [Mutations -> Request \cup {Absent}]
  BY DEF EndReading, PageInv, PageTypeOK
<1>5. \A n \in Mutations : sent'[n] \in {sent[n], Absent}
  BY DEF EndReading
<1>6. \A n \in Mutations : SentFits(sent[n])'
  BY <1>1, <1>5, SentStays
<1> QED BY <1>1, <1>2, <1>3, <1>4, <1>6

LEMMA LandKeeps ==
  ASSUME PageAssumption, PageInv, Land
  PROVE  PageInv'
<1> DEFINE got == reading.got
           open == AfterSuccessOf(Settling)
<1>1. /\ got \in PageRow /\ CanAccessActionItem(visitor, got)
      /\ screen.version <= got.version /\ got.version <= row.version
      /\ got.version = row.version => got = row
      /\ got.version >= acked \/ reading.again
  BY DEF Land, PageInv, ReadingTrails
<1>2. screen' = got /\ blind' = FALSE /\ EndReading
  BY DEF Land
<1>3. /\ UNCHANGED <<row, viewVars, acked>>
      /\ reading' \in {Asking, NotReading} /\ (reading.again => reading' = Asking)
      /\ reading' \in [stage: {"none", "asked", "answered"}, got: PageRow \cup {Absent},
                       again: BOOLEAN]
      /\ sent' \in [Mutations -> Request \cup {Absent}]
      /\ \A n \in Mutations : SentFits(sent[n])'
  BY <1>2, ReadingEnds
<1>4. open \in {dialog, Absent}
  BY DEF AfterSuccessOf
<1>5. ASSUME dialog' = open
      PROVE  PageTypeOK' /\ DialogFits'
  <2>1. dialog' \in [body: Body, read: 0..MaxVersion] \cup {Absent}
    BY <1>4, <1>5 DEF PageInv, PageTypeOK
  <2>2. PageTypeOK'
    BY <1>1, <1>2, <1>3, <2>1 DEF PageInv, PageTypeOK, viewVars
  <2>3. DialogFits'
    BY <1>1, <1>2, <1>3, <1>4, <1>5, <2>2, DialogStays
  <2> QED BY <2>2, <2>3
<1>6. ASSUME dialog' # open
      PROVE  PageTypeOK' /\ DialogFits'
  <2>1. /\ open # Absent /\ open.body.kind = "hand"
        /\ dialog' = [open EXCEPT !.body.owner = got.owner]
    BY <1>2, <1>6 DEF Land
  <2>2. open = dialog /\ dialog \in [body: Body, read: 0..MaxVersion]
    BY <1>4, <2>1 DEF PageInv, PageTypeOK
  <2>3. dialog' = [dialog EXCEPT !.body = [dialog.body EXCEPT !.owner = got.owner]]
    BY <2>1, <2>2 DEF Body
  <2>4. got.owner \in Owners /\ got.version \in Nat
    BY <1>1 DEF PageRow, PageAssumption
  <2>5. /\ dialog' \in [body: Body, read: 0..MaxVersion]
        /\ dialog'.body.owner = got.owner /\ dialog'.read = dialog.read
        /\ dialog'.body.kind = "hand" /\ dialog.body.kind = "hand"
    BY <2>1, <2>2, <2>3, <2>4 DEF Body
  <2>6. PageTypeOK'
    BY <1>1, <1>2, <1>3, <2>5 DEF PageInv, PageTypeOK, viewVars
  <2>7. ASSUME dialog'.read = row'.version
        PROVE  Stands(AboutRow(dialog.body))'
    <3>1. Stands(AboutRow(dialog.body))
      BY <1>3, <2>1, <2>2, <2>5, <2>7 DEF PageInv, DialogFits
    <3>2. AboutRow(dialog.body) = dialog.body /\ MutationOf(dialog'.body.kind) # "review"
      BY <2>5 DEF AboutRow, MutationOf
    <3>3. Orphaned(row) \/ CanUpdateActionItem(visitor, row)
      BY <2>5, <3>1, <3>2 DEF Stands
    <3> QED BY <1>3, <2>5, <3>2, <3>3 DEF Stands, AboutRow, Orphaned, viewVars
  <2>8. dialog.read \in Nat /\ dialog.read <= screen.version
    BY <2>1, <2>2 DEF PageInv, DialogFits, PageAssumption
  <2>9. dialog'.read <= screen'.version
    BY <1>1, <1>2, <2>4, <2>5, <2>8, VersionsAreNat
  <2>10. DialogFits'
    BY <2>4, <2>5, <2>7, <2>9 DEF DialogFits, KnowsOwner
  <2> QED BY <2>6, <2>10
<1>7. PageTypeOK' /\ DialogFits'
  BY <1>5, <1>6
<1>8. ScreenTrails' /\ ReadingTrails'
  BY <1>1, <1>2, <1>3 DEF ScreenTrails, ReadingTrails, Asking, NotReading, viewVars
<1>9. OwnWorkIsShown'
  <2>1. got.version \in Nat
    BY <1>1 DEF PageRow, PageAssumption
  <2> QED BY <1>1, <1>2, <1>3, <2>1, VersionsAreNat DEF OwnWorkIsShown, Asking
<1>10. acked' <= row'.version
  BY <1>3 DEF PageInv
<1> QED BY <1>3, <1>7, <1>8, <1>9, <1>10 DEF PageInv

LEMMA LoseReadingKeeps ==
  ASSUME PageAssumption, PageInv, LoseReading
  PROVE  PageInv'
<1>1. UNCHANGED screen /\ blind' = TRUE /\ EndReading
  BY DEF LoseReading
<1>2. /\ UNCHANGED <<row, viewVars, acked>>
      /\ reading' \in {Asking, NotReading}
      /\ reading' \in [stage: {"none", "asked", "answered"}, got: PageRow \cup {Absent},
                       again: BOOLEAN]
      /\ sent' \in [Mutations -> Request \cup {Absent}]
      /\ \A n \in Mutations : SentFits(sent[n])'
  BY <1>1, ReadingEnds
<1>3. dialog' \in {dialog, Absent}
  BY DEF LoseReading, AfterSuccessOf
<1>4. PageTypeOK'
  BY <1>1, <1>2, <1>3 DEF PageInv, PageTypeOK, viewVars
<1>5. DialogFits' /\ ScreenTrails'
  BY <1>1, <1>2, <1>3, <1>4, DialogStays, ScreenStays, VersionsAreNat
<1>6. ReadingTrails' /\ OwnWorkIsShown'
  BY <1>1, <1>2 DEF ReadingTrails, OwnWorkIsShown, Asking, NotReading
<1>7. acked' <= row'.version
  BY <1>2 DEF PageInv
<1> QED BY <1>2, <1>4, <1>5, <1>6, <1>7 DEF PageInv

----------------------------------------------------------------------------
LEMMA PageStep ==
  ASSUME PageAssumption, PageInv, [PageNext]_pageVars
  PROVE  PageInv'
<1>1. CASE UNCHANGED pageVars
  <2>1. PageTypeOK'
    BY <1>1 DEF PageInv, PageTypeOK, pageVars
  <2>2. UNCHANGED <<row, viewVars, screen, reading, dialog, sent, acked, blind>>
    BY <1>1 DEF pageVars, viewVars
  <2>3. /\ DialogFits' /\ ScreenTrails' /\ ReadingTrails' /\ OwnWorkIsShown'
        /\ \A m \in Mutations : SentFits(sent[m])'
    BY <2>1, <2>2, DialogStays, ScreenStays, ReadingStays, SentStays, VersionsAreNat
       DEF PageInv, OwnWorkIsShown
  <2> QED BY <2>1, <2>2, <2>3 DEF PageInv
<1>2. ASSUME NEW m \in Mutations, ServeRequest(m) \/ Succeed(m) \/ Fail(m)
      PROVE  PageInv'
  BY <1>2, ServeRequestKeeps, SucceedKeeps, FailKeeps
<1> QED BY <1>1, <1>2, ColleagueKeeps, DialogKeeps, ConfirmKeeps, AskingKeeps, LandKeeps,
           LoseReadingKeeps DEF PageNext

LEMMA PageAlways == PageSpec => []PageInv
<1>1. PageInit => PageInv
  BY PageAssumption, PageStarts
<1>2. PageInv /\ [PageNext]_pageVars => PageInv'
  BY PageAssumption, PageStep
<1> QED BY <1>1, <1>2, PTL DEF PageSpec

(* The page keeps its types.                                                *)
THEOREM PageTypesHold == PageSpec => []PageTypeOK
<1>1. PageInv => PageTypeOK
  BY DEF PageInv
<1> QED BY <1>1, PageAlways, PTL

(* An acknowledged change is on screen, on its way, or its read failed.     *)
THEOREM OwnWorkIsAlwaysShown == PageSpec => []OwnWorkIsShown
<1>1. PageInv => OwnWorkIsShown
  BY DEF PageInv
<1> QED BY <1>1, PageAlways, PTL

(* What the API makes of a request leaves the task in the visitor's reach,  *)
(* unless it gives it to somebody else.                                     *)
LEMMA ReachStays ==
  ASSUME PageAssumption, PageInv, NEW b \in Body, ~HandsOver(b), CanAccessActionItem(visitor, row)
  PROVE  CanAccessActionItem(visitor, Outcome(b))
<1>1. row \in PageRow /\ b.kind \in Kinds
  BY DEF PageInv, PageTypeOK, Body
<1>2. /\ Outcome(b).owner = row.owner /\ Outcome(b).collaborators = row.collaborators
      /\ Outcome(b).area = row.area
  BY <1>1 DEF Outcome, Moved, Handed, Changed, ProposedFor, Reviewed, PageRow, HandsOver, Kinds
<1> HIDE DEF Outcome
<1> QED BY <1>2 DEF CanAccessActionItem

(* A request sent from a screen that was current, for a task nobody         *)
(* touched since, is refused only where the code is known to.               *)
LEMMA FreshStand ==
  ASSUME PageAssumption, PageInv, [PageNext]_pageVars, NEW m \in Mutations,
         sent[m] # Absent, sent[m].stage = "travelling", row.version = sent[m].read,
         sent'[m] # Absent, sent'[m].stage = "refused"
  PROVE  Orphaned(row) \/ HandsOver(sent[m].body)
<1>1. sent[m] \in Request /\ sent[m].body \in Body
  BY DEF PageInv, PageTypeOK, Request
<1>2. ServeRequest(m)
  <2>1. sent'[m] # sent[m]
    OBVIOUS
  <2>2. ~UNCHANGED sent
    BY <2>1
  <2>3. ~Confirm
    BY <1>1, <2>1 DEF Confirm, PageInv, PageTypeOK
  <2>4. \A n \in Mutations : ~Succeed(n)
    BY <1>1 DEF Succeed
  <2>5. ~Land /\ ~LoseReading
    BY <2>1 DEF Land, LoseReading, EndReading
  <2>6. \A n \in Mutations : Fail(n) => FALSE
    BY <2>1 DEF Fail, PageInv, PageTypeOK
  <2>7. \A n \in Mutations \ {m} : ~ServeRequest(n)
    BY <2>1 DEF ServeRequest, PageInv, PageTypeOK
  <2> QED BY <2>2, <2>3, <2>4, <2>5, <2>6, <2>7
          DEF PageNext, pageVars, ColleagueActs, OpenDialog, PickOwner, DismissDialog,
              StartReading, ServeReading
<1>3. Stands(sent[m].body)
  BY DEF PageInv, SentFits
<1>4. ASSUME ~Orphaned(row), ~HandsOver(sent[m].body)
      PROVE  FALSE
  <2> DEFINE b == sent[m].body
  <2>1. Accepts(b)
    <3>1. CASE b.kind \in {"hand", "edit"}
      BY <1>3, <1>4, <3>1 DEF Stands, Accepts, Reassigns, HandsOver
    <3>2. CASE b.kind \notin {"hand", "edit"}
      BY <1>3, <1>4, <3>2 DEF Stands
    <3> QED BY <3>1, <3>2
  <2>2. CanAccessActionItem(visitor, row)
    BY <2>1 DEF Accepts, CanUpdateActionItem, CanApproveCompletion
  <2>3. CanAccessActionItem(visitor, Outcome(b))
    BY <1>1, <1>4, <2>2, ReachStays
  <2>4. row' = Outcome(b)
    BY <1>2, <2>1 DEF ServeRequest
  <2>5. sent' = [sent EXCEPT ![m] = [sent[m] EXCEPT !.version = row'.version, !.stage = "accepted"]]
    <3>1. CanAccessActionItem(visitor, row')
      BY <2>3, <2>4
    <3> QED BY <1>1, <1>2, <2>1, <3>1 DEF ServeRequest, PageInv, PageTypeOK, Request
  <2>6. sent'[m].stage = "accepted"
    BY <1>1, <2>5 DEF PageInv, PageTypeOK, Request
  <2> QED BY <2>6
<1> QED BY <1>4

(* What was offered for a task nobody changed since is not refused.         *)
THEOREM FreshOffersAlwaysStand == PageSpec => FreshOffersStand
<1>1. PageInv /\ [PageNext]_pageVars =>
        [\A m \in Mutations :
           sent[m] # Absent /\ sent[m].stage = "travelling"
             /\ sent'[m] # Absent /\ sent'[m].stage = "refused" =>
           \/ row.version # sent[m].read
           \/ Orphaned(row)
           \/ HandsOver(sent[m].body)]_pageVars
  BY PageAssumption, FreshStand
<1> QED BY <1>1, PageAlways, PTL DEF PageSpec, FreshOffersStand

----------------------------------------------------------------------------
(* The inbox of the AI.                                                     *)

(* Only the settings are not about a finding, and only their fields are     *)
(* settings; the page of a meeting shows those of the meeting.              *)
FormFits ==
  form # Nobody =>
    /\ form.answer = "settings" => form.about = Nobody /\ form.entry \in Settings
    /\ form.answer # "settings" => form.about \in Findings /\ form.entry \in Findings \cup {Typed}

RequestFits(w) == w.answer = "settings" => w.sets \in Settings

PageFits(d) == d.at.screen = "meeting" => d.settings \in Settings

DeskInv ==
  /\ DeskTypeOK /\ DecisionsAreMeant
  /\ FormFits /\ \A w \in waiting : RequestFits(w)
  /\ PageFits(desk)
  /\ refresh.stage = "rendered" => PageFits(refresh.got)

----------------------------------------------------------------------------
(* The arithmetic of pages.                                                 *)
LEMMA PageLength ==
  ASSUME NEW p \in Nat \ {0}, NEW d \in Nat \ {0}
  PROVE  p * d \in Nat /\ (p - 1) * d \in Nat /\ p * d = (p - 1) * d + d
<1>1. p * d \in Nat /\ (p - 1) * d \in Nat
  OBVIOUS
<1>2. p * d = (p - 1) * d + d
  OBVIOUS
<1> QED BY <1>1, <1>2

(* A page holds as many cards as fit.                                       *)
LEMMA RendersAPage ==
  ASSUME DeskAssumption, pending \in Seq(Findings), settings \in Settings,
         NEW at \in Addresses
  PROVE  /\ Render(at) \in DeskPage /\ Len(Render(at).cards) <= DeskSize
         /\ PageFits(Render(at)) /\ Render(at).at = at
<1> DEFINE first == (at.page - 1) * DeskSize + 1
           last == EndOf(at.page)
           cards == SubSeq(pending, first, last)
<1>1. at.page \in Nat \ {0} /\ DeskSize \in Nat \ {0} /\ Len(pending) \in Nat
  BY DEF Addresses, DeskAssumption
<1>2. at.page * DeskSize \in Nat /\ (at.page - 1) * DeskSize \in Nat
      /\ at.page * DeskSize = (at.page - 1) * DeskSize + DeskSize
  BY <1>1, PageLength
<1>3. first \in Int /\ last \in Int /\ first >= 1 /\ last <= Len(pending)
      /\ last - first + 1 <= DeskSize
  <2> DEFINE before == (at.page - 1) * DeskSize
             after == at.page * DeskSize
  <2>1. before \in Nat /\ after \in Nat /\ after = before + DeskSize
    BY <1>2
  <2>2. last = IF after < Len(pending) THEN after ELSE Len(pending)
    BY DEF EndOf
  <2> HIDE DEF before, after
  <2>3. first = before + 1
    BY DEF before
  <2> QED BY <1>1, <2>1, <2>2, <2>3
<1>4. \A i \in first..last : pending[i] \in Findings
  BY <1>1, <1>3
<1> HIDE DEF first, last
<1>5. /\ cards \in Seq(Findings)
      /\ Len(cards) = IF first <= last THEN last - first + 1 ELSE 0
  BY <1>3, <1>4, SubSeqProperties
<1>6. Len(cards) <= DeskSize
  BY <1>1, <1>3, <1>5
<1> HIDE DEF cards
<1>7. << >> \in Seq(Findings) /\ Len(<< >>) = 0
  OBVIOUS
<1>8. Render(at) = [at |-> at, settings |-> IF at.screen = "meeting" THEN settings ELSE Nobody,
                    cards |-> IF at.screen = "meeting" THEN << >> ELSE cards]
  BY DEF Render, cards, first, last
<1> QED BY <1>1, <1>5, <1>6, <1>7, <1>8 DEF DeskPage, PageFits

(* Answering an item leaves the others in their order.                      *)
LEMMA AnsweredLeaves ==
  ASSUME pending \in Seq(Findings), IsInjective(pending), NEW f \in ToSet(pending)
  PROVE  Answered(f) \in Seq(Findings) /\ IsInjective(Answered(f))
<1> DEFINE spot == CHOOSE i \in DOMAIN pending : pending[i] = f
           rest == [i \in 1..(Len(pending) - 1) |->
                      IF i < spot THEN pending[i] ELSE pending[i + 1]]
<1>1. Answered(f) = rest
  BY DEF Answered
<1>2. \E i \in DOMAIN pending : pending[i] = f
  BY DEF ToSet
<1>3. spot \in DOMAIN pending
  BY <1>2
<1>4. spot \in 1..Len(pending) /\ Len(pending) \in Nat /\ DOMAIN pending = 1..Len(pending)
  BY <1>3
<1> HIDE DEF spot
<1>5. \A i \in 1..(Len(pending) - 1) : rest[i] \in Findings
  BY <1>4
<1>6. rest \in Seq(Findings)
  <2>1. Len(pending) - 1 \in Nat
    BY <1>4
  <2> QED BY <1>5, <2>1, SMT
<1>7. IsInjective(rest)
  BY <1>4 DEF IsInjective
<1> QED BY <1>1, <1>6, <1>7

LEMMA DeskStarts ==
  ASSUME DeskAssumption, DeskInit
  PROVE  DeskInv
<1>1. FirstPage \in Addresses
  BY DEF FirstPage, Addresses
<1>2. pending \in Seq(Findings) /\ IsInjective(pending) /\ settings \in Settings
  BY DEF DeskAssumption, DeskInit, Settings
<1>3. desk \in DeskPage /\ Len(desk.cards) <= DeskSize /\ PageFits(desk)
  BY <1>1, <1>2, RendersAPage DEF DeskInit
<1>4. refresh.stage = "none"
      /\ refresh \in [stage: {"none", "asked", "rendered"}, got: DeskPage \cup {Nobody},
                      again: BOOLEAN]
  BY DEF DeskInit, NoRender
<1>5. stirs \in 0..MaxStirs
  BY DEF DeskInit, DeskAssumption
<1>6. address = FirstPage /\ form = Nobody /\ waiting = {}
  BY DEF DeskInit
<1> QED BY <1>1, <1>2, <1>3, <1>4, <1>5, <1>6
        DEF DeskInv, DeskTypeOK, DecisionsAreMeant, FormFits

(* What others do is not seen before the next render.                       *)
LEMMA OthersDecide ==
  ASSUME DeskAssumption, DeskInv,
         pending' \in Seq(Findings), IsInjective(pending'), settings' \in Settings,
         stirs' \in 0..MaxStirs, UNCHANGED <<address, desk, refresh, form>>,
         waiting' \subseteq DeskRequest,
         \A w \in waiting' : w.about = w.meant /\ RequestFits(w)
  PROVE  DeskInv'
<1>1. DeskTypeOK'
  BY DEF DeskInv, DeskTypeOK
<1>2. DecisionsAreMeant'
  BY DEF DeskInv, DecisionsAreMeant
<1> QED BY <1>1, <1>2 DEF DeskInv, FormFits, RequestFits

LEMMA ElsewhereKeeps ==
  ASSUME DeskAssumption, DeskInv, Elsewhere
  PROVE  DeskInv'
<1>1. pending \in Seq(Findings) /\ IsInjective(pending) /\ settings \in Settings
  BY DEF DeskInv, DeskTypeOK
<1>2. pending' \in Seq(Findings) /\ IsInjective(pending') /\ settings' \in Settings
  <2>1. ASSUME NEW f \in Findings \ (ToSet(Filed) \cup ToSet(pending)),
               pending' = Append(pending, f)
        PROVE  pending' \in Seq(Findings) /\ IsInjective(pending')
    <3>1. /\ pending' \in Seq(Findings) /\ Len(pending') = Len(pending) + 1
          /\ \A i \in 1..Len(pending) : pending'[i] = pending[i]
          /\ pending'[Len(pending) + 1] = f
      BY <1>1, <2>1, AppendProperties
    <3>2. DOMAIN pending = 1..Len(pending) /\ Len(pending) \in Nat
          /\ DOMAIN pending' = 1..(Len(pending) + 1)
      BY <1>1, <3>1
    <3>3. \A i \in 1..Len(pending) : pending[i] # f
      BY <2>1, <3>2 DEF ToSet
    <3> QED BY <1>1, <3>1, <3>2, <3>3 DEF IsInjective
  <2>2. ASSUME NEW f \in ToSet(pending), pending' = Answered(f)
        PROVE  pending' \in Seq(Findings) /\ IsInjective(pending')
    BY <1>1, <2>2, AnsweredLeaves
  <2> QED BY <1>1, <2>1, <2>2 DEF Elsewhere
<1>3. stirs' \in 0..MaxStirs
  BY DEF Elsewhere, DeskInv, DeskTypeOK, DeskAssumption
<1>4. UNCHANGED <<address, desk, refresh, form, waiting>>
  BY DEF Elsewhere
<1>5. waiting \subseteq DeskRequest /\ \A w \in waiting : w.about = w.meant /\ RequestFits(w)
  BY DEF DeskInv, DeskTypeOK, DecisionsAreMeant
<1> QED BY <1>2, <1>3, <1>4, <1>5, OthersDecide

(* A dialog that is about what it was opened for.                           *)
FormHolds(d) ==
  form # Nobody =>
    /\ form \in DeskForm /\ form.about = form.meant
    /\ form.about # Nobody => IsShown(form.about, d)
    /\ ~form.entered => form.entry = Filled(form.answer, form.about, d.settings)

(* What happens in the browser leaves the database alone.                   *)
LEMMA BrowserMoves ==
  ASSUME DeskAssumption, DeskInv, UNCHANGED <<pending, settings, stirs>>,
         address' \in Addresses,
         desk' \in DeskPage, Len(desk'.cards) <= DeskSize, PageFits(desk'),
         refresh' \in [stage: {"none", "asked", "rendered"}, got: DeskPage \cup {Nobody},
                       again: BOOLEAN],
         refresh'.stage = "rendered" =>
           /\ refresh'.got \in DeskPage /\ Len(refresh'.got.cards) <= DeskSize
           /\ PageFits(refresh'.got),
         FormHolds(desk)', FormFits',
         waiting' \subseteq DeskRequest,
         \A w \in waiting' : w.about = w.meant /\ RequestFits(w)
  PROVE  DeskInv'
<1>1. DeskTypeOK'
  BY DEF DeskInv, DeskTypeOK, FormHolds
<1>2. DecisionsAreMeant'
  BY DEF DecisionsAreMeant, FormHolds
<1> QED BY <1>1, <1>2 DEF DeskInv, RequestFits, PageFits

(* The parts of the inductive invariant, one by one.                        *)
LEMMA DeskFacts ==
  ASSUME DeskInv
  PROVE  /\ address \in Addresses /\ desk \in DeskPage /\ Len(desk.cards) <= DeskSize
         /\ PageFits(desk)
         /\ refresh \in [stage: {"none", "asked", "rendered"}, got: DeskPage \cup {Nobody},
                         again: BOOLEAN]
         /\ refresh.stage = "rendered" =>
              /\ refresh.got \in DeskPage /\ Len(refresh.got.cards) <= DeskSize
              /\ PageFits(refresh.got)
         /\ FormHolds(desk) /\ FormFits
         /\ waiting \subseteq DeskRequest
         /\ \A w \in waiting : w.about = w.meant /\ RequestFits(w)
<1>1. FormHolds(desk)
  BY DEF DeskInv, DeskTypeOK, DecisionsAreMeant, FormHolds
<1>2. \A w \in waiting : w.about = w.meant /\ RequestFits(w)
  BY DEF DeskInv, DecisionsAreMeant
<1>3. refresh.stage = "rendered" =>
        /\ refresh.got \in DeskPage /\ Len(refresh.got.cards) <= DeskSize
        /\ PageFits(refresh.got)
  BY DEF DeskInv, DeskTypeOK
<1> QED BY <1>1, <1>2, <1>3 DEF DeskInv, DeskTypeOK

(* A step of the dialogs and requests alone keeps the invariant if dialogs  *)
(* still fit.                                                               *)
LEMMA FormMoves ==
  ASSUME DeskAssumption, DeskInv, UNCHANGED <<pending, settings, address, desk, refresh, stirs>>,
         FormHolds(desk)', FormFits', waiting' \subseteq DeskRequest,
         \A w \in waiting' : w.about = w.meant /\ RequestFits(w)
  PROVE  DeskInv'
<1>1. PageFits(desk') /\ (refresh'.stage = "rendered" => PageFits(refresh'.got))
  BY DeskFacts
<1> QED BY <1>1, DeskFacts, BrowserMoves

LEMMA OpenFormKeeps ==
  ASSUME DeskAssumption, DeskInv, NEW a \in Answers, NEW f \in Findings \cup {Nobody},
         OpenForm(a, f)
  PROVE  DeskInv'
<1> DEFINE opened == [answer |-> a, about |-> f, meant |-> f, entered |-> FALSE,
                      entry |-> Filled(a, f, desk.settings)]
<1>1. form' = opened /\ UNCHANGED <<pending, settings, address, desk, refresh, waiting, stirs>>
  BY DEF OpenForm
<1>2. a = "settings" => f = Nobody /\ desk.settings \in Settings
  BY DeskFacts DEF OpenForm, PageFits
<1>3. a # "settings" => f \in Findings /\ IsShown(f, desk)
  <2>1. SUFFICES ASSUME a # "settings"
                 PROVE  f \in Findings /\ IsShown(f, desk)
    OBVIOUS
  <2>2. IsShown(f, desk) /\ desk.cards \in Seq(Findings)
    BY <2>1, DeskFacts DEF OpenForm, DeskPage
  <2> QED BY <2>2 DEF IsShown, ToSet
<1>4. f # Nobody => IsShown(f, desk)
  BY <1>2, <1>3
<1>5. Filled(a, f, desk.settings) \in Entries
      /\ (a = "settings" => Filled(a, f, desk.settings) \in Settings)
      /\ (a # "settings" => Filled(a, f, desk.settings) \in Findings)
  BY <1>2, <1>3 DEF Filled, Entries
<1>6. opened \in DeskForm
  BY <1>5 DEF DeskForm
<1>7. FormFits'
  BY <1>1, <1>2, <1>3, <1>5 DEF FormFits
<1>8. FormHolds(desk)'
  BY <1>1, <1>4, <1>6 DEF FormHolds
<1> QED BY <1>1, <1>7, <1>8, DeskFacts, FormMoves

LEMMA EnterKeeps ==
  ASSUME DeskAssumption, DeskInv, Enter
  PROVE  DeskInv'
<1>1. PICK e \in IF form.answer = "settings" THEN Settings \ {form.entry} ELSE {Typed} :
        form' = [form EXCEPT !.entry = e, !.entered = TRUE]
  BY DEF Enter
<1>2. form # Nobody /\ form \in DeskForm /\ form.about = form.meant
      /\ (form.about # Nobody => IsShown(form.about, desk))
  BY DeskFacts DEF Enter, FormHolds
<1>3. e \in Entries
  BY <1>1 DEF Entries
<1>4. form' \in DeskForm /\ form'.about = form.about /\ form'.meant = form.meant
      /\ form'.entered /\ form'.answer = form.answer /\ form'.entry = e
  BY <1>1, <1>2, <1>3 DEF DeskForm
<1>5. UNCHANGED <<pending, settings, address, desk, refresh, waiting, stirs>>
  BY DEF Enter
<1>6. FormFits'
  BY <1>1, <1>2, <1>4, DeskFacts DEF FormFits
<1>7. FormHolds(desk)'
  BY <1>2, <1>4, <1>5 DEF FormHolds
<1> QED BY <1>5, <1>6, <1>7, DeskFacts, FormMoves

LEMMA DismissKeeps ==
  ASSUME DeskAssumption, DeskInv, DismissForm
  PROVE  DeskInv'
<1>1. form' = Nobody /\ UNCHANGED <<pending, settings, address, desk, refresh, waiting, stirs>>
  BY DEF DismissForm
<1>2. FormFits' /\ FormHolds(desk)'
  BY <1>1 DEF FormFits, FormHolds
<1> QED BY <1>1, <1>2, DeskFacts, FormMoves

LEMMA SubmitKeeps ==
  ASSUME DeskAssumption, DeskInv, SubmitForm
  PROVE  DeskInv'
<1> DEFINE request ==
       [answer |-> form.answer, about |-> form.about, meant |-> form.meant,
        sets |-> IF form.answer = "settings" THEN form.entry ELSE Nobody,
        stage |-> "travelling", mounted |-> TRUE]
<1>1. waiting' = waiting \cup {request}
      /\ UNCHANGED <<pending, settings, address, desk, refresh, form, stirs>>
  BY DEF SubmitForm
<1>2. form # Nobody /\ form \in DeskForm /\ form.about = form.meant
      /\ (form.answer = "settings" => form.entry \in Settings)
  BY DeskFacts DEF SubmitForm, FormHolds, FormFits
<1>3. request \in DeskRequest
  BY <1>2 DEF DeskRequest, DeskForm
<1>4. request.about = request.meant /\ RequestFits(request)
  BY <1>2 DEF RequestFits
<1> HIDE DEF request
<1>5. waiting' \subseteq DeskRequest /\ \A w \in waiting' : w.about = w.meant /\ RequestFits(w)
  BY <1>1, <1>3, <1>4, DeskFacts
<1>6. FormFits' /\ FormHolds(desk)'
  BY <1>1, DeskFacts DEF FormFits, FormHolds
<1> QED BY <1>1, <1>5, <1>6, FormMoves

LEMMA NavigateKeeps ==
  ASSUME DeskAssumption, DeskInv, NEW to \in Links, Navigate(to)
  PROVE  DeskInv'
<1>1. address' = to /\ refresh' = Rendering /\ form = Nobody
      /\ UNCHANGED <<pending, settings, desk, form, waiting, stirs>>
  BY DEF Navigate
<1>2. to \in Addresses
  BY DEF DeskAssumption, Addresses
<1>3. refresh'.stage = "asked"
      /\ refresh' \in [stage: {"none", "asked", "rendered"}, got: DeskPage \cup {Nobody},
                       again: BOOLEAN]
  BY <1>1 DEF Rendering, NoRender
<1>4. FormFits' /\ FormHolds(desk)' /\ PageFits(desk')
  BY <1>1, DeskFacts DEF FormFits, FormHolds
<1> QED BY <1>1, <1>2, <1>3, <1>4, DeskFacts, BrowserMoves

LEMMA ServeDecisionKeeps ==
  ASSUME DeskAssumption, DeskInv, NEW w \in waiting, ServeDecision(w)
  PROVE  DeskInv'
<1> DEFINE answered(stage) == waiting' = (waiting \ {w}) \cup {[w EXCEPT !.stage = stage]}
<1>1. w \in DeskRequest /\ w.about = w.meant /\ RequestFits(w)
  BY DeskFacts
<1>2. pending \in Seq(Findings) /\ IsInjective(pending) /\ settings \in Settings
      /\ stirs \in 0..MaxStirs
  BY DEF DeskInv, DeskTypeOK
<1>3. UNCHANGED <<address, desk, refresh, form, stirs>>
  BY DEF ServeDecision
<1>4. /\ answered("done") \/ answered("refused")
      /\ pending' \in Seq(Findings) /\ IsInjective(pending') /\ settings' \in Settings
  <2>1. CASE w.answer = "settings"
    BY <1>1, <1>2, <2>1 DEF ServeDecision, RequestFits
  <2>2. CASE w.answer # "settings" /\ w.about \in ToSet(pending)
    BY <1>2, <2>2, AnsweredLeaves DEF ServeDecision
  <2>3. CASE w.answer # "settings" /\ w.about \notin ToSet(pending)
    BY <1>2, <2>3 DEF ServeDecision
  <2> QED BY <2>1, <2>2, <2>3
<1>5. waiting' \subseteq DeskRequest /\ \A v \in waiting' : v.about = v.meant /\ RequestFits(v)
  <2>1. ASSUME NEW stage \in {"done", "refused"}
        PROVE  LET v == [w EXCEPT !.stage = stage] IN
               v \in DeskRequest /\ v.about = v.meant /\ RequestFits(v)
    BY <1>1 DEF DeskRequest, RequestFits
  <2> QED BY <1>4, <2>1, DeskFacts
<1> QED BY <1>2, <1>3, <1>4, <1>5, OthersDecide

LEMMA ServeRenderKeeps ==
  ASSUME DeskAssumption, DeskInv, ServeRender
  PROVE  DeskInv'
<1>1. UNCHANGED <<pending, settings, address, desk, form, waiting, stirs>>
      /\ refresh' = [refresh EXCEPT !.stage = "rendered", !.got = Render(address)]
  BY DEF ServeRender
<1>2. Render(address) \in DeskPage /\ Len(Render(address).cards) <= DeskSize
      /\ PageFits(Render(address))
  <2>1. pending \in Seq(Findings) /\ settings \in Settings /\ address \in Addresses
    BY DEF DeskInv, DeskTypeOK
  <2> QED BY <2>1, RendersAPage
<1>3. refresh'.got = Render(address)
      /\ refresh' \in [stage: {"none", "asked", "rendered"}, got: DeskPage \cup {Nobody},
                       again: BOOLEAN]
  BY <1>1, <1>2, DeskFacts
<1>4. FormFits' /\ FormHolds(desk)' /\ PageFits(desk')
  BY <1>1, DeskFacts DEF FormFits, FormHolds
<1> QED BY <1>1, <1>2, <1>3, <1>4, DeskFacts, BrowserMoves

LEMMA DecisionMadeKeeps ==
  ASSUME DeskAssumption, DeskInv, NEW w \in waiting, DecisionMade(w)
  PROVE  DeskInv'
<1>1. waiting' = waiting \ {w} /\ UNCHANGED <<pending, settings, address, desk, stirs>>
  BY DEF DecisionMade
<1>2. form' = Nobody \/ form' = form
  BY DEF DecisionMade
<1>3. FormFits' /\ FormHolds(desk)' /\ PageFits(desk')
  BY <1>1, <1>2, DeskFacts DEF FormFits, FormHolds
<1>4. /\ refresh' \in [stage: {"none", "asked", "rendered"}, got: DeskPage \cup {Nobody},
                       again: BOOLEAN]
      /\ refresh'.stage = "rendered" => refresh.stage = "rendered" /\ refresh'.got = refresh.got
  <2>1. CASE refresh.stage = "none"
    BY <2>1 DEF DecisionMade, Rendering, NoRender
  <2>2. CASE refresh.stage # "none"
    BY <2>2, DeskFacts DEF DecisionMade
  <2> QED BY <2>1, <2>2
<1> QED BY <1>1, <1>3, <1>4, DeskFacts, BrowserMoves

LEMMA DecisionRefusedKeeps ==
  ASSUME DeskAssumption, DeskInv, NEW w \in waiting, DecisionRefused(w)
  PROVE  DeskInv'
<1>1. waiting' = waiting \ {w}
      /\ UNCHANGED <<pending, settings, address, desk, refresh, form, stirs>>
  BY DEF DecisionRefused
<1>2. FormFits' /\ FormHolds(desk)'
  BY <1>1, DeskFacts DEF FormFits, FormHolds
<1> QED BY <1>1, <1>2, DeskFacts, FormMoves

(* A dialog that is kept is on the new page, about what it was about; what  *)
(* nobody entered is filled in from there.                                  *)
LEMMA LandRenderKeeps ==
  ASSUME DeskAssumption, DeskInv, LandRender
  PROVE  DeskInv'
<1> DEFINE new == refresh.got
<1>1. /\ desk' = new /\ UNCHANGED <<pending, settings, address, stirs>>
      /\ form' = IF form = Nobody THEN Nobody ELSE Kept(new)
      /\ waiting' = {[w EXCEPT !.mounted = StillMounted(w, new)] : w \in waiting}
      /\ refresh' = IF refresh.again THEN Rendering ELSE NoRender
  BY DEF LandRender
<1>2. new \in DeskPage /\ Len(new.cards) <= DeskSize /\ PageFits(new)
  BY DeskFacts DEF LandRender
<1>3. refresh'.stage # "rendered"
      /\ refresh' \in [stage: {"none", "asked", "rendered"}, got: DeskPage \cup {Nobody},
                       again: BOOLEAN]
  BY <1>1 DEF Rendering, NoRender
<1>4. waiting' \subseteq DeskRequest /\ \A v \in waiting' : v.about = v.meant /\ RequestFits(v)
  <2>1. ASSUME NEW w \in waiting
        PROVE  LET v == [w EXCEPT !.mounted = StillMounted(w, new)] IN
               v \in DeskRequest /\ v.about = v.meant /\ RequestFits(v)
    <3>1. StillMounted(w, new) \in BOOLEAN
      <4>1. w.mounted \in BOOLEAN
        BY DeskFacts DEF DeskRequest
      <4> QED BY <4>1 DEF StillMounted
    <3> QED BY <3>1, DeskFacts DEF DeskRequest, RequestFits
  <2> QED BY <1>1, <2>1
<1>5. FormHolds(desk)' /\ FormFits'
  <2>1. CASE form' = Nobody
    BY <2>1 DEF FormHolds, FormFits
  <2>2. ASSUME form' # Nobody
        PROVE  FormHolds(desk)' /\ FormFits'
    <3>1. form # Nobody /\ form' = Kept(new)
      BY <1>1, <2>2
    <3>2. /\ form \in DeskForm /\ form.about = form.meant
          /\ ~form.entered => form.entry = Filled(form.answer, form.about, desk.settings)
      BY <3>1, DeskFacts DEF FormHolds
    <3>3. CASE form.answer = "settings"
      <4>1. new.at.screen = "meeting" /\ new.settings \in Settings /\ form.about = Nobody
        BY <1>2, <2>2, <3>1, <3>3, DeskFacts DEF Kept, PageFits, FormFits
      <4>2. CASE new.settings = desk.settings
        <5>1. form' = form
          BY <3>1, <3>3, <4>1, <4>2 DEF Kept
        <5> QED BY <1>1, <3>2, <3>3, <4>1, <4>2, <5>1, DeskFacts DEF FormHolds, FormFits
      <4>3. CASE new.settings # desk.settings
        <5>1. form' = [form EXCEPT !.entry = new.settings, !.entered = FALSE]
          BY <3>1, <3>3, <4>1, <4>3 DEF Kept
        <5>2. form' \in DeskForm /\ form'.answer = "settings" /\ form'.about = Nobody
              /\ form'.meant = form'.about /\ form'.entry = new.settings
          BY <3>2, <3>3, <4>1, <5>1 DEF DeskForm, Entries
        <5> QED BY <1>1, <4>1, <5>2 DEF FormHolds, FormFits, Filled
      <4> QED BY <4>2, <4>3
    <3>4. CASE form.answer # "settings"
      <4>1. form.about \in Findings /\ IsShown(form.about, new)
        BY <2>2, <3>1, <3>4, DeskFacts DEF Kept, FormFits
      <4>2. CASE form.answer = "reject"
        <5>1. form' = form
          BY <3>1, <4>1, <4>2 DEF Kept
        <5>2. ~form.entered => form.entry = Filled(form.answer, form.about, new.settings)
          BY <3>2, <3>4 DEF Filled
        <5> QED BY <1>1, <3>2, <4>1, <5>1, <5>2, DeskFacts DEF FormHolds, FormFits
      <4>3. CASE form.answer # "reject"
        <5>1. form' = [form EXCEPT !.entry = form.about, !.entered = FALSE]
          BY <3>1, <3>4, <4>1, <4>3 DEF Kept
        <5>2. form' \in DeskForm /\ form'.answer = form.answer /\ form'.about = form.about
              /\ form'.meant = form'.about /\ form'.entry = form'.about
          BY <3>2, <4>1, <5>1 DEF DeskForm, Entries
        <5> QED BY <1>1, <3>4, <4>1, <5>2 DEF FormHolds, FormFits, Filled
      <4> QED BY <4>2, <4>3
    <3> QED BY <3>3, <3>4
  <2> QED BY <2>1, <2>2
<1>6. address' \in Addresses
  BY <1>1, DeskFacts
<1> HIDE DEF new
<1> QED BY <1>1, <1>2, <1>3, <1>4, <1>5, <1>6, BrowserMoves

LEMMA DeskKeeps ==
  ASSUME DeskAssumption, DeskInv, [DeskNext]_deskVars
  PROVE  DeskInv'
<1>1. ASSUME UNCHANGED deskVars
      PROVE  DeskInv'
  <2>1. UNCHANGED <<pending, settings, address, desk, refresh, form, waiting, stirs>>
    BY <1>1 DEF deskVars
  <2>2. FormFits' /\ FormHolds(desk)'
    BY <2>1, DeskFacts DEF FormFits, FormHolds
  <2> QED BY <2>1, <2>2, DeskFacts, FormMoves
<1> QED BY <1>1, ElsewhereKeeps, OpenFormKeeps, EnterKeeps, DismissKeeps, SubmitKeeps,
           NavigateKeeps, ServeDecisionKeeps, DecisionMadeKeeps, DecisionRefusedKeeps,
           ServeRenderKeeps, LandRenderKeeps
        DEF DeskNext

(* The desk keeps its types: the inbox lists nothing twice, and no page     *)
(* holds more cards than fit.                                               *)
THEOREM DeskTypesHold == DeskSpec => []DeskTypeOK
<1>1. DeskInit => DeskInv
  BY DeskAssumption, DeskStarts
<1>2. DeskInv /\ [DeskNext]_deskVars => DeskInv'
  BY DeskAssumption, DeskKeeps
<1>3. DeskInv => DeskTypeOK
  BY DEF DeskInv
<1> QED BY <1>1, <1>2, <1>3, PTL DEF DeskSpec

(* A decision is about the finding whose dialog was opened, and what nobody *)
(* entered is what the page shows of it, for every inbox and every order of *)
(* the renders (review-list.tsx, meeting-detail.tsx).                       *)
THEOREM DecisionsAreAlwaysMeant == DeskSpec => []DecisionsAreMeant
<1>1. DeskInit => DeskInv
  BY DeskAssumption, DeskStarts
<1>2. DeskInv /\ [DeskNext]_deskVars => DeskInv'
  BY DeskAssumption, DeskKeeps
<1>3. DeskInv => DecisionsAreMeant
  BY DEF DeskInv
<1> QED BY <1>1, <1>2, <1>3, PTL DEF DeskSpec

----------------------------------------------------------------------------
(* The screens of administrators.                                           *)

(* A form, a page and a request as old as the last write of the platform    *)
(* hold what is stored; a name found free is free until areas are written.  *)
FormIsCurrent(f) ==
  /\ f.at["platform"] <= writes["platform"]
  /\ f.at["platform"] = writes["platform"] =>
       /\ f.kind = "settings" => f.shown = platform
       /\ f.kind = "user" => f.shown = people[f.id]

PageIsCurrent(p) ==
  /\ p.at["platform"] <= writes["platform"]
  /\ p.at["platform"] = writes["platform"] => p.platform = platform /\ p.people = people

NameIsFree(sought) ==
  \A b \in AreaIds \ {sought.id} : areas[b] # Empty => Loose[areas[b]] # Loose[sought.body]

RequestIsCurrent(s) ==
  /\ FormIsCurrent(s.form)
  /\ \A r \in Registers : s.at[r] <= writes[r]
  /\ s.at["platform"] = writes["platform"] =>
       /\ s.stage = "read" /\ s.form.kind \in {"settings", "user"} => s.got = platform
       /\ s.stage = "done" /\ s.form.kind = "settings" => s.form.body = platform
  /\ s.at["areas"] = writes["areas"] /\ "areas" \notin crossed =>
       (s.stage = "read" /\ s.form.kind = "area" => NameIsFree(s.form))

ScreenIsCurrent(a) ==
  /\ PageIsCurrent(pages[a])
  /\ editing[a] # Closed => FormIsCurrent(editing[a])
  /\ saving[a] # Idle => RequestIsCurrent(saving[a])

AdminInv == AdminTypeOK /\ SavesAreKept /\ \A a \in Admins : ScreenIsCurrent(a)

----------------------------------------------------------------------------
LEMMA FormTypes ==
  ASSUME NEW f \in AdminForm
  PROVE  /\ f.kind \in FormKinds /\ f \in FormsOf(f.kind) /\ f.at \in Counts
         /\ f.id \in IdsOf(f.kind) /\ f.shown \in BodyOf(f.kind) /\ f.body \in BodyOf(f.kind)
<1>1. ASSUME NEW k \in FormKinds, f \in FormsOf(k)
      PROVE  /\ f.kind \in FormKinds /\ f \in FormsOf(f.kind) /\ f.at \in Counts
             /\ f.id \in IdsOf(f.kind) /\ f.shown \in BodyOf(f.kind) /\ f.body \in BodyOf(f.kind)
  <2>1. /\ f.kind = k /\ f.at \in Counts
        /\ f.id \in IdsOf(k) /\ f.shown \in BodyOf(k) /\ f.body \in BodyOf(k)
    BY <1>1 DEF FormsOf
  <2> QED BY <1>1, <2>1
<1>2. \E k \in FormKinds : f \in FormsOf(k)
  BY DEF AdminForm, FormKinds
<1> QED BY <1>1, <1>2

LEMMA FormIsTyped ==
  ASSUME NEW k \in FormKinds, NEW f \in FormsOf(k)
  PROVE  f \in AdminForm /\ f.kind = k
BY DEF AdminForm, FormsOf, FormKinds

(* The parts of the inductive invariant, for one administrator.             *)
LEMMA AdminFacts ==
  ASSUME AdministrationAssumption, AdminInv, NEW a \in Admins
  PROVE  /\ writes \in Counts /\ platform \in Platform /\ people \in [People -> Person]
         /\ areas \in [AreaIds -> Words \cup {Empty}]
         /\ projects \in [ProjectIds -> Words \cup {Empty}]
         /\ aliases \in [Words -> ProjectIds \cup {Empty}]
         /\ pages[a] \in AdminPage
         /\ editing[a] # Closed => editing[a] \in AdminForm
         /\ saving[a].stage # "none" => saving[a] \in AdminRequest /\ RequestIsCurrent(saving[a])
         /\ PageIsCurrent(pages[a])
         /\ editing[a] # Closed => FormIsCurrent(editing[a])
<1>1. Reading \in AdminPage
  BY DEF AdminInv, AdminTypeOK
<1>2. pages[a] \in AdminPage /\ editing[a] \in AdminForm \cup {Closed}
      /\ saving[a] \in AdminRequest \cup {Idle}
  BY DEF AdminInv, AdminTypeOK
<1>3. saving[a].stage # "none" => saving[a] # Idle
  BY DEF Idle
<1>4. ScreenIsCurrent(a)
  BY DEF AdminInv
<1> QED BY <1>1, <1>2, <1>3, <1>4 DEF ScreenIsCurrent, Reading, AdminPage

(* What was read before a write is older than it now.                       *)
WritesAreCounted ==
  /\ writes \in Counts /\ writes' \in Counts
  /\ \A r \in Registers : writes[r] <= writes'[r]
  /\ writes'["platform"] = writes["platform"] => UNCHANGED <<platform, people>>
  /\ writes'["areas"] = writes["areas"] => UNCHANGED areas
  /\ crossed \subseteq crossed'

(* A form stays one of its time when more is written.                       *)
LEMMA FormAges ==
  ASSUME WritesAreCounted, NEW f \in AdminForm, FormIsCurrent(f)
  PROVE  FormIsCurrent(f)'
<1>1. /\ f.at["platform"] \in Nat /\ writes["platform"] \in Nat /\ writes'["platform"] \in Nat
      /\ writes["platform"] <= writes'["platform"]
  BY FormTypes DEF WritesAreCounted, Counts, Registers
<1>2. f.at["platform"] = writes'["platform"] => f.at["platform"] = writes["platform"]
      /\ UNCHANGED <<platform, people>>
  BY <1>1 DEF FormIsCurrent, WritesAreCounted
<1> QED BY <1>1, <1>2 DEF FormIsCurrent

LEMMA PageAges ==
  ASSUME WritesAreCounted, NEW p \in AdminPage, PageIsCurrent(p)
  PROVE  PageIsCurrent(p)'
<1>1. /\ p.at["platform"] \in Nat /\ writes["platform"] \in Nat /\ writes'["platform"] \in Nat
      /\ writes["platform"] <= writes'["platform"]
  BY DEF WritesAreCounted, Counts, Registers, AdminPage
<1>2. p.at["platform"] = writes'["platform"] => p.at["platform"] = writes["platform"]
      /\ UNCHANGED <<platform, people>>
  BY <1>1 DEF PageIsCurrent, WritesAreCounted
<1> QED BY <1>1, <1>2 DEF PageIsCurrent

LEMMA RequestAges ==
  ASSUME WritesAreCounted, NEW s \in AdminRequest, RequestIsCurrent(s)
  PROVE  RequestIsCurrent(s)'
<1>1. s.form \in AdminForm /\ s.at \in Counts
  BY DEF AdminRequest
<1>2. FormIsCurrent(s.form)'
  BY <1>1, FormAges DEF RequestIsCurrent
<1>3. \A r \in Registers :
        /\ s.at[r] \in Nat /\ writes[r] \in Nat /\ writes'[r] \in Nat
        /\ s.at[r] <= writes[r] /\ writes[r] <= writes'[r]
  BY <1>1 DEF WritesAreCounted, Counts, RequestIsCurrent
<1>4. \A r \in Registers :
        /\ s.at[r] <= writes'[r]
        /\ s.at[r] = writes'[r] => s.at[r] = writes[r] /\ writes'[r] = writes[r]
  BY <1>3
<1>5. "platform" \in Registers /\ "areas" \in Registers
  BY DEF Registers
<1>6. s.at["platform"] = writes'["platform"] =>
        /\ s.stage = "read" /\ s.form.kind \in {"settings", "user"} => s.got = platform'
        /\ s.stage = "done" /\ s.form.kind = "settings" => s.form.body = platform'
  BY <1>4, <1>5 DEF RequestIsCurrent, WritesAreCounted
<1>7. s.at["areas"] = writes'["areas"] /\ "areas" \notin crossed' =>
        (s.stage = "read" /\ s.form.kind = "area" => NameIsFree(s.form)')
  BY <1>4, <1>5 DEF RequestIsCurrent, WritesAreCounted, NameIsFree
<1> QED BY <1>2, <1>4, <1>6, <1>7 DEF RequestIsCurrent

(* A step of one screen.                                                    *)
LEMMA AdminMoves ==
  ASSUME AdministrationAssumption, AdminInv, AdminTypeOK', SavesAreKept', WritesAreCounted,
         NEW a \in Admins,
         \A b \in Admins \ {a} :
           pages'[b] = pages[b] /\ editing'[b] = editing[b] /\ saving'[b] = saving[b],
         PageIsCurrent(pages[a])',
         editing'[a] # Closed => FormIsCurrent(editing[a])',
         saving'[a].stage # "none" => RequestIsCurrent(saving[a])'
  PROVE  AdminInv'
<1>1. ASSUME NEW b \in Admins
      PROVE  ScreenIsCurrent(b)'
  <2>1. CASE b = a
    <3>1. saving'[a] # Idle => saving'[a].stage # "none"
      BY DEF AdminTypeOK, AdminRequest
    <3> QED BY <2>1, <3>1 DEF ScreenIsCurrent
  <2>2. CASE b # a
    <3>1. pages'[b] = pages[b] /\ editing'[b] = editing[b] /\ saving'[b] = saving[b]
      BY <2>2
    <3>2. PageIsCurrent(pages[b])' /\ (editing[b] # Closed => FormIsCurrent(editing[b])')
      BY <3>1, AdminFacts, PageAges, FormAges DEF PageIsCurrent, FormIsCurrent
    <3>3. saving[b] # Idle => RequestIsCurrent(saving[b])'
      <4>1. saving[b] # Idle => saving[b] \in AdminRequest /\ saving[b].stage # "none"
        BY DEF AdminInv, AdminTypeOK, AdminRequest
      <4>2. saving[b] # Idle => RequestIsCurrent(saving[b])
        BY DEF AdminInv, ScreenIsCurrent
      <4> DEFINE s == saving[b]
      <4>3. ASSUME s # Idle PROVE RequestIsCurrent(saving[b])'
        <5>1. \A x \in AdminRequest : RequestIsCurrent(x) => RequestIsCurrent(x)'
          BY RequestAges
        <5> QED BY <3>1, <4>1, <4>2, <4>3, <5>1 DEF RequestIsCurrent
      <4> QED BY <4>3
    <3> QED BY <3>1, <3>2, <3>3 DEF ScreenIsCurrent
  <2> QED BY <2>1, <2>2
<1> QED BY <1>1 DEF AdminInv

LEMMA AdminStarts ==
  ASSUME AdministrationAssumption, AdminInit
  PROVE  AdminInv
<1> DEFINE k == CHOOSE b \in AreaIds : TRUE
           p == CHOOSE q \in ProjectIds : TRUE
           w == CHOOSE v \in Words : TRUE
           o == CHOOSE v \in Options : TRUE
<1>1. k \in AreaIds /\ p \in ProjectIds /\ w \in Words /\ o \in Options
  BY DEF AdministrationAssumption
<1>2. PICK n \in Words : areas = [b \in AreaIds |-> IF b = k THEN n ELSE Empty]
  BY DEF AdminInit
<1>3. /\ projects = [q \in ProjectIds |-> IF q = p THEN w ELSE Empty]
      /\ aliases = [v \in Words |-> IF v = Loose[w] THEN p ELSE Empty]
      /\ platform = [value |-> o, heard |-> {}]
      /\ people = [u \in People |-> [role |-> "MEMBER", heard |-> FALSE]]
      /\ meant = [platform |-> platform, roles |-> [u \in People |-> people[u].role]]
      /\ writes = [r \in Registers |-> 0] /\ crossed = {}
      /\ pages = [a \in Admins |-> Reading]
      /\ editing = [a \in Admins |-> Closed]
      /\ saving = [a \in Admins |-> Idle]
  BY DEF AdminInit
<1> HIDE DEF k, p, w, o
<1>4. platform \in Platform /\ people \in [People -> Person]
  BY <1>1, <1>3 DEF Platform, Person
<1>5. areas \in [AreaIds -> Words \cup {Empty}] /\ projects \in [ProjectIds -> Words \cup {Empty}]
      /\ aliases \in [Words -> ProjectIds \cup {Empty}]
  BY <1>1, <1>2, <1>3
<1>6. writes \in Counts
  BY <1>3 DEF Counts
<1>7. Reading \in AdminPage
  BY <1>4, <1>5, <1>6 DEF Reading, AdminPage
<1>8. meant \in [platform: Platform, roles: [People -> {"MEMBER", "MANAGER"}]]
  <2>1. [u \in People |-> people[u].role] \in [People -> {"MEMBER", "MANAGER"}]
    BY <1>4 DEF Person
  <2> QED BY <1>3, <1>4, <2>1
<1>9. AdminTypeOK
  <2>1. \A a \in Admins : saving[a].stage = "none"
    BY <1>3 DEF Idle
  <2> HIDE DEF Reading
  <2> QED BY <1>3, <1>7, <1>8, <2>1 DEF AdminTypeOK
<1>10. SavesAreKept
  <2>1. people = [u \in People |-> [role |-> meant.roles[u], heard |-> u \in platform.heard]]
    <3>1. \A u \in People : meant.roles[u] = "MEMBER"
      BY <1>3
    <3>2. platform.heard = {}
      BY <1>3
    <3>3. \A u \in People : (u \in platform.heard) = FALSE
      BY <3>2
    <3>4. people = [u \in People |-> [role |-> "MEMBER", heard |-> FALSE]]
      BY <1>3
    <3> QED BY <3>1, <3>3, <3>4
  <2>2. \A b, c \in AreaIds :
          b # c /\ areas[b] # Empty /\ areas[c] # Empty => Loose[areas[b]] # Loose[areas[c]]
    BY <1>2
  <2>3. ASSUME NEW q \in ProjectIds, projects[q] # Empty
        PROVE  aliases[Loose[projects[q]]] # Empty
    <3>1. projects[q] = w
      BY <1>3, <2>3
    <3>2. Loose[w] \in Words /\ p # Empty
      BY <1>1 DEF AdministrationAssumption
    <3> QED BY <1>3, <3>1, <3>2
  <2> QED BY <1>3, <2>1, <2>2, <2>3 DEF SavesAreKept
<1>11. ASSUME NEW a \in Admins PROVE ScreenIsCurrent(a)
  <2>1. pages[a].at = writes /\ pages[a].platform = platform /\ pages[a].people = people
    BY <1>3 DEF Reading
  <2>2. PageIsCurrent(pages[a])
    BY <1>6, <2>1 DEF PageIsCurrent, Counts, Registers
  <2> QED BY <1>3, <2>2 DEF ScreenIsCurrent
<1> QED BY <1>9, <1>10, <1>11 DEF AdminInv

----------------------------------------------------------------------------
(* What is stored stays as it is.                                           *)
LEMMA AdminQuiet ==
  ASSUME AdministrationAssumption, AdminInv, UNCHANGED <<stored, history>>,
         pages' \in [Admins -> AdminPage],
         editing' \in [Admins -> AdminForm \cup {Closed}],
         saving' \in [Admins -> AdminRequest \cup {Idle}],
         NEW a \in Admins,
         saving'[a].stage = "read" /\ saving'[a].form.kind \in {"settings", "user"} =>
           saving'[a].got \in Platform,
         \A b \in Admins \ {a} :
           pages'[b] = pages[b] /\ editing'[b] = editing[b] /\ saving'[b] = saving[b],
         PageIsCurrent(pages'[a]),
         editing'[a] # Closed => FormIsCurrent(editing'[a]),
         saving'[a].stage # "none" => RequestIsCurrent(saving'[a])
  PROVE  AdminInv'
<1>1. UNCHANGED <<platform, people, areas, projects, aliases, writes, meant, crossed>>
  BY DEF stored, history
<1>2. AdminTypeOK'
  <2>1. Reading' \in AdminPage
    BY <1>1 DEF Reading, AdminInv, AdminTypeOK
  <2>2. \A b \in Admins :
          saving'[b].stage = "read" /\ saving'[b].form.kind \in {"settings", "user"} =>
            saving'[b].got \in Platform
    BY DEF AdminInv, AdminTypeOK
  <2> QED BY <1>1, <2>1, <2>2 DEF AdminInv, AdminTypeOK
<1>3. SavesAreKept'
  BY <1>1 DEF SavesAreKept, AdminInv
<1>4. WritesAreCounted
  <2>1. writes \in Counts
    BY AdminFacts
  <2>2. \A r \in Registers : writes[r] \in Nat /\ writes[r] <= writes[r]
    BY <2>1 DEF Counts
  <2> QED BY <1>1, <2>1, <2>2 DEF WritesAreCounted
<1>5. PageIsCurrent(pages[a])'
  BY <1>1 DEF PageIsCurrent
<1>6. editing'[a] # Closed => FormIsCurrent(editing[a])'
  BY <1>1 DEF FormIsCurrent
<1>7. saving'[a].stage # "none" => RequestIsCurrent(saving[a])'
  BY <1>1 DEF FormIsCurrent, RequestIsCurrent, NameIsFree
<1> QED BY <1>2, <1>3, <1>4, <1>5, <1>6, <1>7, AdminMoves

(* Only the open form moves.                                                  *)
LEMMA AdminEdits ==
  ASSUME AdministrationAssumption, AdminInv, UNCHANGED <<stored, pages, saving, history>>,
         NEW a \in Admins, NEW f \in AdminForm \cup {Closed},
         editing' = [editing EXCEPT ![a] = f],
         f # Closed => FormIsCurrent(f)
  PROVE  AdminInv'
<1>1. pages \in [Admins -> AdminPage] /\ saving \in [Admins -> AdminRequest \cup {Idle}]
      /\ editing \in [Admins -> AdminForm \cup {Closed}]
  BY DEF AdminInv, AdminTypeOK
<1>2. editing' \in [Admins -> AdminForm \cup {Closed}] /\ editing'[a] = f
      /\ \A b \in Admins \ {a} : editing'[b] = editing[b]
  BY <1>1
<1>3. saving[a].stage = "read" /\ saving[a].form.kind \in {"settings", "user"} =>
        saving[a].got \in Platform
  BY DEF AdminInv, AdminTypeOK
<1>4. pages' = pages /\ saving' = saving /\ UNCHANGED <<stored, history>>
  OBVIOUS
<1> QED BY <1>1, <1>2, <1>3, <1>4, AdminFacts, AdminQuiet

LEMMA OpenWithKeeps ==
  ASSUME AdministrationAssumption, AdminInv, NEW a \in Admins, NEW kind \in FormKinds,
         NEW id \in IdsOf(kind), NEW body \in BodyOf(kind), OpenWith(a, kind, id, body),
         kind = "settings" => body = pages[a].platform,
         kind = "user" => body = pages[a].people[id]
  PROVE  AdminInv'
<1> DEFINE f == [kind |-> kind, id |-> id, shown |-> body, body |-> body, at |-> pages[a].at]
<1>1. editing' = [editing EXCEPT ![a] = f] /\ UNCHANGED <<stored, pages, saving, history>>
  BY DEF OpenWith
<1>2. pages[a].at \in Counts
  BY AdminFacts DEF AdminPage
<1>3. f \in AdminForm
  BY <1>2, FormIsTyped DEF FormsOf
<1>4. FormIsCurrent(f)
  BY AdminFacts DEF FormIsCurrent, PageIsCurrent
<1> HIDE DEF f
<1> QED BY <1>1, <1>3, <1>4, AdminEdits

LEMMA OpensKeep ==
  ASSUME AdministrationAssumption, AdminInv, NEW a \in Admins
  PROVE  /\ OpenSettings(a) => AdminInv'
         /\ \A u \in People : OpenUser(a, u) => AdminInv'
         /\ \A k \in AreaIds : OpenArea(a, k) => AdminInv'
         /\ \A p \in ProjectIds : OpenProject(a, p) => AdminInv'
<1>1. pages[a] \in AdminPage
  BY AdminFacts
<1>2. ASSUME OpenSettings(a) PROVE AdminInv'
  <2>1. pages[a].platform \in BodyOf("settings") /\ Empty \in IdsOf("settings")
    BY <1>1 DEF BodyOf, IdsOf, AdminPage
  <2> QED BY <1>2, <2>1, OpenWithKeeps DEF OpenSettings, FormKinds
<1>3. ASSUME NEW u \in People, OpenUser(a, u) PROVE AdminInv'
  <2>1. pages[a].people[u] \in BodyOf("user") /\ u \in IdsOf("user")
    BY <1>1 DEF BodyOf, IdsOf, AdminPage
  <2> QED BY <1>3, <2>1, OpenWithKeeps DEF OpenUser, FormKinds
<1>4. ASSUME NEW k \in AreaIds, OpenArea(a, k) PROVE AdminInv'
  <2>1. PICK w \in IF pages[a].areas[k] # Empty THEN {pages[a].areas[k]} ELSE Words :
          OpenWith(a, "area", k, w)
    BY <1>4 DEF OpenArea
  <2>2. w \in BodyOf("area") /\ k \in IdsOf("area")
    BY <1>1 DEF BodyOf, IdsOf, AdminPage
  <2> QED BY <2>1, <2>2, OpenWithKeeps DEF FormKinds
<1>5. ASSUME NEW p \in ProjectIds, OpenProject(a, p) PROVE AdminInv'
  <2>1. ASSUME NEW w \in Words, NEW names \in SUBSET Words,
               OpenWith(a, "project", p, [name |-> w, aliases |-> names])
        PROVE  AdminInv'
    <3>1. [name |-> w, aliases |-> names] \in BodyOf("project") /\ p \in IdsOf("project")
      BY DEF BodyOf, IdsOf
    <3> QED BY <2>1, <3>1, OpenWithKeeps DEF FormKinds
  <2>2. CASE pages[a].projects[p] # Empty
    <3>1. pages[a].projects[p] \in Words
          /\ {n \in Words : pages[a].aliases[n] = p} \in SUBSET Words
      BY <1>1, <2>2 DEF AdminPage
    <3> QED BY <1>5, <2>1, <2>2, <3>1 DEF OpenProject
  <2>3. CASE pages[a].projects[p] = Empty
    <3>1. {} \in SUBSET Words
      OBVIOUS
    <3> QED BY <1>5, <2>1, <2>3, <3>1 DEF OpenProject
  <2> QED BY <2>2, <2>3
<1> QED BY <1>2, <1>3, <1>4, <1>5

LEMMA ChangeToKeeps ==
  ASSUME AdministrationAssumption, AdminInv, NEW a \in Admins, NEW kind \in FormKinds,
         NEW body \in BodyOf(kind), ChangeTo(a, kind, body)
  PROVE  AdminInv'
<1> DEFINE f == [editing[a] EXCEPT !.body = body]
<1>1. editing[a].kind = kind /\ editing' = [editing EXCEPT ![a].body = body]
      /\ UNCHANGED <<stored, pages, saving, history>>
  BY DEF ChangeTo
<1>2. editing[a] # Closed
  BY <1>1 DEF Closed, AdministrationAssumption
<1>3. editing[a] \in FormsOf(kind) /\ FormIsCurrent(editing[a])
  BY <1>1, <1>2, AdminFacts, FormTypes
<1>4. f \in FormsOf(kind) /\ f.kind = editing[a].kind /\ f.shown = editing[a].shown
      /\ f.id = editing[a].id /\ f.at = editing[a].at
  BY <1>3 DEF FormsOf
<1>5. f \in AdminForm /\ FormIsCurrent(f)
  BY <1>3, <1>4, FormIsTyped DEF FormIsCurrent
<1>6. editing' = [editing EXCEPT ![a] = f]
  BY <1>1
<1> HIDE DEF f
<1> QED BY <1>1, <1>5, <1>6, AdminEdits

(* One field of a body from another.                                        *)
LEMMA OneField ==
  ASSUME NEW kind \in {"settings", "user", "project"}, NEW x \in BodyOf(kind),
         NEW y \in BodyOf(kind), NEW f \in DOMAIN x
  PROVE  [x EXCEPT ![f] = y[f]] \in BodyOf(kind)
<1>1. CASE kind = "settings"
  <2>1. x \in Platform /\ y \in Platform
    BY <1>1 DEF BodyOf
  <2>2. f = "value" \/ f = "heard"
    BY <2>1 DEF Platform
  <2>3. [x EXCEPT ![f] = y[f]] \in Platform
    BY <2>1, <2>2 DEF Platform
  <2> QED BY <1>1, <2>3 DEF BodyOf
<1>2. CASE kind = "user"
  <2>1. x \in Person /\ y \in Person
    BY <1>2 DEF BodyOf
  <2>2. f = "role" \/ f = "heard"
    BY <2>1 DEF Person
  <2>3. [x EXCEPT ![f] = y[f]] \in Person
    BY <2>1, <2>2 DEF Person
  <2> QED BY <1>2, <2>3 DEF BodyOf
<1>3. CASE kind = "project"
  <2>1. x \in [name: Words, aliases: SUBSET Words] /\ y \in [name: Words, aliases: SUBSET Words]
    BY <1>3 DEF BodyOf
  <2>2. f = "name" \/ f = "aliases"
    BY <2>1
  <2>3. [x EXCEPT ![f] = y[f]] \in [name: Words, aliases: SUBSET Words]
    BY <2>1, <2>2
  <2> QED BY <1>3, <2>3 DEF BodyOf
<1> QED BY <1>1, <1>2, <1>3

LEMMA ChangesKeep ==
  ASSUME AdministrationAssumption, AdminInv, NEW a \in Admins
  PROVE  /\ ChangeSettings(a) \/ ChangeUser(a) \/ ChangeProject(a) => AdminInv'
         /\ ChangeArea(a) => AdminInv'
         /\ CloseForm(a) => AdminInv'
<1>1. ASSUME NEW kind \in {"settings", "user", "project"}, ChangeOneField(a, kind)
      PROVE  AdminInv'
  <2>1. editing[a].kind = kind /\ kind \in FormKinds
    BY <1>1 DEF ChangeOneField, FormKinds
  <2>2. editing[a] # Closed
    BY <2>1 DEF Closed, AdministrationAssumption
  <2>3. editing[a].body \in BodyOf(kind)
    BY <2>1, <2>2, AdminFacts, FormTypes
  <2>4. PICK f \in DOMAIN editing[a].body, body \in BodyOf(kind) :
          ChangeTo(a, kind, [editing[a].body EXCEPT ![f] = body[f]])
    BY <1>1 DEF ChangeOneField
  <2>5. [editing[a].body EXCEPT ![f] = body[f]] \in BodyOf(kind)
    BY <2>3, OneField
  <2> QED BY <2>1, <2>4, <2>5, ChangeToKeeps
<1>2. ASSUME ChangeArea(a) PROVE AdminInv'
  <2>1. PICK w \in Words : ChangeTo(a, "area", w)
    BY <1>2 DEF ChangeArea
  <2>2. w \in BodyOf("area") /\ "area" \in FormKinds
    BY DEF BodyOf, FormKinds
  <2> QED BY <2>1, <2>2, ChangeToKeeps
<1>3. ASSUME CloseForm(a) PROVE AdminInv'
  BY <1>3, AdminEdits DEF CloseForm
<1>4. ASSUME ChangeSettings(a) \/ ChangeUser(a) \/ ChangeProject(a) PROVE AdminInv'
  BY <1>1, <1>4 DEF ChangeSettings, ChangeUser, ChangeProject
<1> QED BY <1>2, <1>3, <1>4

LEMMA RenderPageKeeps ==
  ASSUME AdministrationAssumption, AdminInv, NEW a \in Admins, RenderPage(a)
  PROVE  AdminInv'
<1>1. UNCHANGED <<stored, saving, history>> /\ pages' = [pages EXCEPT ![a] = Reading]
      /\ editing' = [editing EXCEPT ![a] =
           IF pages[a].refreshing /\ @.kind # "settings" THEN @ ELSE Closed]
  BY DEF RenderPage
<1>2. pages \in [Admins -> AdminPage] /\ saving \in [Admins -> AdminRequest \cup {Idle}]
      /\ editing \in [Admins -> AdminForm \cup {Closed}] /\ Reading \in AdminPage
  BY DEF AdminInv, AdminTypeOK
<1>3. editing'[a] = editing[a] \/ editing'[a] = Closed
  BY <1>1, <1>2
<1>4. pages'[a] = Reading
      /\ \A b \in Admins \ {a} : pages'[b] = pages[b] /\ editing'[b] = editing[b]
  BY <1>1, <1>2
<1>5. PageIsCurrent(pages'[a])
  <2>1. pages'[a].at = writes /\ pages'[a].platform = platform /\ pages'[a].people = people
    BY <1>4 DEF Reading
  <2>2. writes["platform"] \in Nat
    BY AdminFacts DEF Counts, Registers
  <2> QED BY <2>1, <2>2 DEF PageIsCurrent
<1>6. pages' \in [Admins -> AdminPage]
  BY <1>1, <1>2
<1>7. editing' \in [Admins -> AdminForm \cup {Closed}]
  BY <1>1, <1>2
<1>8. editing'[a] # Closed => FormIsCurrent(editing'[a])
  BY <1>3, AdminFacts
<1>9. saving[a].stage = "read" /\ saving[a].form.kind \in {"settings", "user"} =>
        saving[a].got \in Platform
  BY DEF AdminInv, AdminTypeOK
<1>10. saving' = saving /\ UNCHANGED <<stored, history>>
  BY <1>1
<1> QED BY <1>2, <1>4, <1>5, <1>6, <1>7, <1>8, <1>9, <1>10, AdminFacts, AdminQuiet

(* Only the request moves.                                                  *)
LEMMA AdminAsks ==
  ASSUME AdministrationAssumption, AdminInv, UNCHANGED <<stored, pages, editing, history>>,
         NEW a \in Admins, NEW s \in AdminRequest \cup {Idle},
         saving' = [saving EXCEPT ![a] = s],
         s.stage = "read" /\ s.form.kind \in {"settings", "user"} => s.got \in Platform,
         s.stage # "none" => RequestIsCurrent(s)
  PROVE  AdminInv'
<1>1. pages \in [Admins -> AdminPage] /\ saving \in [Admins -> AdminRequest \cup {Idle}]
      /\ editing \in [Admins -> AdminForm \cup {Closed}]
  BY DEF AdminInv, AdminTypeOK
<1>2. saving' \in [Admins -> AdminRequest \cup {Idle}] /\ saving'[a] = s
      /\ \A b \in Admins \ {a} : saving'[b] = saving[b]
  BY <1>1
<1>3. pages' = pages /\ editing' = editing /\ UNCHANGED <<stored, history>>
  OBVIOUS
<1> QED BY <1>1, <1>2, <1>3, AdminFacts, AdminQuiet

LEMMA SendFormKeeps ==
  ASSUME AdministrationAssumption, AdminInv, NEW a \in Admins, SendForm(a)
  PROVE  AdminInv'
<1> DEFINE s == [stage |-> "sent", form |-> editing[a], got |-> Empty, at |-> writes]
<1>1. editing[a] # Closed /\ saving' = [saving EXCEPT ![a] = s]
      /\ UNCHANGED <<stored, pages, editing, history>>
  BY DEF SendForm
<1>2. editing[a] \in AdminForm /\ FormIsCurrent(editing[a]) /\ writes \in Counts
  BY <1>1, AdminFacts
<1>3. s \in AdminRequest
  BY <1>2 DEF AdminRequest
<1>4. \A r \in Registers : s.at[r] <= writes[r]
  BY <1>2 DEF Counts
<1>5. RequestIsCurrent(s)
  BY <1>2, <1>4 DEF RequestIsCurrent
<1>6. s.stage = "sent"
  OBVIOUS
<1> HIDE DEF s
<1> QED BY <1>1, <1>3, <1>5, <1>6, AdminAsks

LEMMA ReadPlatformKeeps ==
  ASSUME AdministrationAssumption, AdminInv, NEW a \in Admins, ReadPlatform(a)
  PROVE  AdminInv'
<1> DEFINE s == [saving[a] EXCEPT !.stage = "read", !.got = platform, !.at = writes]
<1>1. saving[a].stage = "sent" /\ saving[a].form.kind \in {"settings", "user"}
      /\ saving' = [saving EXCEPT ![a].stage = "read", ![a].got = platform, ![a].at = writes]
      /\ UNCHANGED <<stored, pages, editing, history>>
  BY DEF ReadPlatform
<1>2. saving[a] \in AdminRequest /\ RequestIsCurrent(saving[a]) /\ writes \in Counts
      /\ platform \in Platform
  BY <1>1, AdminFacts
<1>3. saving' = [saving EXCEPT ![a] = s]
  <2>1. saving \in [Admins -> AdminRequest \cup {Idle}]
    BY DEF AdminInv, AdminTypeOK
  <2> QED BY <1>1, <2>1
<1>4. s \in AdminRequest /\ s.stage = "read" /\ s.got = platform /\ s.at = writes
      /\ s.form = saving[a].form
  BY <1>2 DEF AdminRequest
<1> HIDE DEF s
<1>5. \A r \in Registers : s.at[r] <= writes[r]
  BY <1>2, <1>4 DEF Counts
<1>6. RequestIsCurrent(s)
  BY <1>1, <1>2, <1>4, <1>5 DEF RequestIsCurrent
<1> QED BY <1>1, <1>2, <1>3, <1>4, <1>6, AdminAsks

LEMMA RefuseFormKeeps ==
  ASSUME AdministrationAssumption, AdminInv, NEW a \in Admins, RefuseForm(a)
  PROVE  AdminInv'
<1>1. saving' = [saving EXCEPT ![a] = Idle] /\ UNCHANGED <<stored, pages, editing, history>>
  BY DEF RefuseForm
<1>2. Idle.stage = "none"
  BY DEF Idle
<1> QED BY <1>1, <1>2, AdminAsks

LEMMA StageKeeps ==
  ASSUME AdministrationAssumption, AdminInv, NEW a \in Admins, saving[a].stage # "none",
         NEW stage \in {"done", "refused"}, Stage(a, stage),
         UNCHANGED <<stored, pages, editing, history>>,
         stage = "done" => saving[a].form.kind # "settings"
  PROVE  AdminInv'
<1> DEFINE s == [saving[a] EXCEPT !.stage = stage]
<1>1. saving[a] \in AdminRequest /\ RequestIsCurrent(saving[a])
  BY AdminFacts
<1>2. saving' = [saving EXCEPT ![a] = s]
  BY DEF Stage
<1>3. s \in AdminRequest /\ s.stage = stage /\ s.form = saving[a].form /\ s.at = saving[a].at
  BY <1>1 DEF AdminRequest
<1> HIDE DEF s
<1>4. RequestIsCurrent(s)
  BY <1>1, <1>3 DEF RequestIsCurrent
<1> QED BY <1>2, <1>3, <1>4, AdminAsks

(* What findByName does not return, or returns of the area itself, is free  *)
(* as long as no two areas share a name.                                    *)
LEMMA FreeNames ==
  ASSUME AdministrationAssumption, areas \in [AreaIds -> Words \cup {Empty}],
         \A b, c \in AreaIds :
           b # c /\ areas[b] # Empty /\ areas[c] # Empty => Loose[areas[b]] # Loose[areas[c]],
         NEW sought, sought.body \in Words, sought.id \in AreaIds,
         FindByName(sought.body) = {} \/ sought.id \in FindByName(sought.body)
  PROVE  NameIsFree(sought)
<1> DEFINE exact == {k \in AreaIds : areas[k] = sought.body}
           loose == {k \in AreaIds : areas[k] # Empty /\ Loose[areas[k]] = Loose[sought.body]}
<1>1. FindByName(sought.body) = IF exact # {} THEN exact ELSE loose
  BY DEF FindByName
<1>2. exact \subseteq loose
  BY DEF AdministrationAssumption
<1>3. loose = {} \/ sought.id \in loose
  BY <1>1, <1>2
<1> QED BY <1>3 DEF NameIsFree

LEMMA CheckAreaKeeps ==
  ASSUME AdministrationAssumption, AdminInv, NEW a \in Admins, CheckArea(a)
  PROVE  AdminInv'
<1> DEFINE sought == saving[a].form
           s == [saving[a] EXCEPT !.stage = "read", !.at = writes]
<1>1. saving[a].stage = "sent" /\ sought.kind = "area"
      /\ UNCHANGED <<stored, pages, editing, history>>
  BY DEF CheckArea
<1>2. saving[a] \in AdminRequest /\ RequestIsCurrent(saving[a]) /\ writes \in Counts
  BY <1>1, AdminFacts
<1>3. CASE Stage(a, "refused")
  BY <1>1, <1>3, StageKeeps
<1>4. CASE /\ FindByName(sought.body) = {} \/ sought.id \in FindByName(sought.body)
           /\ saving' = [saving EXCEPT ![a].stage = "read", ![a].at = writes]
  <2>1. saving' = [saving EXCEPT ![a] = s]
    <3>1. saving \in [Admins -> AdminRequest \cup {Idle}]
      BY DEF AdminInv, AdminTypeOK
    <3> QED BY <1>4, <3>1
  <2>2. s \in AdminRequest /\ s.stage = "read" /\ s.form = sought /\ s.at = writes
    BY <1>2 DEF AdminRequest
  <2>3. "areas" \notin crossed => NameIsFree(sought)
    <3>1. sought \in AdminForm
      BY <1>2 DEF AdminRequest
    <3>2. sought.body \in Words /\ sought.id \in AreaIds
      BY <1>1, <3>1, FormTypes DEF BodyOf, IdsOf
    <3>3. areas \in [AreaIds -> Words \cup {Empty}]
      BY AdminFacts
    <3>4. "areas" \notin crossed =>
            \A b, c \in AreaIds :
              b # c /\ areas[b] # Empty /\ areas[c] # Empty => Loose[areas[b]] # Loose[areas[c]]
      BY DEF AdminInv, SavesAreKept
    <3> HIDE DEF sought
    <3> QED BY <1>4, <3>2, <3>3, <3>4, FreeNames
  <2> HIDE DEF s
  <2>4. \A r \in Registers : s.at[r] <= writes[r]
    BY <1>2, <2>2 DEF Counts
  <2>5. RequestIsCurrent(s)
    BY <1>1, <1>2, <2>2, <2>3, <2>4 DEF RequestIsCurrent
  <2>6. s.form.kind \notin {"settings", "user"}
    BY <1>1, <2>2
  <2> QED BY <1>1, <2>1, <2>2, <2>5, <2>6, AdminAsks
<1> QED BY <1>3, <1>4 DEF CheckArea

LEMMA AnswerFormKeeps ==
  ASSUME AdministrationAssumption, AdminInv, NEW a \in Admins, AnswerForm(a)
  PROVE  AdminInv'
<1> DEFINE sought == saving[a].form
           onward == [sought EXCEPT !.shown = sought.body, !.at = saving[a].at]
<1>1. /\ saving[a].stage = "done"
      /\ editing' = [editing EXCEPT ![a] =
           IF @.kind # sought.kind THEN @ ELSE IF sought.kind = "settings" THEN onward ELSE Closed]
      /\ pages' = [pages EXCEPT ![a].refreshing = TRUE]
      /\ saving' = [saving EXCEPT ![a] = Idle]
      /\ UNCHANGED <<stored, history>>
  BY DEF AnswerForm
<1>2. pages \in [Admins -> AdminPage] /\ saving \in [Admins -> AdminRequest \cup {Idle}]
      /\ editing \in [Admins -> AdminForm \cup {Closed}]
  BY DEF AdminInv, AdminTypeOK
<1>3. saving[a] \in AdminRequest /\ RequestIsCurrent(saving[a])
  BY <1>1, AdminFacts
<1>4. sought \in AdminForm /\ saving[a].at \in Counts
  BY <1>3 DEF AdminRequest
<1>5. sought.kind = "settings" => onward \in AdminForm /\ FormIsCurrent(onward)
  <2>1. SUFFICES ASSUME sought.kind = "settings"
                 PROVE  onward \in AdminForm /\ FormIsCurrent(onward)
    OBVIOUS
  <2>2. sought \in FormsOf("settings")
    BY <1>4, <2>1, FormTypes
  <2>3. onward \in FormsOf("settings") /\ onward.shown = sought.body /\ onward.at = saving[a].at
        /\ onward.kind = "settings"
    BY <1>4, <2>2 DEF FormsOf
  <2>4. onward \in AdminForm
    BY <2>3, FormIsTyped DEF FormKinds
  <2>5. saving[a].at["platform"] <= writes["platform"]
    BY <1>3 DEF RequestIsCurrent, Registers
  <2>6. saving[a].at["platform"] = writes["platform"] => sought.body = platform
    BY <1>1, <1>3, <2>1 DEF RequestIsCurrent
  <2> QED BY <2>3, <2>4, <2>5, <2>6 DEF FormIsCurrent
<1> HIDE DEF onward, sought
<1>6. editing' \in [Admins -> AdminForm \cup {Closed}]
  BY <1>1, <1>2, <1>5
<1>7. editing'[a] # Closed => FormIsCurrent(editing'[a])
  <2>1. editing'[a] = editing[a] \/ editing'[a] = Closed
        \/ (sought.kind = "settings" /\ editing'[a] = onward)
    BY <1>1, <1>2
  <2> QED BY <1>5, <2>1, AdminFacts
<1>8. pages' \in [Admins -> AdminPage] /\ PageIsCurrent(pages'[a])
  <2>1. [pages[a] EXCEPT !.refreshing = TRUE] \in AdminPage
    <3>1. \A x \in AdminPage : [x EXCEPT !.refreshing = TRUE] \in AdminPage
      BY DEF AdminPage
    <3> QED BY <3>1, AdminFacts
  <2>2. pages' = [pages EXCEPT ![a] = [pages[a] EXCEPT !.refreshing = TRUE]]
    BY <1>1, <1>2
  <2>3. pages' \in [Admins -> AdminPage]
    BY <1>2, <2>1, <2>2
  <2>4. pages'[a].at = pages[a].at /\ pages'[a].platform = pages[a].platform
        /\ pages'[a].people = pages[a].people
    BY <1>2, <2>2 DEF AdminPage
  <2> QED BY <2>3, <2>4, AdminFacts DEF PageIsCurrent
<1>9. saving' \in [Admins -> AdminRequest \cup {Idle}] /\ saving'[a].stage = "none"
  BY <1>1, <1>2 DEF Idle
<1>10. \A b \in Admins \ {a} :
         pages'[b] = pages[b] /\ editing'[b] = editing[b] /\ saving'[b] = saving[b]
  BY <1>1, <1>2
<1>11. UNCHANGED <<stored, history>>
  BY <1>1
<1> QED BY <1>6, <1>7, <1>8, <1>9, <1>10, <1>11, AdminQuiet

----------------------------------------------------------------------------
(* The flags follow the list, read user by user.                            *)
Flags(roles, heard) == [v \in People |-> [role |-> roles[v], heard |-> v \in heard]]

(* A table of people is determined by their roles and by who is heard.      *)
LEMMA FlagsFollow ==
  ASSUME NEW heard, NEW roles, NEW q \in [People -> Person],
         \A v \in People : q[v].role = roles[v] /\ (q[v].heard <=> v \in heard)
  PROVE  q = Flags(roles, heard)
<1>1. ASSUME NEW v \in People
      PROVE  q[v] = [role |-> roles[v], heard |-> v \in heard]
  <2>1. q[v] \in Person
    OBVIOUS
  <2>2. q[v] = [role |-> q[v].role, heard |-> q[v].heard]
    BY <2>1 DEF Person
  <2>3. q[v].heard = (v \in heard)
    BY <2>1 DEF Person
  <2>4. q[v].role = roles[v]
    OBVIOUS
  <2> QED BY <2>2, <2>3, <2>4
<1> QED BY <1>1 DEF Flags

(* And tells both.                                                          *)
LEMMA FlagsAreRead ==
  ASSUME NEW heard, NEW roles, NEW q \in [People -> Person], NEW v \in People,
         q = Flags(roles, heard)
  PROVE  q[v].role = roles[v] /\ (q[v].heard <=> v \in heard)
BY DEF Flags

(* A write is counted in its register, and no count goes back.              *)
LEMMA OneMoreWrite ==
  ASSUME AdministrationAssumption, AdminInv, NEW r \in Registers, Wrote(r)
  PROVE  /\ writes' \in Counts /\ \A x \in Registers : writes[x] <= writes'[x]
         /\ writes'[r] = writes[r] + 1 /\ writes'[r] # writes[r]
         /\ \A x \in Registers : writes[x] \in Nat
<1>1. writes \in Counts
  BY DEF AdminInv, AdminTypeOK, Reading, AdminPage
<1> QED BY <1>1 DEF Wrote, Counts

LEMMA UpdateUserKeeps ==
  ASSUME AdministrationAssumption, AdminInv, NEW a \in Admins, UpdateUser(a)
  PROVE  AdminInv'
<1> DEFINE s == saving[a]
           u == s.form.id
           body == s.form.body
           shown == s.form.shown
           add(set) == IF body.heard THEN set \cup {u} ELSE set \ {u}
<1>1. /\ s.stage = "read" /\ s.form.kind = "user"
      /\ people' = [people EXCEPT ![u] = body]
      /\ platform' = [s.got EXCEPT !.heard = add(@)]
      /\ meant' = [meant EXCEPT
           !.roles[u] = IF body.role # shown.role THEN body.role ELSE @,
           !.platform.heard = IF body.heard # shown.heard THEN add(@) ELSE @]
      /\ Stage(a, "done") /\ Wrote("platform") /\ CrossedBy(a, "platform")
      /\ UNCHANGED <<areas, projects, aliases, pages, editing>>
  BY DEF UpdateUser
<1>2. s \in AdminRequest /\ RequestIsCurrent(s) /\ platform \in Platform
      /\ people \in [People -> Person]
  BY <1>1, AdminFacts
<1>3. s.form \in AdminForm
  BY <1>2 DEF AdminRequest
<1>4. u \in People /\ body \in Person /\ shown \in Person
  BY <1>1, <1>3, FormTypes DEF IdsOf, BodyOf
<1>5. s.got \in Platform
  BY <1>1 DEF AdminInv, AdminTypeOK
<1>6. meant \in [platform: Platform, roles: [People -> {"MEMBER", "MANAGER"}]]
      /\ saving \in [Admins -> AdminRequest \cup {Idle}]
      /\ pages \in [Admins -> AdminPage] /\ editing \in [Admins -> AdminForm \cup {Closed}]
      /\ crossed \subseteq Registers
  BY DEF AdminInv, AdminTypeOK
<1> HIDE DEF s
<1>7. \A set \in SUBSET People : add(set) \in SUBSET People
  BY <1>4
<1>8. people' \in [People -> Person]
      /\ people'[u] = body /\ \A v \in People \ {u} : people'[v] = people[v]
  BY <1>1, <1>2, <1>4
<1>9. platform' \in Platform /\ platform'.heard = add(s.got.heard)
      /\ platform'.value = s.got.value
  <2>1. s.got.heard \in SUBSET People /\ s.got.value \in Options
    BY <1>5 DEF Platform
  <2>2. platform' = [s.got EXCEPT !.heard = add(s.got.heard)]
    BY <1>1, <1>5 DEF Platform
  <2>3. add(s.got.heard) \in SUBSET People
    BY <1>7, <2>1
  <2> HIDE DEF add
  <2> QED BY <1>5, <2>1, <2>2, <2>3 DEF Platform
<1> DEFINE role == IF body.role # shown.role THEN body.role ELSE meant.roles[u]
           heard == IF body.heard # shown.heard THEN add(meant.platform.heard)
                    ELSE meant.platform.heard
<1>10. /\ meant' \in [platform: Platform, roles: [People -> {"MEMBER", "MANAGER"}]]
       /\ meant'.roles[u] = role /\ \A v \in People \ {u} : meant'.roles[v] = meant.roles[v]
       /\ meant'.platform.heard = heard /\ meant'.platform.value = meant.platform.value
  <2>1. meant.platform \in Platform /\ meant.roles \in [People -> {"MEMBER", "MANAGER"}]
    BY <1>6
  <2>2. role \in {"MEMBER", "MANAGER"}
    BY <1>4, <2>1 DEF Person
  <2>3. heard \in SUBSET People /\ meant.platform.value \in Options
    BY <1>7, <2>1 DEF Platform
  <2>4. meant' = [meant EXCEPT !.roles[u] = role, !.platform.heard = heard]
    BY <1>1
  <2> HIDE DEF role, heard
  <2>5. [meant.roles EXCEPT ![u] = role] \in [People -> {"MEMBER", "MANAGER"}]
    BY <2>1, <2>2
  <2>6. [meant.platform EXCEPT !.heard = heard] \in Platform
        /\ [meant.platform EXCEPT !.heard = heard].heard = heard
        /\ [meant.platform EXCEPT !.heard = heard].value = meant.platform.value
    BY <2>1, <2>3 DEF Platform
  <2>7. meant'.roles = [meant.roles EXCEPT ![u] = role]
        /\ meant'.platform = [meant.platform EXCEPT !.heard = heard]
        /\ meant' = [platform |-> meant'.platform, roles |-> meant'.roles]
    BY <1>6, <2>4
  <2> QED BY <1>4, <2>1, <2>5, <2>6, <2>7
<1>11. crossed' \subseteq Registers /\ crossed \subseteq crossed'
       /\ ("platform" \notin crossed' =>
             s.form.at["platform"] = writes["platform"] /\ s.at["platform"] = writes["platform"])
       /\ ("areas" \notin crossed' => "areas" \notin crossed)
  BY <1>1, <1>6 DEF CrossedBy, Registers, s
<1>12. /\ writes' \in Counts /\ \A x \in Registers : writes[x] <= writes'[x]
       /\ writes'["platform"] # writes["platform"]
  BY <1>1, OneMoreWrite DEF Registers
<1>13. WritesAreCounted
  BY <1>1, <1>11, <1>12, AdminFacts DEF WritesAreCounted
<1>14. /\ saving'[a] = [s EXCEPT !.stage = "done"] /\ saving'[a] \in AdminRequest
       /\ saving' \in [Admins -> AdminRequest \cup {Idle}]
       /\ \A b \in Admins \ {a} : saving'[b] = saving[b]
  <2>1. [s EXCEPT !.stage = "done"] \in AdminRequest
    BY <1>2 DEF AdminRequest
  <2>2. saving' = [saving EXCEPT ![a] = [s EXCEPT !.stage = "done"]]
    BY <1>1 DEF Stage, s
  <2> QED BY <1>6, <2>1, <2>2
<1>15. AdminTypeOK'
  <2>1. Reading' \in AdminPage
    <3>1. areas \in [AreaIds -> Words \cup {Empty}]
          /\ projects \in [ProjectIds -> Words \cup {Empty}]
          /\ aliases \in [Words -> ProjectIds \cup {Empty}]
      BY AdminFacts
    <3>2. Reading' = [platform |-> platform', people |-> people', areas |-> areas,
                      projects |-> projects, aliases |-> aliases, at |-> writes',
                      refreshing |-> FALSE]
      BY <1>1 DEF Reading
    <3> QED BY <1>8, <1>9, <1>12, <3>1, <3>2 DEF AdminPage
  <2>2. \A b \in Admins :
          saving'[b].stage = "read" /\ saving'[b].form.kind \in {"settings", "user"} =>
            saving'[b].got \in Platform
    <3>1. saving'[a].stage = "done"
      BY <1>2, <1>14 DEF AdminRequest
    <3> QED BY <1>14, <3>1 DEF AdminInv, AdminTypeOK
  <2>3. pages' = pages /\ editing' = editing
    BY <1>1
  <2> QED BY <1>6, <1>10, <1>11, <1>14, <2>1, <2>2, <2>3 DEF AdminTypeOK
<1>16. ASSUME "platform" \notin crossed'
       PROVE  /\ platform' = meant'.platform
              /\ people' = Flags(meant'.roles, platform'.heard)
  <2>1. s.got = platform /\ shown = people[u]
    BY <1>1, <1>2, <1>11, <1>16 DEF RequestIsCurrent, FormIsCurrent
  <2>2. platform = meant.platform
        /\ \A v \in People : people[v].role = meant.roles[v]
             /\ (people[v].heard <=> v \in platform.heard)
    <3>1. "platform" \notin crossed
      BY <1>11, <1>16
    <3>2. platform = meant.platform
          /\ people = Flags(meant.roles, platform.heard)
      BY <3>1 DEF AdminInv, SavesAreKept, Flags
    <3>3. people \in [People -> Person]
      BY <1>2
    <3> QED BY <3>2, <3>3, FlagsAreRead
  <2>3. meant'.platform.heard = platform'.heard
    <3>1. CASE body.heard # shown.heard
      BY <1>9, <1>10, <2>1, <2>2, <3>1
    <3>2. CASE body.heard = shown.heard
      <4>1. body.heard <=> u \in platform.heard
        BY <1>4, <2>1, <2>2, <3>2
      <4>2. add(platform.heard) = platform.heard
        BY <4>1
      <4>3. meant'.platform.heard = platform.heard /\ platform'.heard = add(platform.heard)
        BY <1>9, <1>10, <2>1, <2>2, <3>2
      <4> QED BY <4>2, <4>3
    <3> QED BY <3>1, <3>2
  <2>4. platform' = meant'.platform
    <3>1. meant'.platform \in Platform /\ meant'.platform.value = platform'.value
      BY <1>9, <1>10, <2>1, <2>2
    <3> QED BY <1>9, <2>3, <3>1 DEF Platform
  <2>5. ASSUME NEW v \in People
        PROVE  people'[v].role = meant'.roles[v] /\ (people'[v].heard <=> v \in platform'.heard)
    <3>1. CASE v = u
      <4>1. people'[v].role = meant'.roles[v]
        BY <1>4, <1>8, <1>10, <2>1, <2>2, <3>1
      <4>2. people'[v].heard <=> v \in add(platform.heard)
        BY <1>8, <3>1
      <4> QED BY <1>9, <2>1, <4>1, <4>2
    <3>2. CASE v # u
      <4>1. people'[v] = people[v] /\ meant'.roles[v] = meant.roles[v]
        BY <1>8, <1>10, <3>2
      <4>2. v \in platform'.heard <=> v \in platform.heard
        BY <1>9, <2>1, <3>2
      <4> QED BY <2>2, <4>1, <4>2
    <3> QED BY <3>1, <3>2
  <2>6. people' = Flags(meant'.roles, platform'.heard)
    BY <1>8, <2>5, FlagsFollow
  <2> QED BY <2>4, <2>6
<1>17. SavesAreKept'
  BY <1>1, <1>11, <1>16 DEF AdminInv, SavesAreKept, Flags
<1>18. PageIsCurrent(pages[a])' /\ (editing'[a] # Closed => FormIsCurrent(editing[a])')
  BY <1>1, <1>13, AdminFacts, PageAges, FormAges DEF PageIsCurrent, FormIsCurrent
<1>19. RequestIsCurrent(saving[a])'
  <2> DEFINE done == [s EXCEPT !.stage = "done"]
  <2>1. done \in AdminRequest /\ done.stage = "done" /\ done.form = s.form /\ done.at = s.at
    BY <1>2, <1>14 DEF AdminRequest
  <2>2. RequestIsCurrent(done)
    BY <1>1, <1>2, <2>1 DEF RequestIsCurrent
  <2> HIDE DEF done
  <2>3. \A x \in AdminRequest : RequestIsCurrent(x) => RequestIsCurrent(x)'
    BY <1>13, RequestAges
  <2>4. saving'[a] = done
    BY <1>14 DEF done
  <2> QED BY <2>1, <2>2, <2>3, <2>4 DEF RequestIsCurrent
<1> QED BY <1>1, <1>13, <1>14, <1>15, <1>17, <1>18, <1>19, AdminMoves

LEMMA UpdateSettingsKeeps ==
  ASSUME AdministrationAssumption, AdminInv, NEW a \in Admins, UpdateSettings(a)
  PROVE  AdminInv'
<1> DEFINE s == saving[a]
           body == s.form.body
           shown == s.form.shown
           done == [s EXCEPT !.stage = "done", !.at = writes']
<1>1. /\ s.stage = "read" /\ s.form.kind = "settings"
      /\ platform' = body /\ people' = Synced(body.heard)
      /\ meant' = [meant EXCEPT
           !.platform = [f \in DOMAIN body |-> IF body[f] # shown[f] THEN body[f] ELSE @[f]]]
      /\ Wrote("platform") /\ CrossedBy(a, "platform")
      /\ saving' = [saving EXCEPT ![a].stage = "done", ![a].at = writes']
      /\ UNCHANGED <<areas, projects, aliases, pages, editing>>
  BY DEF UpdateSettings
<1>2. s \in AdminRequest /\ RequestIsCurrent(s) /\ platform \in Platform
      /\ people \in [People -> Person]
  BY <1>1, AdminFacts
<1>3. s.form \in AdminForm
  BY <1>2 DEF AdminRequest
<1>4. body \in Platform /\ shown \in Platform
  BY <1>1, <1>3, FormTypes DEF BodyOf
<1>5. meant \in [platform: Platform, roles: [People -> {"MEMBER", "MANAGER"}]]
      /\ saving \in [Admins -> AdminRequest \cup {Idle}]
      /\ pages \in [Admins -> AdminPage] /\ editing \in [Admins -> AdminForm \cup {Closed}]
      /\ crossed \subseteq Registers
  BY DEF AdminInv, AdminTypeOK
<1> HIDE DEF s
<1>6. people' \in [People -> Person]
      /\ \A v \in People : people'[v].role = people[v].role
           /\ (people'[v].heard <=> v \in body.heard)
  <2>1. people' = [v \in People |-> [people[v] EXCEPT !.heard = v \in body.heard]]
    BY <1>1 DEF Synced
  <2>2. ASSUME NEW v \in People, NEW b \in BOOLEAN
        PROVE  LET q == [people[v] EXCEPT !.heard = b] IN
               q \in Person /\ q.role = people[v].role /\ q.heard = b
    BY <1>2 DEF Person
  <2>3. ASSUME NEW v \in People
        PROVE  people'[v] \in Person /\ people'[v].role = people[v].role
               /\ people'[v].heard = (v \in body.heard)
    <3> DEFINE b == v \in body.heard
    <3>1. b \in BOOLEAN
      OBVIOUS
    <3>2. people'[v] = [people[v] EXCEPT !.heard = b]
      BY <2>1
    <3> HIDE DEF b
    <3>3. people'[v] \in Person /\ people'[v].role = people[v].role /\ people'[v].heard = b
      BY <2>2, <3>1, <3>2
    <3> QED BY <3>3 DEF b
  <2> QED BY <2>1, <2>3
<1> DEFINE entered(f) == IF body[f] # shown[f] THEN body[f] ELSE meant.platform[f]
<1>7. /\ meant'.platform \in Platform /\ meant'.roles = meant.roles
      /\ meant' \in [platform: Platform, roles: [People -> {"MEMBER", "MANAGER"}]]
      /\ meant'.platform.value = entered("value") /\ meant'.platform.heard = entered("heard")
  <2> DEFINE p == [f \in DOMAIN body |-> entered(f)]
  <2>1. meant.platform \in Platform
    BY <1>5
  <2>2. DOMAIN body = {"value", "heard"}
    BY <1>4 DEF Platform
  <2>3. p = [value |-> entered("value"), heard |-> entered("heard")]
    <3> HIDE DEF entered
    <3> QED BY <2>2
  <2>4. entered("value") \in Options /\ entered("heard") \in SUBSET People
    BY <1>4, <2>1 DEF Platform
  <2>5. meant' = [meant EXCEPT !.platform = p]
    BY <1>1
  <2> HIDE DEF p, entered
  <2>6. p \in Platform /\ p.value = entered("value") /\ p.heard = entered("heard")
    BY <2>3, <2>4 DEF Platform
  <2> QED BY <1>5, <2>5, <2>6
<1>8. crossed' \subseteq Registers /\ crossed \subseteq crossed'
      /\ ("platform" \notin crossed' =>
            s.form.at["platform"] = writes["platform"] /\ s.at["platform"] = writes["platform"])
  BY <1>1, <1>5 DEF CrossedBy, Registers, s
<1>9. /\ writes' \in Counts /\ \A x \in Registers : writes[x] <= writes'[x]
      /\ writes'["platform"] # writes["platform"]
      /\ \A x \in Registers : writes[x] \in Nat
      /\ writes'["areas"] = writes["areas"]
  <2>1. writes'["areas"] = writes["areas"]
    <3>1. writes \in Counts
      BY AdminFacts
    <3> QED BY <1>1, <3>1 DEF Wrote, Counts, Registers
  <2> QED BY <1>1, <2>1, OneMoreWrite DEF Registers
<1>10. WritesAreCounted
  BY <1>1, <1>8, <1>9, AdminFacts DEF WritesAreCounted
<1>11. /\ done \in AdminRequest /\ done.stage = "done" /\ done.form = s.form
       /\ done.at = writes'
       /\ saving'[a] = done /\ saving' \in [Admins -> AdminRequest \cup {Idle}]
       /\ \A b \in Admins \ {a} : saving'[b] = saving[b]
  <2>1. done \in AdminRequest /\ done.stage = "done" /\ done.form = s.form /\ done.at = writes'
    BY <1>2, <1>9 DEF AdminRequest
  <2>2. saving' = [saving EXCEPT ![a] = done]
    BY <1>1, <1>5 DEF s
  <2> HIDE DEF done
  <2> QED BY <1>5, <2>1, <2>2
<1> HIDE DEF done
<1>12. AdminTypeOK'
  <2>1. Reading' \in AdminPage
    <3>1. areas \in [AreaIds -> Words \cup {Empty}]
          /\ projects \in [ProjectIds -> Words \cup {Empty}]
          /\ aliases \in [Words -> ProjectIds \cup {Empty}]
      BY AdminFacts
    <3>2. Reading' = [platform |-> body, people |-> people', areas |-> areas,
                      projects |-> projects, aliases |-> aliases, at |-> writes',
                      refreshing |-> FALSE]
      BY <1>1 DEF Reading
    <3> QED BY <1>4, <1>6, <1>9, <3>1, <3>2 DEF AdminPage
  <2>2. \A b \in Admins :
          saving'[b].stage = "read" /\ saving'[b].form.kind \in {"settings", "user"} =>
            saving'[b].got \in Platform
    BY <1>11 DEF AdminInv, AdminTypeOK
  <2>3. pages' = pages /\ editing' = editing
    BY <1>1
  <2> QED BY <1>5, <1>7, <1>8, <1>11, <2>1, <2>2, <2>3 DEF AdminTypeOK
<1>13. ASSUME "platform" \notin crossed'
       PROVE  platform' = meant'.platform /\ people' = Flags(meant'.roles, platform'.heard)
  <2>1. shown = platform
    BY <1>1, <1>2, <1>8, <1>13 DEF RequestIsCurrent, FormIsCurrent
  <2>2. platform = meant.platform
        /\ \A v \in People : people[v].role = meant.roles[v]
    <3>1. "platform" \notin crossed
      BY <1>8, <1>13
    <3>2. platform = meant.platform /\ people = Flags(meant.roles, platform.heard)
      BY <3>1 DEF AdminInv, SavesAreKept, Flags
    <3> QED BY <1>2, <3>2, FlagsAreRead
  <2>3. entered("value") = body["value"] /\ entered("heard") = body["heard"]
    BY <2>1, <2>2
  <2>4. meant'.platform.value = body.value /\ meant'.platform.heard = body.heard
    BY <1>7, <2>3
  <2>5. meant'.platform = body
    BY <1>4, <1>7, <2>4 DEF Platform
  <2>6. people' = Flags(meant'.roles, platform'.heard)
    BY <1>1, <1>6, <1>7, <2>2, FlagsFollow
  <2> QED BY <1>1, <2>5, <2>6
<1>14. SavesAreKept'
  BY <1>1, <1>8, <1>13 DEF AdminInv, SavesAreKept, Flags
<1>15. PageIsCurrent(pages[a])' /\ (editing'[a] # Closed => FormIsCurrent(editing[a])')
  BY <1>1, <1>10, AdminFacts, PageAges, FormAges DEF PageIsCurrent, FormIsCurrent
<1>16. RequestIsCurrent(saving[a])'
  <2>1. FormIsCurrent(saving[a].form)'
    <3>1. \A f \in AdminForm : FormIsCurrent(f) => FormIsCurrent(f)'
      BY <1>10, FormAges
    <3>2. saving'[a].form = saving[a].form
      BY <1>11 DEF s
    <3>3. saving[a].form \in AdminForm /\ FormIsCurrent(saving[a].form)
      BY <1>2, <1>3 DEF RequestIsCurrent, s
    <3> QED BY <3>1, <3>2, <3>3 DEF FormIsCurrent
  <2>2. \A r \in Registers : writes'[r] <= writes'[r]
    BY <1>9 DEF Counts
  <2> QED BY <1>1, <1>11, <2>1, <2>2 DEF RequestIsCurrent, FormIsCurrent, s
<1> QED BY <1>1, <1>10, <1>11, <1>12, <1>14, <1>15, <1>16, AdminMoves

(* A save of an area or a project leaves the platform and the screens be.   *)
LEMMA RegisterKeeps ==
  ASSUME AdministrationAssumption, AdminInv, NEW a \in Admins,
         saving[a].stage # "none", saving[a].form.kind # "settings",
         Stage(a, "done"), Wrote("areas"),
         UNCHANGED <<platform, people, pages, editing, meant>>,
         areas' \in [AreaIds -> Words \cup {Empty}],
         projects' \in [ProjectIds -> Words \cup {Empty}],
         aliases' \in [Words -> ProjectIds \cup {Empty}],
         crossed \subseteq crossed', crossed' \subseteq Registers,
         SavesAreKept'
  PROVE  AdminInv'
<1> DEFINE done == [saving[a] EXCEPT !.stage = "done"]
<1>1. saving[a] \in AdminRequest /\ RequestIsCurrent(saving[a])
      /\ platform \in Platform /\ people \in [People -> Person]
  BY AdminFacts
<1>2. meant \in [platform: Platform, roles: [People -> {"MEMBER", "MANAGER"}]]
      /\ saving \in [Admins -> AdminRequest \cup {Idle}]
      /\ pages \in [Admins -> AdminPage] /\ editing \in [Admins -> AdminForm \cup {Closed}]
  BY DEF AdminInv, AdminTypeOK
<1>3. /\ writes' \in Counts /\ \A x \in Registers : writes[x] <= writes'[x]
      /\ writes'["areas"] # writes["areas"]
  BY OneMoreWrite DEF Registers
<1>4. WritesAreCounted
  BY <1>3, AdminFacts DEF WritesAreCounted
<1>5. /\ done \in AdminRequest /\ done.stage = "done" /\ done.form = saving[a].form
      /\ done.at = saving[a].at
      /\ saving'[a] = done /\ saving' \in [Admins -> AdminRequest \cup {Idle}]
      /\ \A b \in Admins \ {a} : saving'[b] = saving[b]
  <2>1. done \in AdminRequest /\ done.stage = "done" /\ done.form = saving[a].form
        /\ done.at = saving[a].at
    BY <1>1 DEF AdminRequest
  <2>2. saving' = [saving EXCEPT ![a] = done]
    BY DEF Stage
  <2> HIDE DEF done
  <2> QED BY <1>2, <2>1, <2>2
<1> HIDE DEF done
<1>6. AdminTypeOK'
  <2>1. Reading' \in AdminPage
    <3>1. Reading' = [platform |-> platform, people |-> people, areas |-> areas',
                      projects |-> projects', aliases |-> aliases', at |-> writes',
                      refreshing |-> FALSE]
      BY DEF Reading
    <3> QED BY <1>1, <1>3, <3>1 DEF AdminPage
  <2>2. \A b \in Admins :
          saving'[b].stage = "read" /\ saving'[b].form.kind \in {"settings", "user"} =>
            saving'[b].got \in Platform
    BY <1>5 DEF AdminInv, AdminTypeOK
  <2> QED BY <1>2, <1>5, <2>1, <2>2 DEF AdminTypeOK
<1>7. PageIsCurrent(pages[a])' /\ (editing'[a] # Closed => FormIsCurrent(editing[a])')
  BY <1>4, AdminFacts, PageAges, FormAges DEF PageIsCurrent, FormIsCurrent
<1>8. RequestIsCurrent(saving[a])'
  <2>1. RequestIsCurrent(done)
    BY <1>1, <1>5 DEF RequestIsCurrent
  <2>2. \A x \in AdminRequest : RequestIsCurrent(x) => RequestIsCurrent(x)'
    BY <1>4, RequestAges
  <2> QED BY <1>5, <2>1, <2>2 DEF RequestIsCurrent
<1> QED BY <1>4, <1>5, <1>6, <1>7, <1>8, AdminMoves

LEMMA WriteAreaKeeps ==
  ASSUME AdministrationAssumption, AdminInv, NEW a \in Admins, WriteArea(a)
  PROVE  AdminInv'
<1> DEFINE sought == saving[a].form
<1>1. saving[a].stage = "read" /\ sought.kind = "area"
      /\ UNCHANGED <<platform, people, projects, aliases, pages, editing, meant>>
  BY DEF WriteArea
<1>2. saving[a] \in AdminRequest /\ RequestIsCurrent(saving[a])
      /\ areas \in [AreaIds -> Words \cup {Empty}]
      /\ projects \in [ProjectIds -> Words \cup {Empty}]
      /\ aliases \in [Words -> ProjectIds \cup {Empty}]
  BY <1>1, AdminFacts
<1>3. CASE \E b \in AreaIds \ {sought.id} : areas[b] = sought.body
  <2>1. Stage(a, "refused") /\ UNCHANGED <<areas, writes, crossed>>
    BY <1>3 DEF WriteArea
  <2>2. UNCHANGED <<stored, history, pages, editing>>
    BY <1>1, <2>1 DEF stored, history
  <2> QED BY <1>1, <2>1, <2>2, StageKeeps
<1>4. CASE ~ \E b \in AreaIds \ {sought.id} : areas[b] = sought.body
  <2>1. /\ areas' = [areas EXCEPT ![sought.id] = sought.body]
        /\ Stage(a, "done") /\ Wrote("areas")
        /\ crossed' = crossed \cup {r \in {"areas"} : saving[a].at[r] # writes[r]}
    BY <1>4 DEF WriteArea
  <2>2. sought.id \in AreaIds /\ sought.body \in Words
    <3>1. sought \in AdminForm
      BY <1>2 DEF AdminRequest
    <3> QED BY <1>1, <3>1, FormTypes DEF IdsOf, BodyOf
  <2>3. areas' \in [AreaIds -> Words \cup {Empty}] /\ areas'[sought.id] = sought.body
        /\ \A b \in AreaIds \ {sought.id} : areas'[b] = areas[b]
    BY <1>2, <2>1, <2>2
  <2>4. crossed \subseteq crossed' /\ crossed' \subseteq Registers
        /\ ("platform" \notin crossed' => "platform" \notin crossed)
        /\ ("areas" \notin crossed' =>
              "areas" \notin crossed /\ saving[a].at["areas"] = writes["areas"])
    <3>1. crossed \subseteq Registers
      BY DEF AdminInv, AdminTypeOK
    <3> QED BY <2>1, <3>1 DEF Registers
  <2>5. ASSUME "areas" \notin crossed', NEW b \in AreaIds, NEW c \in AreaIds,
               b # c, areas'[b] # Empty, areas'[c] # Empty
        PROVE  Loose[areas'[b]] # Loose[areas'[c]]
    <3>1. NameIsFree(sought)
      BY <1>1, <1>2, <2>4, <2>5 DEF RequestIsCurrent
    <3>2. areas[b] # Empty /\ areas[c] # Empty => Loose[areas[b]] # Loose[areas[c]]
      BY <2>4, <2>5 DEF AdminInv, SavesAreKept
    <3> HIDE DEF sought
    <3> QED BY <2>3, <2>5, <3>1, <3>2 DEF NameIsFree
  <2>6. SavesAreKept'
    <3>1. "platform" \notin crossed' =>
            platform' = meant'.platform /\ people' = Flags(meant'.roles, platform'.heard)
      BY <1>1, <2>4 DEF AdminInv, SavesAreKept, Flags
    <3>2. \A p \in ProjectIds : projects'[p] # Empty => aliases'[Loose[projects'[p]]] # Empty
      BY <1>1 DEF AdminInv, SavesAreKept
    <3> QED BY <2>5, <3>1, <3>2 DEF SavesAreKept, Flags
  <2>7. projects' = projects /\ aliases' = aliases
        /\ UNCHANGED <<platform, people, pages, editing, meant>>
    BY <1>1
  <2> QED BY <1>1, <1>2, <2>1, <2>3, <2>4, <2>6, <2>7, RegisterKeeps
<1> QED BY <1>3, <1>4

LEMMA UpsertProjectKeeps ==
  ASSUME AdministrationAssumption, AdminInv, NEW a \in Admins, UpsertProject(a)
  PROVE  AdminInv'
<1> DEFINE sought == saving[a].form
           named == {Loose[w] : w \in {sought.body.name} \cup sought.body.aliases}
<1>1. saving[a].stage = "sent" /\ sought.kind = "project"
      /\ UNCHANGED <<platform, people, areas, pages, editing, meant, crossed>>
  BY DEF UpsertProject
<1>2. saving[a] \in AdminRequest
      /\ areas \in [AreaIds -> Words \cup {Empty}]
      /\ projects \in [ProjectIds -> Words \cup {Empty}]
      /\ aliases \in [Words -> ProjectIds \cup {Empty}]
  BY <1>1, AdminFacts
<1>3. sought.id \in ProjectIds /\ sought.body \in [name: Words, aliases: SUBSET Words]
  <2>1. sought \in AdminForm
    BY <1>2 DEF AdminRequest
  <2> QED BY <1>1, <2>1, FormTypes DEF IdsOf, BodyOf
<1>4. CASE \E q \in ProjectIds \ {sought.id} : projects[q] = sought.body.name
  <2>1. Stage(a, "refused") /\ UNCHANGED <<projects, aliases, writes>>
    BY <1>4 DEF UpsertProject
  <2>2. UNCHANGED <<stored, history, pages, editing>>
    BY <1>1, <2>1 DEF stored, history
  <2> QED BY <1>1, <2>1, <2>2, StageKeeps
<1>5. CASE ~ \E q \in ProjectIds \ {sought.id} : projects[q] = sought.body.name
  <2>1. /\ projects' = [projects EXCEPT ![sought.id] = sought.body.name]
        /\ aliases' = AddAliases(named, sought.id)
        /\ Stage(a, "done") /\ Wrote("areas")
    BY <1>5 DEF UpsertProject
  <2>2. projects' \in [ProjectIds -> Words \cup {Empty}] /\ projects'[sought.id] = sought.body.name
        /\ \A p \in ProjectIds \ {sought.id} : projects'[p] = projects[p]
    BY <1>2, <1>3, <2>1
  <2>3. aliases' \in [Words -> ProjectIds \cup {Empty}]
        /\ \A n \in Words : aliases'[n] = IF n \in named THEN sought.id ELSE aliases[n]
    <3> HIDE DEF named, sought
    <3> QED BY <1>2, <1>3, <2>1 DEF AddAliases
  <2>4. Loose[sought.body.name] \in named
    OBVIOUS
  <2> HIDE DEF named
  <2>5. ASSUME NEW p \in ProjectIds, projects'[p] # Empty
        PROVE  aliases'[Loose[projects'[p]]] # Empty
    <3>1. projects'[p] \in Words /\ Loose[projects'[p]] \in Words
      BY <2>2, <2>5 DEF AdministrationAssumption
    <3>2. sought.id # Empty
      BY <1>3 DEF AdministrationAssumption
    <3>3. p # sought.id => aliases[Loose[projects[p]]] # Empty
      BY <2>2, <2>5 DEF AdminInv, SavesAreKept
    <3> HIDE DEF sought
    <3> QED BY <2>2, <2>3, <2>4, <3>1, <3>2, <3>3
  <2>6. SavesAreKept'
    <3>1. "platform" \notin crossed' =>
            platform' = meant'.platform /\ people' = Flags(meant'.roles, platform'.heard)
      BY <1>1 DEF AdminInv, SavesAreKept, Flags
    <3>2. "areas" \notin crossed' =>
            \A b, c \in AreaIds :
              b # c /\ areas'[b] # Empty /\ areas'[c] # Empty => Loose[areas'[b]] # Loose[areas'[c]]
      BY <1>1 DEF AdminInv, SavesAreKept
    <3> QED BY <2>5, <3>1, <3>2 DEF SavesAreKept, Flags
  <2>7. areas' = areas /\ crossed' = crossed /\ crossed \subseteq Registers
        /\ UNCHANGED <<platform, people, pages, editing, meant>>
    BY <1>1 DEF AdminInv, AdminTypeOK
  <2> QED BY <1>1, <1>2, <2>1, <2>2, <2>3, <2>6, <2>7, RegisterKeeps
<1> QED BY <1>4, <1>5

LEMMA AdminKeeps ==
  ASSUME AdministrationAssumption, AdminInv, [AdminNext(Admins, FormKinds)]_adminVars
  PROVE  AdminInv'
<1>1. ASSUME AdminNext(Admins, FormKinds) PROVE AdminInv'
  <2>1. PICK a \in Admins :
          \/ OpenSettings(a) \/ (\E u \in People : OpenUser(a, u))
          \/ (\E k \in AreaIds : OpenArea(a, k)) \/ (\E p \in ProjectIds : OpenProject(a, p))
          \/ ChangeSettings(a) \/ ChangeUser(a) \/ ChangeArea(a) \/ ChangeProject(a)
          \/ CloseForm(a) \/ RenderPage(a) \/ SendForm(a)
          \/ ReadPlatform(a) \/ UpdateUser(a) \/ UpdateSettings(a)
          \/ CheckArea(a) \/ WriteArea(a) \/ UpsertProject(a)
          \/ AnswerForm(a) \/ RefuseForm(a)
    BY <1>1 DEF AdminNext
  <2> QED BY <2>1, OpensKeep, ChangesKeep, RenderPageKeeps, SendFormKeeps, ReadPlatformKeeps,
             UpdateUserKeeps, UpdateSettingsKeeps, CheckAreaKeeps, WriteAreaKeeps,
             UpsertProjectKeeps, AnswerFormKeeps, RefuseFormKeeps
<1>2. ASSUME UNCHANGED adminVars PROVE AdminInv'
  <2>1. UNCHANGED <<platform, people, areas, projects, aliases, pages, editing, saving,
                    writes, meant, crossed>>
    BY <1>2 DEF adminVars, stored, history
  <2>2. AdminTypeOK'
    BY <2>1 DEF AdminInv, AdminTypeOK, Reading
  <2>3. SavesAreKept'
    BY <2>1 DEF AdminInv, SavesAreKept
  <2>4. \A a \in Admins : ScreenIsCurrent(a)'
    BY <2>1 DEF AdminInv, ScreenIsCurrent, PageIsCurrent, FormIsCurrent, RequestIsCurrent,
                NameIsFree
  <2> QED BY <2>2, <2>3, <2>4 DEF AdminInv
<1> QED BY <1>1, <1>2

(* The settings, their forms and requests keep their types.                 *)
THEOREM AdminTypesHold == AdminSpec => []AdminTypeOK
<1>1. AdminInit => AdminInv
  BY AdministrationAssumption, AdminStarts
<1>2. AdminInv /\ [AdminNext(Admins, FormKinds)]_adminVars => AdminInv'
  BY AdministrationAssumption, AdminKeeps
<1>3. AdminInv => AdminTypeOK
  BY DEF AdminInv
<1> QED BY <1>1, <1>2, <1>3, PTL DEF AdminSpec

(* As long as no save rests on an older reading, what is stored is what was *)
(* last entered field by field, the flags of the users follow the list, and *)
(* no two areas share a name; whatever is saved over what, every name of a  *)
(* project leads to a project (admin/commands.ts).                          *)
THEOREM SavesAreAlwaysKept == AdminSpec => []SavesAreKept
<1>1. AdminInit => AdminInv
  BY AdministrationAssumption, AdminStarts
<1>2. AdminInv /\ [AdminNext(Admins, FormKinds)]_adminVars => AdminInv'
  BY AdministrationAssumption, AdminKeeps
<1>3. AdminInv => SavesAreKept
  BY DEF AdminInv
<1> QED BY <1>1, <1>2, <1>3, PTL DEF AdminSpec

=============================================================================
