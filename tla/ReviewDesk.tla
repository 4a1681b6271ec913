----------------------------- MODULE ReviewDesk -----------------------------
(***************************************************************************)
(* The screens where people answer the AI: the review inbox                *)
(* (revision-ia/review-list.tsx), a page of cards with three dialogs each, *)
(* and the settings of a meeting (reuniones/[id]/meeting-detail.tsx).      *)
(*                                                                         *)
(* Both are rendered by the server and refreshed under open dialogs: after *)
(* every decision, on every navigation.  Other people decide, set and      *)
(* analyse meanwhile.                                                      *)
(***************************************************************************)
EXTENDS FiniteSets, Naturals, Sequences, SequencesExt

CONSTANTS
  Findings,    \* review items
  Links,       \* bound: the addresses that are visited
  Filed,       \* those in the inbox at first, in order
  Flagged,     \* those of the reason the inbox can be filtered by
  Matched,     \* those with a candidate task
  DeskSize,    \* cards per page
  MaxStirs,    \* bound: what others do meanwhile
  MaxWaiting,  \* bound: requests waited for at once
  Typed,       \* what somebody entered
  Nobody

ASSUME DeskAssumption ==
  /\ Filed \in Seq(Findings) /\ IsInjective(Filed) /\ Nobody \notin Findings
  /\ Flagged \subseteq Findings /\ Matched \subseteq Findings
  /\ Links \subseteq [screen: {"inbox", "meeting"}, page: Nat \ {0}, flagged: BOOLEAN]
  /\ DeskSize \in Nat \ {0} /\ MaxStirs \in Nat /\ MaxWaiting \in Nat

VARIABLES
  pending,   \* the pending review items, oldest first
  settings,  \* of the meeting, in the database
  address,   \* what the browser asks for: screen, page and reason
  desk,      \* what is on screen
  refresh,   \* the render under way
  form,      \* the dialog that is open
  waiting,   \* requests waited for
  stirs

deskVars == <<pending, settings, address, desk, refresh, form, waiting, stirs>>

Addresses == [screen: {"inbox", "meeting"}, page: Nat \ {0}, flagged: BOOLEAN]
FirstPage == [screen |-> "inbox", page |-> 1, flagged |-> FALSE]

(* Confidentiality and exclusion from AI are saved together.                *)
Settings == {"normal", "excluded"}

(* What a card, or the settings dialog, can be used for.                    *)
Answers == {"approve", "merge", "reject", "settings"}

(* The fields of a dialog: its proposal for the finding it is about, the    *)
(* settings, or what somebody entered.                                      *)
Entries == Findings \cup {Typed} \cup Settings

Filled(a, f, s) == IF a = "settings" THEN s ELSE f

NoRender == [stage |-> "none", got |-> Nobody, again |-> FALSE]
Rendering == [NoRender EXCEPT !.stage = "asked"]

(* What a render shows, a dialog holds and a request carries.               *)
DeskPage == [at: Addresses, settings: Settings \cup {Nobody}, cards: Seq(Findings)]
DeskForm == [answer: Answers, about: Findings \cup {Nobody}, meant: Findings \cup {Nobody},
             entered: BOOLEAN, entry: Entries]
DeskRequest == [answer: Answers, about: Findings \cup {Nobody},
                meant: Findings \cup {Nobody}, sets: Settings \cup {Nobody},
                stage: {"travelling", "done", "refused"}, mounted: BOOLEAN]

DeskTypeOK ==
  /\ pending \in Seq(Findings) /\ IsInjective(pending)
  /\ settings \in Settings /\ address \in Addresses
  /\ desk \in DeskPage /\ Len(desk.cards) <= DeskSize
  /\ refresh.stage = "rendered" => refresh.got \in DeskPage /\ Len(refresh.got.cards) <= DeskSize
  /\ refresh \in [stage: {"none", "asked", "rendered"}, got: DeskPage \cup {Nobody},
                  again: BOOLEAN]
  /\ form # Nobody => form \in DeskForm
  /\ waiting \subseteq DeskRequest
  /\ stirs \in 0..MaxStirs

(* The page of listAiReviewItems; the browser never sends the reason.       *)
EndOf(page) == IF page * DeskSize < Len(pending) THEN page * DeskSize ELSE Len(pending)
Render(at) ==
  [at |-> at,
   settings |-> IF at.screen = "meeting" THEN settings ELSE Nobody,
   cards |-> IF at.screen = "meeting" THEN <<>>
             ELSE SubSeq(pending, (at.page - 1) * DeskSize + 1, EndOf(at.page))]

DeskInit ==
  /\ pending = Filed
  /\ settings = "normal"
  /\ address = FirstPage /\ desk = Render(FirstPage)
  /\ refresh = NoRender /\ form = Nobody /\ waiting = {} /\ stirs = 0

(* The cards on screen: the reason is applied to the page alone.            *)
IsShown(f, d) == f \in ToSet(d.cards) /\ (d.at.flagged => f \in Flagged)

(* The inbox without an item that was in it.                                *)
Answered(f) ==
  LET place == CHOOSE i \in DOMAIN pending : pending[i] = f IN
  [i \in 1..(Len(pending) - 1) |-> IF i < place THEN pending[i] ELSE pending[i + 1]]

----------------------------------------------------------------------------
(* What others do: an analysis files an item, a colleague answers one or    *)
(* stirs the settings.                                                    *)
Elsewhere ==
  /\ stirs < MaxStirs /\ stirs' = stirs + 1
  /\ \/ \E f \in Findings \ (ToSet(Filed) \cup ToSet(pending)) : pending' = Append(pending, f)
        /\ UNCHANGED settings
     \/ \E f \in ToSet(pending) : pending' = Answered(f)
        /\ UNCHANGED settings
     \/ \E s \in Settings \ {settings} : settings' = s
        /\ UNCHANGED pending
  /\ UNCHANGED <<address, desk, refresh, form, waiting>>

----------------------------------------------------------------------------
(* The browser.                                                             *)

(* A dialog is filled in when it opens.                                     *)
OpenForm(a, f) ==
  /\ form = Nobody
  /\ IF a = "settings"
     THEN desk.at.screen = "meeting" /\ f = Nobody
     ELSE IsShown(f, desk) /\ (a = "merge" => f \in Matched)
  /\ form' = [answer |-> a, about |-> f, meant |-> f, entered |-> FALSE,
              entry |-> Filled(a, f, desk.settings)]
  /\ UNCHANGED <<pending, settings, address, desk, refresh, waiting, stirs>>

(* A setting is switched, another owner or target chosen, a note written.   *)
Enter ==
  /\ form # Nobody /\ ~form.entered
  /\ \E e \in IF form.answer = "settings" THEN Settings \ {form.entry} ELSE {Typed} :
       form' = [form EXCEPT !.entry = e, !.entered = TRUE]
  /\ UNCHANGED <<pending, settings, address, desk, refresh, waiting, stirs>>

DismissForm ==
  /\ form # Nobody /\ form' = Nobody
  /\ UNCHANGED <<pending, settings, address, desk, refresh, waiting, stirs>>

(* Each button waits for its own request only.                              *)
SubmitForm ==
  /\ form # Nobody
  /\ Cardinality(waiting) < MaxWaiting
  /\ \A w \in waiting : w.mounted /\ w.answer = form.answer => w.about # form.about
  /\ waiting' = waiting \cup
       {[answer |-> form.answer, about |-> form.about, meant |-> form.meant,
         sets |-> IF form.answer = "settings" THEN form.entry ELSE Nobody,
         stage |-> "travelling", mounted |-> TRUE]}
  /\ UNCHANGED <<pending, settings, address, desk, refresh, form, stirs>>

(* A modal dialog keeps the page behind it out of reach.                    *)
Navigate(to) ==
  /\ form = Nobody /\ to # address
  /\ address' = to
  /\ refresh' = Rendering
  /\ UNCHANGED <<pending, settings, desk, form, waiting, stirs>>

----------------------------------------------------------------------------
(* The server.                                                              *)

ServeDecision(w) ==
  /\ w.stage = "travelling"
  /\ LET answered(stage) == waiting' = (waiting \ {w}) \cup {[w EXCEPT !.stage = stage]} IN
     CASE w.answer = "settings" ->
            settings' = w.sets /\ answered("done") /\ UNCHANGED pending
       [] w.answer # "settings" /\ w.about \in ToSet(pending) ->
            pending' = Answered(w.about) /\ answered("done") /\ UNCHANGED settings
       [] OTHER -> answered("refused") /\ UNCHANGED <<pending, settings>>
  /\ UNCHANGED <<address, desk, refresh, form, stirs>>

ServeRender ==
  /\ refresh.stage = "asked"
  /\ refresh' = [refresh EXCEPT !.stage = "rendered", !.got = Render(address)]
  /\ UNCHANGED <<pending, settings, address, desk, form, waiting, stirs>>

----------------------------------------------------------------------------
(* The answers.                                                             *)

(* setDialog(null) closes whatever dialog the card has open, if the card is *)
(* still the one that asked; then the page is rendered again, after the     *)
(* render that may be under way.                                            *)
DecisionMade(w) ==
  /\ w.stage = "done"
  /\ waiting' = waiting \ {w}
  /\ form' = IF form # Nobody /\ w.mounted /\ form.about = w.about
                /\ (form.answer = "settings") = (w.answer = "settings")
             THEN Nobody ELSE form
  /\ refresh' = IF refresh.stage = "none"
                THEN Rendering ELSE [refresh EXCEPT !.again = TRUE]
  /\ UNCHANGED <<pending, settings, address, desk, stirs>>

DecisionRefused(w) ==
  /\ w.stage = "refused"
  /\ waiting' = waiting \ {w}
  /\ UNCHANGED <<pending, settings, address, desk, refresh, form, stirs>>

(* Mutant: cards are told apart by their place on the page.                 *)
KeptByPosition(new) ==
  IF form.answer = "settings"
  THEN IF new.at.screen = "meeting" THEN form ELSE Nobody
  ELSE LET shown(d) == SelectSeq(d.cards, LAMBDA f : IsShown(f, d))
           place == CHOOSE i \in DOMAIN shown(desk) : shown(desk)[i] = form.about IN
       IF place \notin DOMAIN shown(new) THEN Nobody
       ELSE [form EXCEPT !.about = shown(new)[place],
                         !.entry = IF form.answer = "reject" THEN form.entry ELSE shown(new)[place],
                         !.entered = form.entered /\ form.answer = "reject"]

(* What a render makes of an open dialog.  A card that leaves the page      *)
(* takes its dialog along.  The forms of a new task and of a merge are      *)
(* filled in anew with every item they are given, over what was entered;    *)
(* the settings with every value that changed; the note of a rejection      *)
(* stays.                                                                   *)
Kept(new) ==
  CASE form.answer = "settings" ->
         IF new.at.screen # "meeting" THEN Nobody
         ELSE IF new.settings = desk.settings THEN form
         ELSE [form EXCEPT !.entry = new.settings, !.entered = FALSE]
    [] form.answer # "settings" /\ ~IsShown(form.about, new) -> Nobody
    [] form.answer = "reject" /\ IsShown(form.about, new) -> form
    [] OTHER -> [form EXCEPT !.entry = form.about, !.entered = FALSE]

StillMounted(w, new) ==
  w.mounted /\ IF w.answer = "settings" THEN new.at.screen = "meeting" ELSE IsShown(w.about, new)

LandRender ==
  /\ refresh.stage = "rendered"
  /\ desk' = refresh.got
  /\ form' = IF form = Nobody THEN Nobody ELSE Kept(refresh.got)
  /\ waiting' = {[w EXCEPT !.mounted = StillMounted(w, refresh.got)] : w \in waiting}
  /\ refresh' = IF refresh.again THEN Rendering ELSE NoRender
  /\ UNCHANGED <<pending, settings, address, stirs>>

DeskNext ==
  \/ Elsewhere
  \/ \E a \in Answers, f \in Findings \cup {Nobody} : OpenForm(a, f)
  \/ Enter \/ DismissForm \/ SubmitForm
  \/ \E to \in Links : Navigate(to)
  \/ \E w \in waiting : ServeDecision(w) \/ DecisionMade(w) \/ DecisionRefused(w)
  \/ ServeRender \/ LandRender

DeskSpec == DeskInit /\ [][DeskNext]_deskVars

----------------------------------------------------------------------------
(* A decision is about the finding whose dialog was opened, however the     *)
(* page was shifted under it by other decisions; what nobody entered is     *)
(* what the page shows of that finding, or of the meeting, now.             *)
DecisionsAreMeant ==
  /\ form # Nobody =>
       /\ form.about = form.meant
       /\ form.about # Nobody => IsShown(form.about, desk)
       /\ ~form.entered => form.entry = Filled(form.answer, form.about, desk.settings)
  /\ \A w \in waiting : w.about = w.meant
=============================================================================
