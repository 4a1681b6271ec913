----------------------------- MODULE SheetsSync -----------------------------
(***************************************************************************)
(* The projection of tasks and meetings onto a Google spreadsheet          *)
(* (sync-tasks-to-google-sheets.ts and the Sheets adapter).  A sync reads  *)
(* each sheet, finds the row of every key in what it read, writes over     *)
(* those rows by their numbers and appends the others, in three requests;  *)
(* meanwhile people sort, insert and delete rows, and another sync runs.   *)
(***************************************************************************)
EXTENDS FiniteSetsExt, SequencesExt, Naturals

CONSTANTS
  SheetNames,  \* the sheets, in the order they are synced
  Syncers,     \* the job and the people who ask for a sync
  Keys,        \* of a sheet, in the order tasks are listed, and meetings began
  Recent,      \* sheet -> how many of its keys, the latest, are projected
  MaxFacts,    \* bound: changes of a task or meeting
  MaxHands,    \* bound: what people do to the spreadsheet
  MaxSnags     \* bound: lost answers, requests given up, deaths

VARIABLES
  facts,        \* sheet -> key -> version of the task or meeting, 0 before it is born
  spreadsheet,  \* sheet -> its title row and its rows
  syncing,      \* the sync each syncer runs
  muddled,      \* sheets where rows are not found any more (history)
  hands, snags

sheetVars == <<facts, spreadsheet, syncing, muddled, hands, snags>>

Tabs == ToSet(SheetNames)

ASSUME SheetsAssumption ==
  /\ SheetNames \in Seq(ToSet(SheetNames)) /\ SheetNames # <<>>
  /\ Keys \subseteq Nat \ {0} /\ IsFiniteSet(Keys)
  /\ Recent \in [Tabs -> Nat]
  /\ MaxFacts \in Nat /\ MaxHands \in Nat /\ MaxSnags \in Nat

(* The cells of a row follow the columns of the projection or others; a row *)
(* of people's own, or an empty one, has no key.  Version 0 is one that     *)
(* people typed over.                                                       *)
RowFor(k, version) == [key |-> k, version |-> version, order |-> "ours"]
Keyless == RowFor(0, 0)
Row == [key: Keys \cup {0}, version: 0..MaxFacts, order: {"ours", "moved"}]
Sheet == [header: {"absent", "empty", "ours", "moved", "renamed"}, rows: Seq(Row)]
Sync == [step: {"meetings", "ensure", "read", "update", "append", "next"},
         tab: DOMAIN SheetNames, projected: [Tabs -> [Keys -> 0..MaxFacts]], read: Sheet,
         alone: BOOLEAN, landed: BOOLEAN]

NoSheet == [header |-> "absent", rows |-> <<>>]
NoSync == [step |-> "none", tab |-> 1]

SheetsTypeOK ==
  /\ facts \in [Tabs -> [Keys -> 0..MaxFacts]]
  /\ spreadsheet \in [Tabs -> Sheet]
  /\ syncing \in [Syncers -> Sync \cup {NoSync}]
  /\ muddled \subseteq Tabs
  /\ hands \in 0..MaxHands /\ snags \in 0..MaxSnags

SheetsInit ==
  /\ facts = [t \in Tabs |-> [k \in Keys |-> 0]]
  /\ spreadsheet = [t \in Tabs |-> NoSheet]
  /\ syncing = [s \in Syncers |-> NoSync]
  /\ muddled = {}
  /\ hands = 0 /\ snags = 0

----------------------------------------------------------------------------
(* What is projected, and where it is found.                                *)

(* Every task; the latest meetings.                                         *)
Projected(t, known) ==
  {k \in Keys : known[k] > 0
                /\ Cardinality({j \in Keys : j > k /\ known[j] > 0}) < Recent[t]}

TabOf(s) == SheetNames[syncing[s].tab]
ToWrite(s) == Projected(TabOf(s), syncing[s].projected[TabOf(s)])

(* The key is read from the column the title row calls UUID, wherever that  *)
(* is; a sheet without it has no keys.  The first row of a key is its row.  *)
RowsOf(sheet, k) ==
  {i \in DOMAIN sheet.rows :
     /\ sheet.rows[i].key = k
     /\ sheet.rows[i].order = IF sheet.header = "empty" THEN "ours" ELSE sheet.header}

(* Mutant: a row is known by its place in the list.                         *)
RowNumbersByPosition(s) == [k \in {k \in ToWrite(s) : k \in DOMAIN syncing[s].read.rows} |-> k]

RowNumbers(s) ==
  [k \in {k \in ToWrite(s) : RowsOf(syncing[s].read, k) # {}} |-> Min(RowsOf(syncing[s].read, k))]

Values(s, k) == RowFor(k, syncing[s].projected[TabOf(s)][k])

Inserts(s) ==
  LET keys == CHOOSE seq \in SetToSeqs(ToWrite(s) \ DOMAIN RowNumbers(s)) :
                \A i, j \in DOMAIN seq : i < j => seq[i] < seq[j] IN
  [n \in DOMAIN keys |-> Values(s, keys[n])]

(* batchUpdate: whole rows, by number; the title row when it was not ours.  *)
Overwritten(s) ==
  LET sheet == spreadsheet[TabOf(s)]
      at == RowNumbers(s)
      end == Max({Len(sheet.rows)} \cup {at[k] : k \in DOMAIN at}) IN
  [header |-> IF syncing[s].read.header # "ours" THEN "ours" ELSE sheet.header,
   rows |-> [i \in 1..end |->
               IF \E k \in DOMAIN at : at[k] = i
               THEN Values(s, CHOOSE k \in DOMAIN at : at[k] = i)
               ELSE IF i \in DOMAIN sheet.rows THEN sheet.rows[i] ELSE Keyless]]

(* Rows of other keys stay as they are under a title row put back in order. *)
Strands(s) ==
  /\ syncing[s].read.header = "moved"
  /\ \E i \in DOMAIN syncing[s].read.rows :
       syncing[s].read.rows[i].key \notin ToWrite(s) \cup {0}

Appended(s) == [spreadsheet[TabOf(s)] EXCEPT !.rows = @ \o Inserts(s)]

----------------------------------------------------------------------------
(* A sync.                                                                  *)

At(s, step) == syncing[s] # NoSync /\ syncing[s].step = step

Advance(s, step) == [syncing EXCEPT ![s].step = step]

(* Whoever read the sheet before reads what is no longer there.             *)
Unread(t, runs, s) ==
  [p \in Syncers |-> IF p # s /\ runs[p] # NoSync /\ SheetNames[runs[p].tab] = t
                     THEN [runs[p] EXCEPT !.alone = FALSE] ELSE runs[p]]

(* The tasks are read in one query, the meetings later one by one.          *)
BeginSync(s) ==
  /\ syncing[s] = NoSync
  /\ syncing' = [syncing EXCEPT ![s] =
       [step |-> "meetings", tab |-> 1, projected |-> facts, read |-> NoSheet,
        alone |-> TRUE, landed |-> FALSE]]
  /\ UNCHANGED <<facts, spreadsheet, muddled, hands, snags>>

ReadMeetings(s) ==
  /\ At(s, "meetings")
  /\ syncing' = [Advance(s, "ensure") EXCEPT ![s].projected =
       [t \in Tabs |-> IF t = "Reuniones" THEN facts[t] ELSE @[t]]]
  /\ UNCHANGED <<facts, spreadsheet, muddled, hands, snags>>

(* ensureSheet.  When another sync adds the sheet in between, Google        *)
(* refuses a second of its name and this sync fails (GiveUpSync).           *)
EnsureSheet(s) ==
  /\ At(s, "ensure")
  /\ LET t == TabOf(s) IN
     IF spreadsheet[t] = NoSheet
     THEN /\ spreadsheet' = [spreadsheet EXCEPT ![t].header = "empty"]
          /\ syncing' = Unread(t, Advance(s, "read"), s)
     ELSE syncing' = Advance(s, "read") /\ UNCHANGED spreadsheet
  /\ UNCHANGED <<facts, muddled, hands, snags>>

ReadSheet(s) ==
  /\ At(s, "read")
  /\ syncing' = [Advance(s, "update") EXCEPT ![s].read = spreadsheet[TabOf(s)],
                                              ![s].alone = TRUE, ![s].landed = FALSE]
  /\ UNCHANGED <<facts, spreadsheet, muddled, hands, snags>>

(* A request that writes, when it has something to write.  Its answer may   *)
(* be lost: withGoogleRetry sends it again.                                 *)
Send(s, step, then, needed, written) ==
  /\ At(s, step)
  /\ IF ~needed
     THEN syncing' = Advance(s, then) /\ UNCHANGED <<spreadsheet, muddled, snags>>
     ELSE LET t == TabOf(s) IN
          /\ spreadsheet' = [spreadsheet EXCEPT ![t] = written]
          /\ muddled' = muddled \cup
               {x \in {t} : \/ ~syncing[s].alone
                            \/ step = "append" /\ syncing[s].landed
                            \/ step = "update" /\ Strands(s)}
          /\ \/ /\ syncing' = Unread(t, [Advance(s, then) EXCEPT ![s].landed = FALSE], s)
                /\ UNCHANGED snags
             \/ /\ snags < MaxSnags /\ snags' = snags + 1
                /\ syncing' = Unread(t, [syncing EXCEPT ![s].landed = TRUE], s)
  /\ UNCHANGED <<facts, hands>>

UpdateRows(s) ==
  Send(s, "update", "append", syncing[s].read.header # "ours" \/ DOMAIN RowNumbers(s) # {}, Overwritten(s))

AppendRows(s) == Send(s, "append", "next", Inserts(s) # <<>>, Appended(s))

(* The next sheet; after the last, the audit entry and the answer.          *)
NextSheet(s) ==
  /\ At(s, "next")
  /\ syncing' = IF syncing[s].tab < Len(SheetNames)
                THEN [Advance(s, "ensure") EXCEPT ![s].tab = @ + 1]
                ELSE [syncing EXCEPT ![s] = NoSync]
  /\ UNCHANGED <<facts, spreadsheet, muddled, hands, snags>>

(* A request is refused or its retries run out, or the process dies: what   *)
(* was written stays, and nothing is audited.                               *)
GiveUpSync(s) ==
  /\ syncing[s] # NoSync
  /\ snags < MaxSnags /\ snags' = snags + 1
  /\ syncing' = [syncing EXCEPT ![s] = NoSync]
  /\ UNCHANGED <<facts, spreadsheet, muddled, hands>>

----------------------------------------------------------------------------
(* The others.                                                              *)

(* A task or a meeting is born or changes.                                  *)
FactChanges(t, k) ==
  /\ facts[t][k] < MaxFacts
  /\ facts' = [facts EXCEPT ![t][k] = @ + 1]
  /\ UNCHANGED <<spreadsheet, syncing, muddled, hands, snags>>

Turn(order) == IF order = "ours" THEN "moved" ELSE "ours"

(* People sort the sheet, put a row of their own on top, delete the first   *)
(* or type over it, move the columns or rename the column of the keys.      *)
Touched(sheet) ==
  {[sheet EXCEPT !.rows = Reverse(@)], [sheet EXCEPT !.rows = <<Keyless>> \o @],
   [header |-> Turn(sheet.header),
    rows |-> [i \in DOMAIN sheet.rows |-> [sheet.rows[i] EXCEPT !.order = Turn(@)]]],
   [sheet EXCEPT !.header = "renamed"]}
  \cup UNION {{[sheet EXCEPT !.rows = Tail(@)], [sheet EXCEPT !.rows[1].version = 0]} :
              i \in DOMAIN sheet.rows \cap {1}}

TouchSheet(t) ==
  /\ spreadsheet[t].header \in {"ours", "moved"}
  /\ hands < MaxHands /\ hands' = hands + 1
  /\ \E sheet \in Touched(spreadsheet[t]) \ {spreadsheet[t]} :
       /\ spreadsheet' = [spreadsheet EXCEPT ![t] = sheet]
       /\ muddled' = muddled \cup {x \in {t} : sheet.header = "renamed"}
  /\ syncing' = [s \in Syncers |-> IF syncing[s] # NoSync /\ TabOf(s) = t
                                   THEN [syncing[s] EXCEPT !.alone = FALSE] ELSE syncing[s]]
  /\ UNCHANGED <<facts, snags>>

SheetsNext ==
  \/ \E s \in Syncers :
       \/ BeginSync(s) \/ ReadMeetings(s) \/ EnsureSheet(s) \/ ReadSheet(s)
       \/ UpdateRows(s) \/ AppendRows(s) \/ NextSheet(s) \/ GiveUpSync(s)
  \/ \E t \in Tabs : TouchSheet(t) \/ \E k \in Keys : FactChanges(t, k)

SheetsSpec == SheetsInit /\ [][SheetsNext]_sheetVars

----------------------------------------------------------------------------
(* What a sync promises: "la identidad de cada fila es la columna clave,    *)
(* nunca la posicion".  However people sort, insert, delete and move        *)
(* columns between syncs, no key is on two rows, and a sync nobody crossed  *)
(* leaves every row of its projection as projected, under titles of its     *)
(* own, and every other row as it was.  Not so on a sheet somebody changed  *)
(* between the reading and the writing of a sync, where an append was sent  *)
(* twice, whose key column lost its name, or whose columns were moved while *)
(* it had rows outside the projection, as old meetings are.                 *)
SyncedIsCurrent ==
  \A t \in Tabs \ muddled :
    LET sheet == spreadsheet[t] IN
    /\ \A i, j \in DOMAIN sheet.rows :
         sheet.rows[i].key = sheet.rows[j].key => i = j \/ sheet.rows[i].key = 0
    /\ \A s \in Syncers : At(s, "next") /\ TabOf(s) = t /\ syncing[s].alone =>
         /\ sheet.header = "ours"
         /\ \A k \in ToWrite(s) : \E i \in DOMAIN sheet.rows : sheet.rows[i] = Values(s, k)
         /\ \A i \in DOMAIN syncing[s].read.rows :
              syncing[s].read.rows[i].key \notin ToWrite(s) =>
                sheet.rows[i] = syncing[s].read.rows[i]
=============================================================================
