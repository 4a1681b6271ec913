----------------------------- MODULE LegacyImport -----------------------------
(***************************************************************************)
(* The import of the old workbook (scripts/legacy-import): an operator     *)
(* runs it over a file, dry or to commit, again and again while others     *)
(* edit the workbook, work on the tasks already imported and keep the      *)
(* catalogs.  A run reads the file and the database first and writes in    *)
(* one transaction later.                                                  *)
(*                                                                         *)
(* A line is known by its place: file, sheet and row.                      *)
(***************************************************************************)
EXTENDS ActionItemStateMachine, Naturals, Sequences, SequencesExt

CONSTANTS
  Files, Sheets,
  Externals,   \* the sheet of external people
  Lines,       \* contents a line of the workbook can have
  Operators,   \* runs of the command line at once
  MaxRows, MaxImports, MaxEdits

StatusWords == {"", "pendiente", "en proceso", "completo", "entregado",
                "en pausa", "cancelado", "???"}
(* Names are the project and the external person a line mentions; a day is   *)
(* "none" or "unreadable" when the cell is empty or no date.                *)
Line == [titled: BOOLEAN, status: StatusWords, owner: {"nobody", "user", "outsider"},
         names: SUBSET STRING, day: STRING]

ASSUME ImportAssumption ==
  /\ Lines \subseteq Line
  /\ Externals \in Sheets /\ MaxRows \in Nat /\ MaxImports \in Nat /\ MaxEdits \in Nat

VARIABLES
  book,        \* the workbooks on disk
  known,       \* names of projects and of external people in the catalogs
  juntas,      \* LEGACY_IMPORT meetings per sheet and day
  board,       \* the tasks imported from each place
  refs,        \* LegacyImportReference: places already imported
  importing,   \* what each run is about to write
  imports, edits

importVars == <<book, known, juntas, board, refs, importing, imports, edits>>

Places == Files \X Sheets \X (1..MaxRows)
NoDay == {"none", "unreadable"}
LegacyTask == [status: Status, owner: {"nobody", "user", "outsider"},
               linked: BOOLEAN, proposed: BOOLEAN]
NoImport == [step |-> "none"]
Days == {l.day : l \in Lines} \ NoDay
Names == UNION {l.names : l \in Lines}
Workbook == [Sheets -> Seq(Lines)]
ImportPlan ==
  [step: {"planned"}, read: Workbook, places: SUBSET Places,
   juntas: SUBSET (Sheets \X Days), names: SUBSET Names]

ImportTypeOK ==
  /\ book \in [Files -> Workbook]
  /\ \A f \in Files, s \in Sheets : Len(book[f][s]) <= MaxRows
  /\ known \subseteq Names
  /\ juntas \in [Sheets \X Days -> Nat]
  /\ board \in [Places -> Seq(LegacyTask)]
  /\ refs \subseteq Places
  /\ importing \in [Operators -> ImportPlan \cup {NoImport}]
  /\ imports \in 0..MaxImports /\ edits \in 0..MaxEdits

ImportInit ==
  /\ book = [f \in Files |-> [s \in Sheets |-> <<>>]]
  /\ known = {} /\ refs = {}
  /\ juntas = [sd \in Sheets \X Days |-> 0]
  /\ board = [p \in Places |-> <<>>]
  /\ importing = [o \in Operators |-> NoImport]
  /\ imports = 0 /\ edits = 0

----------------------------------------------------------------------------
(* initialStatusFromLegacy: an unknown word counts as pending.              *)
InitialStatus(word) ==
  CASE word = "en proceso" -> "IN_PROGRESS"
    [] word = "completo" -> "COMPLETED"
    [] word = "entregado" -> "COMPLETION_PROPOSED"
    [] word = "en pausa" -> "BLOCKED"
    [] word = "cancelado" -> "CANCELLED"
    [] OTHER -> "PENDING"

(* The sheet of external people has no users: whoever is named is one of    *)
(* them.                                                                    *)
Owner(sheet, line) ==
  IF sheet = Externals /\ line.owner # "nobody" THEN "outsider" ELSE line.owner

(* The task a line becomes, with its proposal of closure when the work had  *)
(* been delivered: nobody approved it yet.                                  *)
Born(sheet, line) ==
  LET status == InitialStatus(line.status) IN
  [status |-> status, owner |-> Owner(sheet, line),
   linked |-> line.day \notin NoDay, proposed |-> status = "COMPLETION_PROPOSED"]

LineAt(read, place) == read[place[2]][place[3]]

(* The lines of a file that have a title and a place not imported before.   *)
ToImport(file, read) ==
  {p \in {file} \X Sheets \X (1..MaxRows) :
     p[3] <= Len(read[p[2]]) /\ LineAt(read, p).titled /\ p \notin refs}

(* One meeting for each sheet and day the lines mention, unless one of that *)
(* title is found.                                                          *)
MissingJuntas(read, places) ==
  {sd \in Sheets \X Days :
     juntas[sd] = 0 /\ \E p \in places : p[2] = sd[1] /\ LineAt(read, p).day = sd[2]}

NewNames(read, places) == UNION {LineAt(read, p).names : p \in places} \ known

(* runLegacyImport up to its transaction: the file, the catalogs and the    *)
(* places imported are read once.                                           *)
Plan(o, file, mode) ==
  /\ importing[o] = NoImport /\ imports < MaxImports
  /\ LET read == book[file]
         places == ToImport(file, read) IN
     importing' = [importing EXCEPT ![o] =
       IF mode = "dry-run" \/ places = {} THEN NoImport
       ELSE [step |-> "planned", read |-> read, places |-> places,
             juntas |-> MissingJuntas(read, places), names |-> NewNames(read, places)]]
  /\ imports' = imports + 1
  /\ UNCHANGED <<book, known, juntas, board, refs, edits>>

(* Mutant: a second run updates the tasks in place, as runbooks/            *)
(* legacy-import.md:59 has it.                                              *)
WrittenInPlace(plan, p) ==
  IF p \in plan.places THEN Append(board[p], Born(p[2], LineAt(plan.read, p)))
  ELSE IF p[3] <= Len(plan.read[p[2]]) /\ board[p] # <<>>
  THEN <<Born(p[2], LineAt(plan.read, p))>>
  ELSE board[p]

Written(plan, p) ==
  IF p \in plan.places THEN Append(board[p], Born(p[2], LineAt(plan.read, p))) ELSE board[p]

(* Mutant: the tasks are saved and the run dies before the references.      *)
CommitInPieces(o) ==
  LET plan == importing[o] IN
  /\ plan.step = "planned" /\ plan.names \cap known = {}
  /\ board' = [p \in Places |-> Written(plan, p)]
  /\ refs' = refs
  /\ juntas' = [sd \in Sheets \X Days |-> juntas[sd] + IF sd \in plan.juntas THEN 1 ELSE 0]
  /\ known' = known \cup plan.names
  /\ importing' = [importing EXCEPT ![o] = NoImport]
  /\ UNCHANGED <<book, imports, edits>>

(* The transaction: catalogs, meetings, tasks and, at its end, references.  *)
Commit(o) ==
  LET plan == importing[o] IN
  /\ plan.step = "planned" /\ plan.names \cap known = {}
  /\ board' = [p \in Places |-> Written(plan, p)]
  /\ refs' = refs \cup plan.places
  /\ juntas' = [sd \in Sheets \X Days |-> juntas[sd] + IF sd \in plan.juntas THEN 1 ELSE 0]
  /\ known' = known \cup plan.names
  /\ importing' = [importing EXCEPT ![o] = NoImport]
  /\ UNCHANGED <<book, imports, edits>>

(* It fails whole: a name that was new is in the catalog by now (unique),   *)
(* the time is up, or the process dies.                                     *)
RollBackImport(o) ==
  /\ importing[o].step = "planned"
  /\ importing' = [importing EXCEPT ![o] = NoImport]
  /\ UNCHANGED <<book, known, juntas, board, refs, imports, edits>>

----------------------------------------------------------------------------
(* The workbook goes on being edited: a line is added, inserted above       *)
(* others or changed.                                                       *)
EditBook(file, sheet) ==
  LET rows == book[file][sheet] IN
  /\ edits < MaxEdits /\ edits' = edits + 1
  /\ \E line \in Lines, row \in 1..MaxRows :
       \/ /\ Len(rows) < MaxRows /\ row <= Len(rows) + 1
          /\ book' = [book EXCEPT ![file][sheet] = InsertAt(rows, row, line)]
       \/ /\ row <= Len(rows)
          /\ book' = [book EXCEPT ![file][sheet][row] = line]
  /\ UNCHANGED <<known, juntas, board, refs, importing, imports>>

(* An administrator adds a project or an external person.                   *)
AddName(name) ==
  /\ name \notin known /\ known' = known \cup {name}
  /\ UNCHANGED <<book, juntas, board, refs, importing, imports, edits>>

(* A person moves an imported task on; a proposal is answered by leaving.   *)
WorkOn(place, i) ==
  /\ i \in DOMAIN board[place]
  /\ \E to \in {"IN_PROGRESS", "COMPLETED"} :
       /\ CanTransition(board[place][i].status, to, "USER", TRUE)
       /\ board' = [board EXCEPT ![place][i].status = to, ![place][i].proposed = FALSE]
  /\ UNCHANGED <<book, known, juntas, refs, importing, imports, edits>>

ImportNext ==
  \/ \E o \in Operators, f \in Files, mode \in {"dry-run", "commit"} : Plan(o, f, mode)
  \/ \E o \in Operators : Commit(o) \/ RollBackImport(o)
  \/ \E f \in Files, s \in Sheets : EditBook(f, s)
  \/ \E name \in Names : AddName(name)
  \/ \E p \in Places, i \in 1..MaxImports : WorkOn(p, i)

ImportSpec == ImportInit /\ [][ImportNext]_importVars

----------------------------------------------------------------------------
(* However often the import is run again, interrupted or preceded by edits  *)
(* of the workbook, no place of it gives two tasks, each task has its       *)
(* reference, and the lines of one sheet and day hang from one meeting,     *)
(* whichever run brought them in (one run at a time: two at once each read  *)
(* the references before the other wrote them, and saveMany skips the       *)
(* duplicates).                                                             *)
ImportedOnce ==
  /\ \A p \in Places : Len(board[p]) <= 1 /\ (board[p] # <<>> <=> p \in refs)
  /\ \A sd \in Sheets \X Days : juntas[sd] <= 1
  /\ (\E p \in Places, i \in 1..MaxImports : i \in DOMAIN board[p] /\ board[p][i].linked)
       => \E sd \in Sheets \X Days : juntas[sd] = 1

(* A run never takes back the work on a task imported before: its status    *)
(* changes only the way a person may change it, and the task never goes.    *)
WorkIsKept ==
  [][\A p \in Places : \A i \in DOMAIN board[p] :
       /\ i \in DOMAIN board'[p]
       /\ board'[p][i].status # board[p][i].status =>
            CanTransition(board[p][i].status, board'[p][i].status, "USER", TRUE)]_importVars
=============================================================================
