------------------------------ MODULE OfficeMC ------------------------------
(***************************************************************************)
(* What people at the company see of the platform: the tasks an analysis   *)
(* made and their review, and the mails.                                   *)
(*                                                                         *)
(* As in BackgroundMC the parts share no state at the grain of their       *)
(* modules: every behaviour is one of the part in focus.                   *)
(***************************************************************************)
EXTENDS AiReview, DigestMail, LegacyImport, DemoSeed, WorkLists, TaskPage,
        SheetsSync, GeminiAnalyzer, ReviewDesk, Administration, TLC

VARIABLE focus

(* A task to be proposed, a change of one, a report that something was done *)
(* and a resemblance nobody can judge; heard in pairs.                      *)
ToPropose == [band |-> "PROPOSAL", hint |-> "NEW", redated |-> FALSE, unclear |-> FALSE,
              match |-> "none", judged |-> "CREATE_NEW"]
Change == [band |-> "REVIEW", hint |-> "UPDATE", redated |-> TRUE, unclear |-> TRUE,
           match |-> "close", judged |-> "CREATE_NEW"]
Done == [band |-> "AUTO_ACCEPT", hint |-> "DONE", redated |-> FALSE, unclear |-> FALSE,
         match |-> "grey", judged |-> "CREATE_NEW"]
Alike == [band |-> "AUTO_ACCEPT", hint |-> "NEW", redated |-> FALSE, unclear |-> FALSE,
          match |-> "grey", judged |-> "REQUIRES_HUMAN_REVIEW"]

SampleHearings == {<<>>, <<ToPropose, Alike>>, <<Change, Done>>}

(* Lines of the old workbook: done, handed in to an outsider of a project,  *)
(* one of an unknown word, one without a title.                             *)
LineOf(word, owner, names, day) ==
  [titled |-> TRUE, status |-> word, owner |-> owner, names |-> names, day |-> day]

SampleLines ==
  {LineOf("completo", "user", {}, "5 Aug"), LineOf("entregado", "outsider", {"Mario"}, "5 Aug"),
   LineOf("???", "nobody", {"Logistica"}, "none"),
   [LineOf("", "nobody", {}, "unreadable") EXCEPT !.titled = FALSE]}

(* A member of the staff, the manager of an area and of that person, and    *)
(* somebody who sees everything.                                            *)
Ana == [id |-> "ana", role |-> "MEMBER", areas |-> {}, team |-> {}]
Luis == [id |-> "luis", role |-> "MANAGER", areas |-> {"sales"}, team |-> {"ana"}]
Eva == [id |-> "eva", role |-> "DIRECTOR", areas |-> {}, team |-> {}]
SampleViewers == {Ana, Luis, Eva}
SampleVisitors == {Ana, Luis}

(* The tasks of the lists; days 1 to 7 are one week, 8 begins the next.     *)
Listed(status, owner, due, priority) ==
  [status |-> status, owner |-> owner, due |-> due, priority |-> priority,
   collaborators |-> {}, area |-> NoOne, external |-> FALSE, created |-> 1, unsure |-> FALSE]

SampleTasks ==
  {Listed("IN_PROGRESS", "ana", 6, "HIGH"),
   [Listed("BLOCKED", NoOne, 0, "LOW") EXCEPT !.area = "sales"],
   [Listed("COMPLETION_PROPOSED", "eva", 8, "HIGH") EXCEPT !.collaborators = {"ana"}],
   Listed("COMPLETED", "luis", 6, "LOW"),
   Listed("PROPOSED", "ana", 0, "LOW")}

AskFor(view, status, sort, priority, owner) ==
  [view |-> view, status |-> status, sort |-> sort, priority |-> priority, owner |-> owner]

SampleQueries ==
  {AskFor(v, NoOne, s, NoOne, NoOne) : v \in Views, s \in {"attention", "dueDate"}}
  \cup {AskFor("all", w, s, NoOne, NoOne) :
          w \in {"IN_PROGRESS", "COMPLETION_PROPOSED"}, s \in {"attention", "dueDate"}}
  \cup {AskFor("all", NoOne, s, "HIGH", NoOne) : s \in {"attention", "dueDate"}}
  \cup {AskFor(v, NoOne, "dueDate", NoOne, "ana") : v \in {"all", "mine"}}

(* The task of the page when it is opened: Ana's.                           *)
SampleBeginnings ==
  {[version |-> 0, status |-> s, owner |-> "ana", collaborators |-> {}, area |-> Absent,
    proposal |-> 0] : s \in {"PENDING", "PROPOSED", "COMPLETED"}}

(* One sheet of the two: what happens to one never shows on the other.  Of  *)
(* two meetings the later is projected.                                     *)
SampleSheets == <<"Reuniones">>
SampleRecent == [t \in {"Reuniones"} |-> 1]

(* Transcripts of one prompt and of several blocks; tasks heard twice, with *)
(* more and with less confidence, with a date and without.                  *)
Speech(n) == [text |-> n, speaker |-> 1]
SampleTranscripts ==
  {<<Speech(2)>>, <<Speech(9)>>, <<Speech(3), Speech(1), Speech(2), Speech(5), Speech(1)>>}

HeardOf(topic, confidence, dated) ==
  [topic |-> topic, confidence |-> confidence, dated |-> dated, owned |-> ~dated]
SampleHeard ==
  LET items == {HeardOf(1, 1, TRUE), HeardOf(1, 2, FALSE), HeardOf(2, 1, FALSE)} IN
  UNION {[1..n -> items] : n \in 0..3}

(* A page of cards; another item may be filed.                              *)
SampleFiled == <<"r1", "r2">>
SampleLinks ==
  {[screen |-> "inbox", page |-> 1, flagged |-> f] : f \in BOOLEAN}
  \cup {[screen |-> "inbox", page |-> 2, flagged |-> FALSE],
        [screen |-> "meeting", page |-> 1, flagged |-> FALSE]}

(* Names are compared in lower case.                                        *)
InLowerCase == [w \in {"Norte", "NORTE"} |-> "Norte"]

(* Bound: in one behaviour either people touch the spreadsheet or a request *)
(* is lost, not both.                                                       *)
OneOddity == hands' + snags' <= 1

(* Bound: two changes of tasks and meetings in one behaviour.               *)
FewChanges == MapThenSumSet(LAMBDA k : facts'["Reuniones"][k], Keys) <= 2

(* Bound: projects, saved in one step, are edited by one at a time.         *)
Alone(a) == \A b \in Admins \ {a} : editing[b] = Closed /\ saving[b] = Idle

AllVars == <<reviewVars, mailVars, importVars, seedVars, listVars, pageVars, sheetVars,
            geminiVars, deskVars, adminVars, focus>>

(* The parts out of focus rest in one of their initial states.              *)
Init ==
  /\ focus \in {"review", "mail", "import", "seed", "lists", "page", "sheets", "model", "desk",
               "platform", "areas", "projects"}
  /\ ReviewInit /\ MailInit /\ ImportInit /\ SeedInit /\ ListsInit /\ PageInit
  /\ SheetsInit /\ GeminiInit /\ DeskInit /\ AdminInit
  /\ focus # "review" => \A t \in Existing : tasks[t].status = "PENDING"
  /\ focus # "mail" => sendEmail
  /\ focus # "lists" => today = 7 /\ \A n \in Numbers : work[n].status = "BLOCKED"
  /\ focus # "page" => row.status = "PENDING" /\ visitor = Ana /\ place = "board"
  /\ \A k \in AreaIds : areas[k] # "NORTE"

Next ==
  \/ focus = "review" /\ ReviewNext
     /\ UNCHANGED <<mailVars, importVars, seedVars, listVars, pageVars, sheetVars, geminiVars, deskVars, adminVars, focus>>
  \/ focus = "mail" /\ MailNext
     /\ UNCHANGED <<reviewVars, importVars, seedVars, listVars, pageVars, sheetVars, geminiVars, deskVars, adminVars, focus>>
  \/ focus = "import" /\ ImportNext
     /\ UNCHANGED <<reviewVars, mailVars, seedVars, listVars, pageVars, sheetVars, geminiVars, deskVars, adminVars, focus>>
  \/ focus = "seed" /\ SeedNext
     /\ UNCHANGED <<reviewVars, mailVars, importVars, listVars, pageVars, sheetVars, geminiVars, deskVars, adminVars, focus>>
  \/ focus = "lists" /\ ListsNext
     /\ UNCHANGED <<reviewVars, mailVars, importVars, seedVars, pageVars, sheetVars, geminiVars, deskVars, adminVars, focus>>
  \/ focus = "page" /\ PageNext
     /\ UNCHANGED <<reviewVars, mailVars, importVars, seedVars, listVars, sheetVars, geminiVars, deskVars, adminVars, focus>>
  \/ focus = "sheets" /\ SheetsNext /\ OneOddity /\ FewChanges
     /\ UNCHANGED <<reviewVars, mailVars, importVars, seedVars, listVars, pageVars, geminiVars, deskVars, adminVars, focus>>
  \/ focus = "model" /\ GeminiNext
     /\ UNCHANGED <<reviewVars, mailVars, importVars, seedVars, listVars, pageVars, sheetVars, deskVars, adminVars, focus>>
  \/ focus = "desk" /\ DeskNext
     /\ UNCHANGED <<reviewVars, mailVars, importVars, seedVars, listVars, pageVars, sheetVars,
                    geminiVars, adminVars, focus>>
  \/ focus = "platform" /\ AdminNext(Admins, {"settings", "user"})
     /\ UNCHANGED <<reviewVars, mailVars, importVars, seedVars, listVars, pageVars, sheetVars,
                    geminiVars, deskVars, focus>>
  \/ focus = "areas" /\ AdminNext(Admins, {"area"})
     /\ UNCHANGED <<reviewVars, mailVars, importVars, seedVars, listVars, pageVars, sheetVars,
                    geminiVars, deskVars, focus>>
  \/ focus = "projects" /\ \E a \in Admins : Alone(a) /\ AdminNext({a}, {"project"})
     /\ UNCHANGED <<reviewVars, mailVars, importVars, seedVars, listVars, pageVars, sheetVars,
                    geminiVars, deskVars, focus>>

Spec == Init /\ [][Next]_AllVars

(* The part in focus keeps its types; the others rest.                      *)
OfficeTypesOK ==
  /\ focus = "review" => ReviewTypeOK
  /\ focus = "mail" => MailTypeOK
  /\ focus = "import" => ImportTypeOK
  /\ focus = "seed" => SeedTypeOK
  /\ focus = "lists" => ListsTypeOK
  /\ focus = "page" => PageTypeOK
  /\ focus = "sheets" => SheetsTypeOK
  /\ focus = "model" => GeminiTypeOK
  /\ focus = "desk" => DeskTypeOK
  /\ focus \in {"platform", "areas", "projects"} => AdminTypeOK
=============================================================================
