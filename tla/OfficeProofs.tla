---------------------------- MODULE OfficeProofs -----------------------------
(***************************************************************************)
(* What people at the company see keeps its promises, for any tasks,       *)
(* colleagues, files, lines, viewers, pages, sheets and administrators.    *)
(*                                                                         *)
(* The mails: the marks follow from what a process remembers or was just   *)
(* told, so the invariant says what memories are worth, that a delivered   *)
(* key that is not in doubt is known to some process, and that nobody is   *)
(* about to send such a key again (MemoryIsRight, NoDoubt).                *)
(*                                                                         *)
(* The import: what is planned is not imported yet, and the meetings it    *)
(* lacks are lacking still, as long as one operator imports (PlansStand).  *)
(*                                                                         *)
(* The lists: the pages turned are the beginning of the order asked for,   *)
(* and the last total counts what is asked for (ScreenfulIsCurrent).  That *)
(* there is such an order at all, for any tasks, is shown by taking the    *)
(* smallest set of tasks without one.                                      *)
(*                                                                         *)
(* The spreadsheet: a sync nobody crossed finds the sheet as it read it or *)
(* as it writes it, at every step of the way (Found).                      *)
(*                                                                         *)
(* The demonstration: meetings come before tasks and a task's history with *)
(* the step that passes it, whatever died before (SeedInv); the tables are *)
(* gone through once, block by block (ItemsFit, MeetingsAre).              *)
(*                                                                         *)
(* Together: a behaviour of the office is one of each of its parts.        *)
(***************************************************************************)
EXTENDS OfficeMC, AiReviewProofs, ScreensProofs, FiniteSetTheorems

----------------------------------------------------------------------------
(* Sets of numbers, and orders.                                             *)

Total(R, S) == \A x, y \in S : x = y \/ <<x, y>> \in R \/ <<y, x>> \in R
Transitive(R, S) ==
  \A x, y, z \in S : <<x, y>> \in R /\ <<y, z>> \in R => <<x, z>> \in R

(* The last element of T.                                                   *)
IsTop(R, T, m) == m \in T /\ \A x \in T \ {m} : <<x, m>> \in R

(* f lists S in the order of R.                                             *)
Lists(R, S, f) ==
  f \in SetToSeqs(S) /\ \A i, j \in DOMAIN f : i < j => <<f[i], f[j]>> \in R

(* Among subsets of a finite set there is one with no smaller one: what     *)
(* stands in for induction over finite sets.                                *)
LEMMA SmallestSubset ==
  ASSUME NEW S, IsFiniteSet(S), NEW Bad \in SUBSET (SUBSET S), Bad # {}
  PROVE  \E T \in Bad : IsFiniteSet(T) /\ \A U \in Bad : U \subseteq T => U = T
<1>1. Bad \subseteq FiniteSubsetsOf(S)
  BY FS_FiniteSubsetsOfFinite
<1>2. PICK T \in Bad : \A U \in Bad : ~(<<U, T>> \in StrictSubsetOrdering(S))
  <2>1. IsWellFoundedOn(StrictSubsetOrdering(S), FiniteSubsetsOf(S))
    BY FS_StrictSubsetOrderingWellFounded
  <2> QED BY <1>1, <2>1, WFMin
<1>3. \A U \in Bad : U \subseteq T => U = T
  BY <1>2 DEF StrictSubsetOrdering
<1>4. IsFiniteSet(T)
  BY FS_Subset
<1> QED BY <1>3, <1>4

(* A finite set ordered by a total and transitive relation has a last       *)
(* element.                                                                 *)
LEMMA TopExists ==
  ASSUME NEW S, IsFiniteSet(S), S # {}, NEW R, Total(R, S), Transitive(R, S)
  PROVE  \E m \in S : IsTop(R, S, m)
<1> DEFINE Bad == {T \in SUBSET S : T # {} /\ ~\E m \in T : IsTop(R, T, m)}
<1>1. SUFFICES ASSUME Bad # {} PROVE FALSE
  OBVIOUS
<1>2. PICK T \in Bad : \A U \in Bad : U \subseteq T => U = T
  <2> HIDE DEF Bad
  <2> SUFFICES Bad \in SUBSET (SUBSET S)
    BY <1>1, SmallestSubset
  <2> QED BY DEF Bad
<1>3. PICK x \in T : TRUE
  OBVIOUS
<1>4. CASE T = {x}
  BY <1>4 DEF IsTop
<1>5. CASE T # {x}
  <2>1. T \ {x} # {} /\ T \ {x} \in SUBSET S /\ T \ {x} # T
    BY <1>3, <1>5
  <2>2. T \ {x} \notin Bad
    BY <1>2, <2>1
  <2>3. PICK m \in T \ {x} : IsTop(R, T \ {x}, m)
    BY <2>1, <2>2
  <2>4. CASE <<x, m>> \in R
    <3>1. IsTop(R, T, m)
      BY <2>3, <2>4 DEF IsTop
    <3> QED BY <3>1
  <2>5. CASE <<m, x>> \in R
    <3>1. \A y \in T \ {x} : <<y, x>> \in R
      BY <2>3, <2>5, <1>3 DEF IsTop, Transitive
    <3>2. IsTop(R, T, x)
      BY <3>1, <1>3 DEF IsTop
    <3> QED BY <3>2, <1>3
  <2> QED BY <2>4, <2>5, <1>3 DEF Total
<1> QED BY <1>4, <1>5

(* A finite set of numbers has a greatest one.                              *)
LEMMA GreatestOfNaturals ==
  ASSUME NEW S \in SUBSET Nat, S # {}, IsFiniteSet(S)
  PROVE  \E n \in S : \A m \in S : m <= n
<1> DEFINE R == {e \in S \X S : e[1] < e[2]}
<1>1. Total(R, S) /\ Transitive(R, S)
  BY DEF Total, Transitive
<1>2. PICK m \in S : IsTop(R, S, m)
  BY <1>1, TopExists
<1>3. \A x \in S \ {m} : <<x, m>> \in R
  BY <1>2 DEF IsTop
<1>4. \A x \in S \ {m} : x < m
  BY <1>3
<1>5. \A x \in S : x <= m
  BY <1>4
<1> QED BY <1>5

(* What the library's SetToSeqs promises: every element, once.              *)
LEMMA SetToSeqsParts ==
  ASSUME NEW S, IsFiniteSet(S), NEW f \in SetToSeqs(S)
  PROVE  /\ f \in Seq(S) /\ Len(f) = Cardinality(S) /\ Cardinality(S) \in Nat
         /\ ToSet(f) = S /\ IsInjective(f)
<1>1. Cardinality(S) \in Nat
  BY FS_CardinalityType
<1> DEFINE D == 1..Cardinality(S)
<1>2. f \in [D -> S] /\ IsInjective(f)
  BY DEF SetToSeqs, IsInjective
<1>3. IsFiniteSet(D) /\ Cardinality(D) = Cardinality(S)
  BY <1>1, FS_Interval
<1>4. f \in Injection(D, S)
  BY <1>2 DEF Injection
<1>5. f \in Surjection(D, S)
  BY <1>3, <1>4, FS_Injection
<1>6. ToSet(f) = S
  BY <1>2, <1>5 DEF Surjection, ToSet
<1>7. f \in Seq(S) /\ Len(f) = Cardinality(S)
  BY <1>1, <1>2
<1> QED BY <1>1, <1>2, <1>6, <1>7

(* A finite set can be listed in any total and transitive order.            *)
LEMMA ListExists ==
  ASSUME NEW S, IsFiniteSet(S), NEW R, Total(R, S), Transitive(R, S)
  PROVE  \E f \in SetToSeqs(S) : Lists(R, S, f)
<1> DEFINE Bad == {T \in SUBSET S : ~\E f \in SetToSeqs(T) : Lists(R, T, f)}
<1>1. SUFFICES ASSUME Bad # {} PROVE FALSE
  OBVIOUS
<1>2. PICK T \in Bad : /\ IsFiniteSet(T)
                       /\ \A U \in Bad : U \subseteq T => U = T
  <2> HIDE DEF Bad
  <2> SUFFICES Bad \in SUBSET (SUBSET S)
    BY <1>1, SmallestSubset
  <2> QED BY DEF Bad
<1>3. CASE T = {}
  <2>1. Cardinality(T) = 0
    BY <1>3, FS_EmptySet
  <2>2. <<>> \in SetToSeqs(T)
    BY <1>3, <2>1 DEF SetToSeqs
  <2>3. Lists(R, T, <<>>)
    BY <2>2 DEF Lists
  <2> QED BY <2>2, <2>3
<1>4. CASE T # {}
  <2>1. Total(R, T) /\ Transitive(R, T)
    BY DEF Total, Transitive
  <2>2. PICK m \in T : IsTop(R, T, m)
    BY <1>2, <1>4, <2>1, TopExists
  <2> DEFINE U == T \ {m}
             n == Cardinality(U)
  <2>3. IsFiniteSet(U) /\ Cardinality(T) = n + 1 /\ n \in Nat
    <3>1. IsFiniteSet(U) /\ n = Cardinality(T) - 1
      BY <1>2, <2>2, FS_RemoveElement
    <3>2. Cardinality(T) \in Nat /\ n \in Nat
      BY <1>2, <3>1, FS_CardinalityType
    <3> HIDE DEF U, n
    <3> QED BY <3>1, <3>2
  <2>4. U \notin Bad /\ U \in SUBSET S
    BY <1>2, <2>2
  <2>5. PICK f \in SetToSeqs(U) : Lists(R, U, f)
    BY <2>4
  <2>6. /\ f \in Seq(U) /\ Len(f) = n /\ f \in [1..n -> U]
        /\ \A i, j \in 1..n : i # j => f[i] # f[j]
    BY <2>3, SetToSeqsParts DEF SetToSeqs
  <2> DEFINE g == [i \in 1..(n + 1) |-> IF i = n + 1 THEN m ELSE f[i]]
  <2>7. g \in [1..(n + 1) -> T] /\ \A i, j \in 1..(n + 1) : i # j => g[i] # g[j]
    <3>1. \A i \in 1..(n + 1) : i = n + 1 \/ i \in 1..n
      BY <2>3
    <3>2. \A i \in 1..n : f[i] \in T /\ f[i] # m
      BY <2>6
    <3> QED BY <2>2, <2>3, <2>6, <3>1, <3>2
  <2>8. g \in SetToSeqs(T)
    BY <2>3, <2>7 DEF SetToSeqs
  <2>9. \A i, j \in 1..(n + 1) : i < j => <<g[i], g[j]>> \in R
    <3> SUFFICES ASSUME NEW i \in 1..(n + 1), NEW j \in 1..(n + 1), i < j
                 PROVE  <<g[i], g[j]>> \in R
      OBVIOUS
    <3>1. i \in 1..n /\ g[i] = f[i] /\ f[i] \in U
      BY <2>3, <2>6
    <3>2. CASE j = n + 1
      BY <3>1, <3>2, <2>2, <2>3 DEF IsTop
    <3>3. CASE j # n + 1
      <4>1. j \in 1..n /\ g[j] = f[j]
        BY <3>3, <2>3
      <4> QED BY <3>1, <4>1, <2>5, <2>6 DEF Lists
    <3> QED BY <3>2, <3>3
  <2>10. Lists(R, T, g)
    BY <2>7, <2>8, <2>9 DEF Lists
  <2> QED BY <2>8, <2>10
<1> QED BY <1>3, <1>4

----------------------------------------------------------------------------
(* The mails.                                                               *)

Sends(p, k) == sending[p] # NoMail /\ sending[p].key = k

(* Some process knows that k was delivered.                                 *)
KnownSent(k) ==
  \E p \in Processes :
    k \in remembered[p] \/ (Sends(p, k) /\ sending[p].step = "accepted")

(* What a process takes for delivered was.                                  *)
MemoryIsRight ==
  \A p \in Processes, k \in MailKeys :
    k \in remembered[p] \/ (Sends(p, k) /\ sending[p].step \in {"accepted", "noted"}) =>
      inbox[k] > 0

(* What was delivered and is not in doubt is known, and nobody is about to  *)
(* send it; no two processes send a key that is not in doubt.               *)
NoDoubt ==
  \A k \in MailKeys \ doubtful :
    /\ inbox[k] > 0 => KnownSent(k)
    /\ \A p \in Processes : Sends(p, k) /\ sending[p].step = "checked" => inbox[k] = 0
    /\ \A p, q \in Processes : Sends(p, k) /\ Sends(q, k) => p = q

(* A reminder under way belongs to a job under way.                         *)
RemindersHaveAJob ==
  sending["worker"] # NoMail /\ sending["worker"].key[1] = "reminder" =>
    remindJob.state = "active"

MailInv ==
  /\ MailTypeOK
  /\ MemoryIsRight
  /\ NoDoubt
  /\ RemindersHaveAJob
  /\ SentWasDelivered
  /\ RetriesMailOnce

----------------------------------------------------------------------------
LEMMA MailStarts ==
  ASSUME MailAssumption, MailInit
  PROVE  MailInv
<1>1. MailTypeOK
  BY DEF MailInit, MailTypeOK, MailAssumption, MailCap, NoJob
<1>2. MemoryIsRight /\ NoDoubt /\ RemindersHaveAJob
  BY DEF MailInit, MemoryIsRight, NoDoubt, RemindersHaveAJob, Sends, Processes
<1>3. SentWasDelivered /\ RetriesMailOnce
  BY DEF MailInit, SentWasDelivered, RetriesMailOnce
<1> QED BY <1>1, <1>2, <1>3 DEF MailInv

(* The key of a digest and that of a reminder cannot be the same.           *)
LEMMA KeyKinds ==
  ASSUME NEW k \in MailKeys
  PROVE  /\ k[1] \in {"digest", "reminder"}
         /\ k[1] = "digest" => k[2] \in Editions /\ k = <<"digest", k[2]>>
BY DEF MailKeys

(* A process that sends something has a mail of its own.                    *)
LEMMA SendingTyped ==
  ASSUME MailTypeOK, NEW p \in Processes, sending[p].step # "none"
  PROVE  /\ sending[p] \in Sending /\ sending[p] # NoMail
         /\ sending[p].key \in MailKeys /\ Sends(p, sending[p].key)
BY DEF MailTypeOK, NoMail, Sending, Sends

(* Nothing but the jobs, the digests and the switch changes.                *)
LEMMA PostUntouched ==
  ASSUME MailInv, MailTypeOK', UNCHANGED <<post, sentAt>>,
         remindJob.state = "active" => remindJob'.state = "active"
  PROVE  MailInv'
<1>1. MemoryIsRight' /\ NoDoubt' /\ SentWasDelivered' /\ RetriesMailOnce'
  BY DEF MailInv, MemoryIsRight, NoDoubt, SentWasDelivered, RetriesMailOnce, Sends, KnownSent, post
<1>2. RemindersHaveAJob'
  BY DEF MailInv, RemindersHaveAJob, post
<1> QED BY <1>1, <1>2 DEF MailInv
----------------------------------------------------------------------------
(* The check of a key: a process that does not remember it may send it, and *)
(* when another knows it, it is in doubt from now on.                       *)
LEMMA CheckKeeps ==
  ASSUME MailAssumption, MailInv, NEW p \in Processes, NEW k \in MailKeys, Check(p, k),
         p = "worker" /\ k[1] = "reminder" => remindJob.state = "active",
         UNCHANGED <<jobs, digests, mishaps>>
  PROVE  MailInv'
<1> DEFINE mail == [step |-> IF k \in remembered[p] THEN "noted" ELSE "checked", key |-> k]
<1>1. MailTypeOK /\ mail \in Sending /\ mail # NoMail
  BY DEF MailInv, Sending, NoMail
<1>2. sending' = [sending EXCEPT ![p] = mail] /\ sending[p] = NoMail
  BY DEF Check
<1>3. remembered' = remembered /\ inbox' = inbox
  BY DEF Check
<1>4. doubtful \subseteq doubtful' /\ doubtful' \subseteq doubtful \cup {k}
  BY DEF Check
<1>5. MailTypeOK'
  BY <1>1, <1>2, <1>3, <1>4 DEF MailTypeOK, jobs, digests
<1>6. /\ sending'[p] = mail
      /\ \A q \in Processes \ {p} : sending'[q] = sending[q]
  BY <1>1, <1>2 DEF MailTypeOK
<1>7. MemoryIsRight'
  <2> SUFFICES ASSUME NEW q \in Processes, NEW j \in MailKeys,
                      \/ j \in remembered[q]
                      \/ Sends(q, j)' /\ sending'[q].step \in {"accepted", "noted"}
               PROVE  inbox[j] > 0
    BY <1>3 DEF MemoryIsRight
  <2>1. CASE j \in remembered[q]
    BY <2>1 DEF MailInv, MemoryIsRight
  <2>2. CASE q # p /\ Sends(q, j)' /\ sending'[q].step \in {"accepted", "noted"}
    BY <1>6, <2>2 DEF MailInv, MemoryIsRight, Sends
  <2>3. CASE q = p /\ Sends(q, j)' /\ sending'[q].step \in {"accepted", "noted"}
    BY <1>6, <2>3 DEF MailInv, MemoryIsRight, Sends
  <2> QED BY <2>1, <2>2, <2>3
<1>8. NoDoubt'
  <2> SUFFICES ASSUME NEW j \in MailKeys \ doubtful'
               PROVE  /\ inbox[j] > 0 => KnownSent(j)'
                      /\ \A q \in Processes :
                           Sends(q, j)' /\ sending'[q].step = "checked" => inbox[j] = 0
                      /\ \A q, r \in Processes : Sends(q, j)' /\ Sends(r, j)' => q = r
    BY <1>3 DEF NoDoubt
  <2>1. /\ inbox[j] > 0 => KnownSent(j)
        /\ \A q \in Processes : Sends(q, j) /\ sending[q].step = "checked" => inbox[j] = 0
        /\ \A q, r \in Processes : Sends(q, j) /\ Sends(r, j) => q = r
    BY <1>4 DEF MailInv, NoDoubt
  <2>2. KnownSent(j) => KnownSent(j)'
    BY <1>2, <1>3, <1>6 DEF KnownSent, Sends
  <2>3. CASE j # k
    BY <1>6, <2>1, <2>2, <2>3 DEF Sends
  <2>4. CASE j = k
    <3>1. \A q \in Processes \ {p} : k \notin remembered[q] /\ ~Sends(q, k)
      BY <2>4 DEF Check, Sends
    <3>2. \A q \in Processes \ {p} : ~Sends(q, k)'
      BY <1>6, <3>1 DEF Sends
    <3>3. k \notin remembered[p] => ~KnownSent(k)
      BY <1>2, <3>1 DEF KnownSent, Sends
    <3>4. mail.step = "checked" => inbox[k] = 0
      BY <1>1, <2>1, <2>4, <3>3 DEF MailTypeOK, MailCap, MailAssumption
    <3> QED BY <1>6, <2>1, <2>2, <2>4, <3>2, <3>4
  <2> QED BY <2>3, <2>4
<1>9. RemindersHaveAJob'
  BY <1>1, <1>2, <1>6 DEF MailInv, RemindersHaveAJob, jobs, Processes
<1>10. SentWasDelivered' /\ RetriesMailOnce'
  BY <1>3, <1>4 DEF MailInv, SentWasDelivered, RetriesMailOnce, digests
<1> QED BY <1>5, <1>7, <1>8, <1>9, <1>10 DEF MailInv
(* What Gmail takes is known to the process, or in doubt.                   *)
LEMMA TakeKeeps ==
  ASSUME MailAssumption, MailInv, NEW p \in Processes, GmailTakes(p)
  PROVE  MailInv'
<1> DEFINE k == sending[p].key
<1>1. MailTypeOK /\ sending[p] \in Sending /\ sending[p] # NoMail /\ k \in MailKeys /\ Sends(p, k)
  BY SendingTyped DEF MailInv, GmailTakes
<1>2. inbox' = [inbox EXCEPT ![k] = @ + 1] /\ inbox[k] < MailCap /\ sending[p].step = "checked"
  BY DEF GmailTakes
<1>3. PICK step \in {"checked", "accepted"} :
        /\ sending' = [sending EXCEPT ![p].step = step]
        /\ doubtful' = IF step = "checked" THEN doubtful \cup {k} ELSE doubtful
        /\ mishaps' \in 0..MaxMishaps
  <2>1. ASSUME sending' = [sending EXCEPT ![p].step = "accepted"],
               UNCHANGED <<doubtful, mishaps>>
        PROVE  \E step \in {"checked", "accepted"} :
                 /\ sending' = [sending EXCEPT ![p].step = step]
                 /\ doubtful' = IF step = "checked" THEN doubtful \cup {k} ELSE doubtful
                 /\ mishaps' \in 0..MaxMishaps
    <3>1. mishaps' \in 0..MaxMishaps
      BY <1>1, <2>1 DEF MailTypeOK
    <3> QED BY <2>1, <3>1
  <2>2. ASSUME Mishap, doubtful' = doubtful \cup {k}, UNCHANGED sending
        PROVE  \E step \in {"checked", "accepted"} :
                 /\ sending' = [sending EXCEPT ![p].step = step]
                 /\ doubtful' = IF step = "checked" THEN doubtful \cup {k} ELSE doubtful
                 /\ mishaps' \in 0..MaxMishaps
    <3>1. [sending[p] EXCEPT !.step = "checked"] = sending[p]
      BY <1>1, <1>2 DEF Sending
    <3>2. sending' = [sending EXCEPT ![p].step = "checked"]
      BY <1>1, <2>2, <3>1 DEF MailTypeOK
    <3>3. mishaps' \in 0..MaxMishaps
      BY <1>1, <2>2 DEF Mishap, MailTypeOK, MailAssumption
    <3> QED BY <2>2, <3>2, <3>3
  <2> QED BY <2>1, <2>2 DEF GmailTakes
<1> DEFINE mail == [sending[p] EXCEPT !.step = step]
<1>4. mail \in Sending /\ mail # NoMail /\ mail.key = k /\ mail.step = step
  BY <1>1, <1>3 DEF Sending, NoMail
<1>5. /\ sending'[p] = mail
      /\ \A q \in Processes \ {p} : sending'[q] = sending[q]
      /\ sending' \in [Processes -> Sending \cup {NoMail}]
  BY <1>1, <1>3, <1>4 DEF MailTypeOK
<1> HIDE DEF mail
<1>6. /\ inbox' \in [MailKeys -> 0..MailCap] /\ inbox'[k] = inbox[k] + 1 /\ inbox'[k] > 0
      /\ inbox[k] \in Nat
      /\ \A j \in MailKeys \ {k} : inbox'[j] = inbox[j]
  BY <1>1, <1>2 DEF MailTypeOK, MailCap, MailAssumption
<1> HIDE DEF k
<1>7. remembered' = remembered
  BY DEF GmailTakes
<1>8. MailTypeOK'
  BY <1>1, <1>3, <1>5, <1>6 DEF MailTypeOK, GmailTakes, jobs, digests
<1>9. MemoryIsRight'
  <2> SUFFICES ASSUME NEW q \in Processes, NEW j \in MailKeys,
                      \/ j \in remembered[q]
                      \/ Sends(q, j)' /\ sending'[q].step \in {"accepted", "noted"}
               PROVE  inbox'[j] > 0
    BY <1>7 DEF MemoryIsRight
  <2>1. CASE j = k
    BY <1>6, <2>1
  <2>2. CASE j # k
    BY <1>4, <1>5, <1>6, <2>2 DEF MailInv, MemoryIsRight, Sends
  <2> QED BY <2>1, <2>2
<1>10. \A j \in MailKeys \ doubtful' : j # k \/ inbox[k] = 0
  BY <1>1, <1>2, <1>3 DEF MailInv, NoDoubt
<1>11. NoDoubt'
  <2> SUFFICES ASSUME NEW j \in MailKeys \ doubtful'
               PROVE  /\ inbox'[j] > 0 => KnownSent(j)'
                      /\ \A q \in Processes :
                           Sends(q, j)' /\ sending'[q].step = "checked" => inbox'[j] = 0
                      /\ \A q, r \in Processes : Sends(q, j)' /\ Sends(r, j)' => q = r
    BY DEF NoDoubt
  <2>1. /\ inbox[j] > 0 => KnownSent(j)
        /\ \A q \in Processes : Sends(q, j) /\ sending[q].step = "checked" => inbox[j] = 0
        /\ \A q, r \in Processes : Sends(q, j) /\ Sends(r, j) => q = r
    BY <1>3 DEF MailInv, NoDoubt
  <2>2. \A q \in Processes : Sends(q, j)' <=> Sends(q, j)
    BY <1>1, <1>4, <1>5 DEF Sends
  <2>3. CASE j # k
    <3>1. KnownSent(j) => KnownSent(j)'
      BY <1>1, <1>2, <1>5, <1>7, <2>2 DEF KnownSent
    <3>2. \A q \in Processes : Sends(q, j) => q # p
      BY <1>1, <2>3 DEF Sends
    <3> QED BY <1>5, <1>6, <2>1, <2>2, <2>3, <3>1, <3>2
  <2>4. CASE j = k
    <3>1. step = "accepted"
      BY <1>3, <2>4
    <3>2. KnownSent(j)' /\ sending'[p].step = "accepted"
      BY <1>1, <1>4, <1>5, <2>2, <2>4, <3>1 DEF KnownSent
    <3>3. \A q \in Processes : Sends(q, j) => q = p
      BY <1>1, <2>1, <2>4
    <3> QED BY <2>1, <2>2, <3>2, <3>3
  <2> QED BY <2>3, <2>4
<1>12. RemindersHaveAJob'
  BY <1>1, <1>4, <1>5 DEF MailInv, RemindersHaveAJob, jobs, Processes, GmailTakes, k
<1>13. SentWasDelivered'
  <2>1. \A v \in sentAt : v \in Editions /\ <<"digest", v>> \in MailKeys
    BY <1>1 DEF MailTypeOK, MailKeys
  <2> QED BY <1>6, <2>1 DEF MailInv, SentWasDelivered, GmailTakes, digests
<1>14. RetriesMailOnce'
  BY <1>3, <1>6, <1>10 DEF MailInv, RetriesMailOnce
<1> QED BY <1>8, <1>9, <1>11, <1>12, <1>13, <1>14 DEF MailInv

(* A process that drops its mail, and maybe its memory, leaves in doubt     *)
(* what nobody knows any more.                                              *)
LEMMA DropKeeps ==
  ASSUME MailInv, NEW p \in Processes,
         MailTypeOK', RemindersHaveAJob', SentWasDelivered',
         sending' = [sending EXCEPT ![p] = NoMail], inbox' = inbox,
         \A q \in Processes : remembered'[q] \subseteq remembered[q],
         doubtful \subseteq doubtful',
         \A k \in MailKeys \ doubtful' : KnownSent(k) => KnownSent(k)'
  PROVE  MailInv'
<1>1. /\ sending'[p] = NoMail
      /\ \A q \in Processes \ {p} : sending'[q] = sending[q]
  BY DEF MailInv, MailTypeOK
<1>2. \A q \in Processes, k \in MailKeys :
        Sends(q, k)' => Sends(q, k) /\ sending'[q] = sending[q]
  BY <1>1 DEF Sends
<1>3. MemoryIsRight'
  BY <1>2 DEF MailInv, MemoryIsRight
<1>4. NoDoubt'
  <2> SUFFICES ASSUME NEW k \in MailKeys \ doubtful'
               PROVE  /\ inbox[k] > 0 => KnownSent(k)'
                      /\ \A q \in Processes :
                           Sends(q, k)' /\ sending'[q].step = "checked" => inbox[k] = 0
                      /\ \A q, r \in Processes : Sends(q, k)' /\ Sends(r, k)' => q = r
    BY DEF NoDoubt
  <2>1. /\ inbox[k] > 0 => KnownSent(k)
        /\ \A q \in Processes : Sends(q, k) /\ sending[q].step = "checked" => inbox[k] = 0
        /\ \A q, r \in Processes : Sends(q, k) /\ Sends(r, k) => q = r
    BY DEF MailInv, NoDoubt
  <2> QED BY <1>2, <2>1
<1>5. RetriesMailOnce'
  BY DEF MailInv, RetriesMailOnce
<1> QED BY <1>3, <1>4, <1>5 DEF MailInv

LEMMA NoteKeeps ==
  ASSUME MailInv, NEW p \in Processes, Note(p)
  PROVE  MailInv'
<1> DEFINE k == sending[p].key
           mail == [sending[p] EXCEPT !.step = "noted"]
<1>1. /\ MailTypeOK /\ sending[p] \in Sending /\ sending[p] # NoMail
      /\ k \in MailKeys /\ Sends(p, k)
  BY SendingTyped DEF MailInv, Note
<1>2. mail \in Sending /\ mail # NoMail /\ mail.key = k /\ mail.step = "noted"
  BY <1>1 DEF Sending, NoMail
<1>3. /\ sending'[p] = mail
      /\ \A q \in Processes \ {p} : sending'[q] = sending[q]
      /\ sending' \in [Processes -> Sending \cup {NoMail}]
  BY <1>1, <1>2 DEF Note, MailTypeOK
<1> HIDE DEF mail
<1>4. /\ remembered'[p] = remembered[p] \cup {k}
      /\ \A q \in Processes \ {p} : remembered'[q] = remembered[q]
      /\ remembered' \in [Processes -> SUBSET MailKeys]
  BY <1>1 DEF Note, MailTypeOK
<1>5. sending[p].step = "accepted" /\ UNCHANGED <<jobs, digests, inbox, doubtful, mishaps>>
  BY DEF Note
<1>6. MailTypeOK'
  BY <1>1, <1>3, <1>4, <1>5 DEF MailTypeOK, jobs, digests
<1>7. inbox[k] > 0
  BY <1>1, <1>5 DEF MailInv, MemoryIsRight
<1>8. \A q \in Processes, j \in MailKeys : Sends(q, j)' <=> Sends(q, j)
  BY <1>1, <1>2, <1>3 DEF Sends
<1> HIDE DEF k
<1>9. MemoryIsRight'
  <2> SUFFICES ASSUME NEW q \in Processes, NEW j \in MailKeys,
                      \/ j \in remembered'[q]
                      \/ Sends(q, j)' /\ sending'[q].step \in {"accepted", "noted"}
               PROVE  inbox[j] > 0
    BY <1>5 DEF MemoryIsRight
  <2>1. CASE q # p
    BY <1>3, <1>4, <1>8, <2>1 DEF MailInv, MemoryIsRight
  <2>2. CASE q = p
    BY <1>4, <1>5, <1>7, <1>8, <2>2 DEF MailInv, MemoryIsRight, Sends, k
  <2> QED BY <2>1, <2>2
<1>10. \A j \in MailKeys : KnownSent(j) => KnownSent(j)'
  <2> SUFFICES ASSUME NEW j \in MailKeys, NEW q \in Processes,
                      \/ j \in remembered[q]
                      \/ Sends(q, j) /\ sending[q].step = "accepted"
               PROVE  KnownSent(j)'
    BY DEF KnownSent
  <2>1. CASE q # p
    BY <1>3, <1>4, <1>8, <2>1 DEF KnownSent
  <2>2. CASE q = p
    <3>1. j \in remembered'[p]
      BY <1>4, <2>2 DEF Sends, k
    <3> QED BY <3>1 DEF KnownSent
  <2> QED BY <2>1, <2>2
<1>11. NoDoubt'
  BY <1>2, <1>3, <1>5, <1>8, <1>10 DEF MailInv, NoDoubt
<1>12. RemindersHaveAJob'
  BY <1>1, <1>2, <1>3, <1>5 DEF MailInv, RemindersHaveAJob, jobs, Processes, k
<1>13. SentWasDelivered' /\ RetriesMailOnce'
  BY <1>5 DEF MailInv, SentWasDelivered, RetriesMailOnce, digests
<1> QED BY <1>6, <1>9, <1>11, <1>12, <1>13 DEF MailInv

(* A mail that was noted is remembered, or need not be: dropping it costs   *)
(* no knowledge.                                                            *)
LEMMA KnowledgeStays ==
  ASSUME MailInv, NEW p \in Processes, sending' = [sending EXCEPT ![p] = NoMail],
         sending[p].step # "accepted", remembered' = remembered
  PROVE  \A k \in MailKeys : KnownSent(k) => KnownSent(k)'
<1>1. \A q \in Processes \ {p} : sending'[q] = sending[q]
  BY DEF MailInv, MailTypeOK
<1> QED BY <1>1 DEF KnownSent, Sends

LEMMA MarkKeeps ==
  ASSUME MailInv, NEW p \in Processes, MarkDigest(p)
  PROVE  MailInv'
<1> DEFINE k == sending[p].key
<1>1. /\ MailTypeOK /\ k \in MailKeys /\ Sends(p, k)
      /\ sending[p].step = "noted"
  BY SendingTyped DEF MailInv, MarkDigest
<1>2. k[1] = "digest" /\ k[2] \in Editions /\ k = <<"digest", k[2]>>
  BY <1>1, KeyKinds DEF MarkDigest
<1>3. inbox[k] > 0
  BY <1>1 DEF MailInv, MemoryIsRight
<1>4. sentAt' = sentAt \cup {k[2]} /\ sending' = [sending EXCEPT ![p] = NoMail]
  BY DEF MarkDigest
<1> HIDE DEF k
<1>5. SentWasDelivered'
  BY <1>2, <1>3, <1>4 DEF MailInv, SentWasDelivered, MarkDigest
<1>6. MailTypeOK'
  BY <1>1, <1>2, <1>4 DEF MailTypeOK, MarkDigest
<1>7. RemindersHaveAJob'
  BY <1>1, <1>4 DEF MailInv, MailTypeOK, RemindersHaveAJob, MarkDigest, Processes
<1>8. \A j \in MailKeys : KnownSent(j) => KnownSent(j)'
  BY <1>1, <1>4, KnowledgeStays DEF MarkDigest
<1> QED BY <1>4, <1>5, <1>6, <1>7, <1>8, DropKeeps DEF MarkDigest

LEMMA RemindedKeeps ==
  ASSUME MailInv, Reminded
  PROVE  MailInv'
<1>1. MailTypeOK /\ "worker" \in Processes /\ sending["worker"].step = "noted"
  BY DEF MailInv, Reminded, Processes
<1>2. remindJob.state = "active"
  BY <1>1, SendingTyped DEF MailInv, RemindersHaveAJob, Reminded
<1>3. sending' = [sending EXCEPT !["worker"] = NoMail]
  BY DEF Reminded
<1>4. remindJob \in [state: {"active"}, rest: SUBSET Colleagues]
  BY <1>1, <1>2 DEF MailTypeOK, NoJob
<1>5. remindJob' \in [state: {"active"}, rest: SUBSET Colleagues] \cup {NoJob}
  BY <1>4 DEF Reminded
<1>6. MailTypeOK'
  BY <1>1, <1>3, <1>5 DEF MailTypeOK, Reminded, digests
<1>7. RemindersHaveAJob'
  BY <1>1, <1>3 DEF MailTypeOK, RemindersHaveAJob
<1>8. SentWasDelivered'
  BY DEF MailInv, SentWasDelivered, Reminded, digests
<1>9. \A j \in MailKeys : KnownSent(j) => KnownSent(j)'
  BY <1>1, <1>3, KnowledgeStays DEF Reminded
<1> QED BY <1>1, <1>3, <1>6, <1>7, <1>8, <1>9, DropKeeps DEF Reminded

LEMMA RequeueTyped ==
  ASSUME MailTypeOK
  PROVE  /\ Requeue(digestJob) \in [state: {"queued"}] \cup {NoJob}
         /\ Requeue(remindJob) \in [state: {"queued"}] \cup {NoJob}
BY DEF Requeue, NoJob

LEMMA MailFailKeeps ==
  ASSUME MailAssumption, MailInv, NEW p \in Processes, SendFails(p)
  PROVE  MailInv'
<1>1. MailTypeOK /\ sending[p].step \in {"checked", "noted"}
  BY DEF MailInv, SendFails
<1>2. sending' = [sending EXCEPT ![p] = NoMail] /\ remembered' = remembered
        /\ mishaps' \in 0..MaxMishaps
  BY <1>1 DEF SendFails, Mishap, MailTypeOK, MailAssumption
<1>3. digestJob' \in {digestJob, Requeue(digestJob)}
        /\ remindJob' \in {remindJob, Requeue(remindJob)}
  BY DEF SendFails, jobs
<1>4. MailTypeOK'
  BY <1>1, <1>2, <1>3, RequeueTyped DEF MailTypeOK, SendFails, digests
<1>5. RemindersHaveAJob'
  <2>1. CASE p = "worker"
    BY <1>1, <1>2, <2>1 DEF MailTypeOK, RemindersHaveAJob
  <2>2. CASE p = "api"
    BY <1>1, <1>2, <2>2 DEF MailInv, MailTypeOK, RemindersHaveAJob, SendFails, jobs, Processes
  <2> QED BY <2>1, <2>2 DEF Processes
<1>6. SentWasDelivered'
  BY DEF MailInv, SentWasDelivered, SendFails, digests
<1>7. \A j \in MailKeys : KnownSent(j) => KnownSent(j)'
  BY <1>1, <1>2, KnowledgeStays
<1> QED BY <1>2, <1>4, <1>5, <1>6, <1>7, DropKeeps DEF SendFails

LEMMA ForgetKeeps ==
  ASSUME MailAssumption, MailInv, NEW p \in Processes, Forget(p)
  PROVE  MailInv'
<1>1. MailTypeOK
  BY DEF MailInv
<1>2. sending' = [sending EXCEPT ![p] = NoMail] /\ mishaps' \in 0..MaxMishaps
  BY <1>1 DEF Forget, Mishap, MailTypeOK, MailAssumption
<1>3. /\ \A q \in Processes \ {p} : remembered'[q] = remembered[q] /\ sending'[q] = sending[q]
      /\ remembered'[p] = {}
      /\ remembered' \in [Processes -> SUBSET MailKeys]
  BY <1>1 DEF Forget, MailTypeOK
<1>4. sending[p].step = "accepted" => sending[p].key \in MailKeys
  BY <1>1, SendingTyped
<1>5. doubtful \subseteq doubtful' /\ doubtful' \subseteq MailKeys
        /\ remembered[p] \subseteq doubtful'
        /\ (sending[p].step = "accepted" => sending[p].key \in doubtful')
  BY <1>1, <1>4 DEF Forget, MailTypeOK
<1>6. digestJob' \in {digestJob, Requeue(digestJob)}
        /\ remindJob' \in {remindJob, Requeue(remindJob)}
  BY DEF Forget, jobs
<1>7. MailTypeOK'
  BY <1>1, <1>2, <1>3, <1>5, <1>6, RequeueTyped DEF MailTypeOK, Forget, digests
<1>8. RemindersHaveAJob'
  <2>1. CASE p = "worker"
    BY <1>1, <1>2, <2>1 DEF MailTypeOK, RemindersHaveAJob
  <2>2. CASE p = "api"
    BY <1>1, <1>2, <2>2 DEF MailInv, MailTypeOK, RemindersHaveAJob, Forget, jobs, Processes
  <2> QED BY <2>1, <2>2 DEF Processes
<1>9. SentWasDelivered'
  BY DEF MailInv, SentWasDelivered, Forget, digests
<1>10. \A k \in MailKeys \ doubtful' : KnownSent(k) => KnownSent(k)'
  BY <1>3, <1>5 DEF KnownSent, Sends
<1> QED BY <1>2, <1>3, <1>5, <1>7, <1>8, <1>9, <1>10, DropKeeps DEF Forget

----------------------------------------------------------------------------
(* The jobs and the switch, which send nothing.                             *)
LEMMA JobsKeep ==
  ASSUME MailAssumption, MailInv,
         AskDigest \/ Generate \/ SwitchSending \/ AskReminders \/ StartReminders
  PROVE  MailInv'
<1>1. MailTypeOK
  BY DEF MailInv
<1>2. CASE AskDigest
  BY <1>1, <1>2, PostUntouched DEF AskDigest, MailTypeOK, digests, post
<1>3. CASE Generate
  <2>1. editions + 1 \in Editions /\ editions' \in 0..MaxEdition
    BY <1>1, <1>3 DEF Generate, MailTypeOK, Editions, MailAssumption
  <2>2. MailTypeOK'
    BY <1>1, <1>3, <2>1 DEF Generate, MailTypeOK, post
  <2> QED BY <1>3, <2>2, PostUntouched DEF Generate, post
<1>4. CASE SwitchSending
  BY <1>1, <1>4, PostUntouched DEF SwitchSending, MailTypeOK, jobs, post
<1>5. CASE AskReminders
  <2>1. MailTypeOK' /\ remindJob.state # "active"
    BY <1>1, <1>5 DEF AskReminders, MailTypeOK, NoJob, digests, post
  <2> QED BY <1>5, <2>1, PostUntouched DEF AskReminders, digests, post
<1>6. CASE StartReminders
  BY <1>1, <1>6, PostUntouched DEF StartReminders, MailTypeOK, digests, post
<1> QED BY <1>2, <1>3, <1>4, <1>5, <1>6

(* The three that check a key.                                              *)
LEMMA ChecksKeep ==
  ASSUME MailAssumption, MailInv,
         SendDigest \/ (\E v \in Editions : SendOnRequest(v)) \/ (\E u \in Colleagues : Remind(u))
  PROVE  MailInv'
<1>1. MailTypeOK /\ "worker" \in Processes /\ "api" \in Processes
  BY DEF MailInv, Processes
<1>2. CASE SendDigest
  <2>1. digestJob.edition \in Editions
    BY <1>1, <1>2 DEF SendDigest, MailTypeOK, NoJob
  <2>2. <<"digest", digestJob.edition>> \in MailKeys
    BY <2>1 DEF MailKeys
  <2>3. CASE ~sendEmail /\ digestJob' = NoJob /\ UNCHANGED post
    <3>1. MailTypeOK'
      BY <1>1, <1>2, <2>3 DEF SendDigest, MailTypeOK, digests, post
    <3> QED BY <1>2, <2>3, <3>1, PostUntouched DEF SendDigest, digests
  <2>4. CASE Check("worker", <<"digest", digestJob.edition>>) /\ UNCHANGED digestJob
    BY <1>1, <1>2, <2>2, <2>4, CheckKeeps DEF SendDigest, jobs
  <2> QED BY <1>2, <2>3, <2>4 DEF SendDigest
<1>3. ASSUME NEW v \in Editions, SendOnRequest(v)
      PROVE  MailInv'
  <2>1. <<"digest", v>> \in MailKeys
    BY DEF MailKeys
  <2> QED BY <1>1, <1>3, <2>1, CheckKeeps DEF SendOnRequest
<1>4. ASSUME NEW u \in Colleagues, Remind(u)
      PROVE  MailInv'
  <2>1. <<"reminder", u>> \in MailKeys
    BY DEF MailKeys
  <2> QED BY <1>1, <1>4, <2>1, CheckKeeps DEF Remind
<1> QED BY <1>2, <1>3, <1>4

(* A step in which nothing of the mail changes.                             *)
LEMMA MailStutters ==
  ASSUME MailInv, UNCHANGED mailVars
  PROVE  MailInv'
<1>1. MailTypeOK'
  BY DEF MailInv, MailTypeOK, mailVars
<1> QED BY <1>1, PostUntouched DEF mailVars, post

(* Every step of the mails preserves the invariant.                         *)
THEOREM MailStep ==
  ASSUME MailAssumption, MailInv, [MailNext]_mailVars
  PROVE  MailInv'
<1>1. ASSUME NEW p \in Processes, Delivery(p) \/ SendFails(p) \/ Forget(p)
      PROVE  MailInv'
  BY <1>1, TakeKeeps, NoteKeeps, MarkKeeps, MailFailKeeps, ForgetKeeps DEF Delivery
<1>2. CASE AskDigest \/ Generate \/ SwitchSending \/ AskReminders \/ StartReminders
  BY <1>2, JobsKeep
<1>3. CASE SendDigest \/ (\E v \in Editions : SendOnRequest(v))
             \/ (\E u \in Colleagues : Remind(u))
  BY <1>3, ChecksKeep
<1>4. CASE Reminded
  BY <1>4, RemindedKeeps
<1>5. CASE UNCHANGED mailVars
  BY <1>5, MailStutters
<1> QED BY <1>1, <1>2, <1>3, <1>4, <1>5 DEF MailNext

(* The variables of the mails keep their types.                             *)
THEOREM MailTypesHold == MailSpec => []MailTypeOK
<1>1. MailInit => MailInv
  BY MailStarts, MailAssumption
<1>2. MailInv /\ [MailNext]_mailVars => MailInv'
  BY MailStep, MailAssumption
<1>3. MailInv => MailTypeOK
  BY DEF MailInv
<1> QED BY <1>1, <1>2, <1>3, PTL DEF MailSpec

(* A digest that shows as sent was delivered (sendWeeklyDigest sets sentAt  *)
(* after the adapter answered, or remembered an earlier answer).            *)
THEOREM SentDigestsWereDelivered == MailSpec => []SentWasDelivered
<1>1. MailInit => MailInv
  BY MailStarts, MailAssumption
<1>2. MailInv /\ [MailNext]_mailVars => MailInv'
  BY MailStep, MailAssumption
<1>3. MailInv => SentWasDelivered
  BY DEF MailInv
<1> QED BY <1>1, <1>2, <1>3, PTL DEF MailSpec

(* No retry delivers a key a second time, unless Gmail's answer was lost,   *)
(* the process that knew died, or the other process sends it as well.       *)
THEOREM RetriesDeliverOnce == MailSpec => []RetriesMailOnce
<1>1. MailInit => MailInv
  BY MailStarts, MailAssumption
<1>2. MailInv /\ [MailNext]_mailVars => MailInv'
  BY MailStep, MailAssumption
<1>3. MailInv => RetriesMailOnce
  BY DEF MailInv
<1> QED BY <1>1, <1>2, <1>3, PTL DEF MailSpec

----------------------------------------------------------------------------
(* The import of the old workbook.                                          *)

(* What a run is about to write are lines of the file it read.              *)
PlansAreRead ==
  \A o \in Operators : importing[o].step = "planned" =>
    \A p \in importing[o].places : p[3] <= Len(importing[o].read[p[2]])

ImportInv == ImportTypeOK /\ PlansAreRead

----------------------------------------------------------------------------
LEMMA PlaceParts ==
  ASSUME NEW p \in Places
  PROVE  p[1] \in Files /\ p[2] \in Sheets /\ p[3] \in 1..MaxRows
BY DEF Places

LEMMA LinesAreRead ==
  ASSUME ImportAssumption, NEW read \in Workbook, NEW p \in Places, p[3] <= Len(read[p[2]])
  PROVE  LineAt(read, p) \in Lines
<1>1. p[2] \in Sheets /\ p[3] \in 1..MaxRows
  BY PlaceParts
<1>2. read[p[2]] \in Seq(Lines)
  BY <1>1 DEF Workbook
<1>3. p[3] \in 1..Len(read[p[2]])
  BY <1>1, <1>2
<1> QED BY <1>2, <1>3 DEF LineAt

LEMMA BornIsATask ==
  ASSUME ImportAssumption, NEW sheet, NEW line \in Lines
  PROVE  Born(sheet, line) \in LegacyTask
<1>1. line.owner \in {"nobody", "user", "outsider"}
  BY DEF ImportAssumption, Line
<1>2. Owner(sheet, line) \in {"nobody", "user", "outsider"}
  BY <1>1 DEF Owner
<1>3. InitialStatus(line.status) \in Status
  BY DEF InitialStatus, Status
<1> QED BY <1>2, <1>3 DEF Born, LegacyTask

LEMMA ImportStarts ==
  ASSUME ImportAssumption, ImportInit
  PROVE  ImportInv
<1>1. << >> \in Seq(Lines) /\ << >> \in Seq(LegacyTask) /\ Len(<< >>) = 0
  OBVIOUS
<1>2. /\ book \in [Files -> Workbook]
      /\ \A f \in Files, s \in Sheets : Len(book[f][s]) <= MaxRows
  BY <1>1 DEF ImportInit, Workbook, ImportAssumption
<1>3. board \in [Places -> Seq(LegacyTask)] /\ juntas \in [Sheets \X Days -> Nat]
  BY <1>1 DEF ImportInit
<1>4. importing \in [Operators -> ImportPlan \cup {NoImport}]
      /\ \A o \in Operators : importing[o].step = "none"
  BY DEF ImportInit, NoImport
<1>5. imports \in 0..MaxImports /\ edits \in 0..MaxEdits
  BY DEF ImportInit, ImportAssumption
<1>6. known \subseteq Names /\ refs \subseteq Places
  BY DEF ImportInit
<1> QED BY <1>2, <1>3, <1>4, <1>5, <1>6 DEF ImportInv, ImportTypeOK, PlansAreRead

LEMMA ImportPlanKeeps ==
  ASSUME ImportAssumption, ImportInv, NEW o \in Operators, NEW file \in Files, NEW mode,
         Plan(o, file, mode)
  PROVE  ImportInv'
<1> DEFINE read == book[file]
           places == ToImport(file, read)
           hatch == [step |-> "planned", read |-> read, places |-> places,
                    juntas |-> MissingJuntas(read, places), names |-> NewNames(read, places)]
<1>1. /\ importing' = [importing EXCEPT ![o] =
           IF mode = "dry-run" \/ places = {} THEN NoImport ELSE hatch]
      /\ imports < MaxImports /\ imports' = imports + 1
      /\ UNCHANGED <<book, known, juntas, board, refs, edits>>
  BY DEF Plan
<1>2. read \in Workbook
  BY DEF ImportInv, ImportTypeOK
<1>3. places \subseteq Places /\ \A p \in places : p[3] <= Len(read[p[2]])
  <2>1. {file} \X Sheets \X (1..MaxRows) \subseteq Places
    BY DEF Places
  <2> QED BY <2>1 DEF ToImport
<1> HIDE DEF read, places
<1>4. MissingJuntas(read, places) \subseteq Sheets \X Days
  BY DEF MissingJuntas
<1>5. NewNames(read, places) \subseteq Names
  <2>1. \A p \in places : LineAt(read, p) \in Lines
    BY <1>2, <1>3, LinesAreRead
  <2> QED BY <2>1 DEF NewNames, Names
<1>6. hatch \in ImportPlan /\ hatch.places = places /\ hatch.read = read
  BY <1>2, <1>3, <1>4, <1>5 DEF ImportPlan
<1> HIDE DEF hatch
<1>7. importing \in [Operators -> ImportPlan \cup {NoImport}]
  BY DEF ImportInv, ImportTypeOK
<1>8. importing' \in [Operators -> ImportPlan \cup {NoImport}]
      /\ (importing'[o] = hatch \/ importing'[o] = NoImport)
      /\ \A q \in Operators \ {o} : importing'[q] = importing[q]
  BY <1>1, <1>6, <1>7
<1>9. imports' \in 0..MaxImports
  BY <1>1 DEF ImportInv, ImportTypeOK, ImportAssumption
<1>10. ImportTypeOK'
  BY <1>1, <1>8, <1>9 DEF ImportInv, ImportTypeOK
<1>11. PlansAreRead'
  <2>1. NoImport.step = "none"
    BY DEF NoImport
  <2> QED BY <1>3, <1>6, <1>8, <2>1 DEF ImportInv, PlansAreRead
<1> QED BY <1>10, <1>11 DEF ImportInv

(* A task is kept, or one is appended.                                      *)
LEMMA WrittenIsTyped ==
  ASSUME ImportAssumption, ImportInv, NEW o \in Operators, importing[o].step = "planned",
         NEW p \in Places
  PROVE  /\ Written(importing[o], p) \in Seq(LegacyTask)
         /\ p \notin importing[o].places => Written(importing[o], p) = board[p]
         /\ p \in importing[o].places =>
              /\ LineAt(importing[o].read, p) \in Lines
              /\ Written(importing[o], p) =
                   Append(board[p], Born(p[2], LineAt(importing[o].read, p)))
<1>1. importing[o] \in ImportPlan /\ board[p] \in Seq(LegacyTask)
  BY DEF ImportInv, ImportTypeOK, NoImport
<1>2. p \in importing[o].places => LineAt(importing[o].read, p) \in Lines
  BY <1>1, LinesAreRead DEF ImportInv, PlansAreRead, ImportPlan
<1>3. p \in importing[o].places => Born(p[2], LineAt(importing[o].read, p)) \in LegacyTask
  BY <1>2, BornIsATask
<1> QED BY <1>1, <1>2, <1>3 DEF Written

LEMMA CommitKeeps ==
  ASSUME ImportAssumption, ImportInv, NEW o \in Operators, Commit(o)
  PROVE  ImportInv'
<1> DEFINE hatch == importing[o]
<1>1. /\ hatch.step = "planned"
      /\ board' = [p \in Places |-> Written(hatch, p)]
      /\ refs' = refs \cup hatch.places
      /\ juntas' = [sd \in Sheets \X Days |-> juntas[sd] + IF sd \in hatch.juntas THEN 1 ELSE 0]
      /\ known' = known \cup hatch.names
      /\ importing' = [importing EXCEPT ![o] = NoImport]
      /\ UNCHANGED <<book, imports, edits>>
  BY DEF Commit
<1>2. hatch \in ImportPlan
  BY <1>1 DEF ImportInv, ImportTypeOK, NoImport
<1>3. board' \in [Places -> Seq(LegacyTask)]
  BY <1>1, WrittenIsTyped
<1>4. juntas' \in [Sheets \X Days -> Nat]
  <2>1. \A sd \in Sheets \X Days : juntas[sd] + (IF sd \in hatch.juntas THEN 1 ELSE 0) \in Nat
    BY DEF ImportInv, ImportTypeOK
  <2> HIDE DEF hatch
  <2> QED BY <1>1, <2>1
<1>5. refs' \subseteq Places /\ known' \subseteq Names
  BY <1>1, <1>2 DEF ImportInv, ImportTypeOK, ImportPlan
<1>6. importing' \in [Operators -> ImportPlan \cup {NoImport}]
      /\ importing'[o].step = "none"
      /\ \A q \in Operators \ {o} : importing'[q] = importing[q]
  BY <1>1 DEF ImportInv, ImportTypeOK, NoImport
<1>7. ImportTypeOK'
  BY <1>1, <1>3, <1>4, <1>5, <1>6 DEF ImportInv, ImportTypeOK
<1>8. PlansAreRead'
  BY <1>6 DEF ImportInv, PlansAreRead
<1> QED BY <1>7, <1>8 DEF ImportInv

LEMMA RollBackKeeps ==
  ASSUME ImportAssumption, ImportInv, NEW o \in Operators, RollBackImport(o)
  PROVE  ImportInv'
<1>1. importing' = [importing EXCEPT ![o] = NoImport]
      /\ UNCHANGED <<book, known, juntas, board, refs, imports, edits>>
  BY DEF RollBackImport
<1>2. importing' \in [Operators -> ImportPlan \cup {NoImport}]
      /\ importing'[o].step = "none"
      /\ \A q \in Operators \ {o} : importing'[q] = importing[q]
  BY <1>1 DEF ImportInv, ImportTypeOK, NoImport
<1>3. ImportTypeOK'
  BY <1>1, <1>2 DEF ImportInv, ImportTypeOK
<1>4. PlansAreRead'
  BY <1>2 DEF ImportInv, PlansAreRead
<1> QED BY <1>3, <1>4 DEF ImportInv

(* A line put in between moves the lines below it.                          *)
LEMMA Inserted ==
  ASSUME NEW S, NEW s \in Seq(S), NEW at \in 1..(Len(s) + 1), NEW e \in S
  PROVE  InsertAt(s, at, e) \in Seq(S) /\ Len(InsertAt(s, at, e)) = Len(s) + 1
<1> DEFINE before == SubSeq(s, 1, at - 1)
           after == SubSeq(s, at, Len(s))
<1>1. Len(s) \in Nat /\ at \in Int /\ \A i \in 1..Len(s) : s[i] \in S
  OBVIOUS
<1>2. before \in Seq(S) /\ Len(before) = at - 1
  BY <1>1, SubSeqProperties
<1>3. after \in Seq(S) /\ Len(after) = Len(s) - at + 1
  BY <1>1, SubSeqProperties
<1>4. <<e>> \in Seq(S) /\ Len(<<e>>) = 1
  OBVIOUS
<1>5. InsertAt(s, at, e) = before \o <<e>> \o after
  BY DEF InsertAt
<1> HIDE DEF before, after
<1>6. before \o <<e>> \in Seq(S) /\ Len(before \o <<e>>) = at
  BY <1>1, <1>2, <1>4
<1> QED BY <1>1, <1>3, <1>5, <1>6

LEMMA EditBookKeeps ==
  ASSUME ImportAssumption, ImportInv, NEW file \in Files, NEW sheet \in Sheets,
         EditBook(file, sheet)
  PROVE  ImportInv'
<1> DEFINE page == book[file][sheet]
<1>1. edits < MaxEdits /\ edits' = edits + 1
      /\ UNCHANGED <<known, juntas, board, refs, importing, imports>>
  BY DEF EditBook
<1>2. book \in [Files -> Workbook] /\ page \in Seq(Lines)
      /\ \A f \in Files, s \in Sheets : Len(book[f][s]) <= MaxRows
  BY DEF ImportInv, ImportTypeOK, Workbook
<1>3. \E new \in Seq(Lines) : book' = [book EXCEPT ![file][sheet] = new] /\ Len(new) <= MaxRows
  <2>1. PICK line \in Lines, at \in 1..MaxRows :
          \/ /\ Len(page) < MaxRows /\ at <= Len(page) + 1
             /\ book' = [book EXCEPT ![file][sheet] = InsertAt(page, at, line)]
          \/ /\ at <= Len(page)
             /\ book' = [book EXCEPT ![file][sheet][at] = line]
    BY DEF EditBook
  <2>2. CASE /\ Len(page) < MaxRows /\ at <= Len(page) + 1
             /\ book' = [book EXCEPT ![file][sheet] = InsertAt(page, at, line)]
    <3> HIDE DEF page
    <3>1. Len(page) \in Nat /\ MaxRows \in Nat /\ at \in 1..(Len(page) + 1)
      BY <1>2, <2>2 DEF ImportAssumption
    <3>2. InsertAt(page, at, line) \in Seq(Lines)
          /\ Len(InsertAt(page, at, line)) = Len(page) + 1
      BY <1>2, <3>1, Inserted
    <3> DEFINE new == InsertAt(page, at, line)
    <3>3. new \in Seq(Lines) /\ Len(new) <= MaxRows
      BY <2>2, <3>1, <3>2
    <3>4. book' = [book EXCEPT ![file][sheet] = new]
      BY <2>2
    <3> HIDE DEF new
    <3> QED BY <3>3, <3>4
  <2>3. CASE at <= Len(page) /\ book' = [book EXCEPT ![file][sheet][at] = line]
    <3> DEFINE new == [page EXCEPT ![at] = line]
    <3>1. new \in Seq(Lines) /\ Len(new) = Len(page) /\ Len(page) <= MaxRows
      BY <1>2, <2>3
    <3>2. book' = [book EXCEPT ![file][sheet] = new]
      BY <2>3
    <3> HIDE DEF new
    <3> QED BY <3>1, <3>2
  <2> QED BY <2>1, <2>2, <2>3
<1> HIDE DEF page
<1>4. book' \in [Files -> Workbook] /\ \A f \in Files, s \in Sheets : Len(book'[f][s]) <= MaxRows
  BY <1>2, <1>3 DEF Workbook
<1>5. edits' \in 0..MaxEdits
  BY <1>1 DEF ImportInv, ImportTypeOK, ImportAssumption
<1>6. ImportTypeOK'
  BY <1>1, <1>4, <1>5 DEF ImportInv, ImportTypeOK
<1> QED BY <1>1, <1>6 DEF ImportInv, PlansAreRead

(* What a person does to a task.                                            *)
LEMMA WorkedOn ==
  ASSUME ImportInv, NEW spot \in Places, NEW i, WorkOn(spot, i)
  PROVE  /\ i \in DOMAIN board[spot]
         /\ board' \in [Places -> Seq(LegacyTask)]
         /\ \A p \in Places : p # spot => board'[p] = board[p]
         /\ DOMAIN board'[spot] = DOMAIN board[spot] /\ Len(board'[spot]) = Len(board[spot])
         /\ \A j \in DOMAIN board[spot] : j # i => board'[spot][j] = board[spot][j]
         /\ CanTransition(board[spot][i].status, board'[spot][i].status, "USER", TRUE)
         /\ board'[spot][i].linked = board[spot][i].linked
         /\ UNCHANGED <<book, known, juntas, refs, importing, imports, edits>>
<1>1. i \in DOMAIN board[spot]
      /\ UNCHANGED <<book, known, juntas, refs, importing, imports, edits>>
  BY DEF WorkOn
<1>2. PICK to \in {"IN_PROGRESS", "COMPLETED"} :
        /\ CanTransition(board[spot][i].status, to, "USER", TRUE)
        /\ board' = [board EXCEPT ![spot][i].status = to, ![spot][i].proposed = FALSE]
  BY DEF WorkOn
<1>3. board \in [Places -> Seq(LegacyTask)] /\ board[spot] \in Seq(LegacyTask)
  BY DEF ImportInv, ImportTypeOK
<1> DEFINE task == [board[spot][i] EXCEPT !.status = to, !.proposed = FALSE]
<1>4. board[spot][i] \in LegacyTask
  BY <1>1, <1>3
<1>5. task \in LegacyTask /\ task.status = to /\ task.linked = board[spot][i].linked
  BY <1>4 DEF LegacyTask, Status
<1>6. board' = [board EXCEPT ![spot] = [board[spot] EXCEPT ![i] = task]]
  BY <1>2, <1>3
<1> HIDE DEF task
<1> DEFINE new == [board[spot] EXCEPT ![i] = task]
<1>7. new \in Seq(LegacyTask) /\ Len(new) = Len(board[spot]) /\ DOMAIN new = DOMAIN board[spot]
      /\ new[i] = task /\ \A j \in DOMAIN board[spot] : j # i => new[j] = board[spot][j]
  BY <1>1, <1>3, <1>5
<1> HIDE DEF new
<1>8. board' \in [Places -> Seq(LegacyTask)] /\ board'[spot] = new
      /\ \A p \in Places : p # spot => board'[p] = board[p]
  BY <1>3, <1>6, <1>7 DEF new
<1> QED BY <1>1, <1>2, <1>5, <1>7, <1>8

LEMMA ImportStep ==
  ASSUME ImportAssumption, ImportInv, [ImportNext]_importVars
  PROVE  ImportInv'
<1>1. ASSUME NEW name \in Names, AddName(name) PROVE ImportInv'
  BY <1>1 DEF AddName, ImportInv, ImportTypeOK, PlansAreRead
<1>2. ASSUME NEW p \in Places, NEW i \in 1..MaxImports, WorkOn(p, i) PROVE ImportInv'
  <2>1. board' \in [Places -> Seq(LegacyTask)]
        /\ UNCHANGED <<book, known, juntas, refs, importing, imports, edits>>
    BY <1>2, WorkedOn
  <2> QED BY <2>1 DEF ImportInv, ImportTypeOK, PlansAreRead
<1>3. ASSUME UNCHANGED importVars PROVE ImportInv'
  BY <1>3 DEF importVars, ImportInv, ImportTypeOK, PlansAreRead
<1> QED BY <1>1, <1>2, <1>3, ImportPlanKeeps, CommitKeeps, RollBackKeeps, EditBookKeeps
        DEF ImportNext

(* The import keeps its types, and plans nothing the file did not have.     *)
THEOREM ImportTypesHold == ImportSpec => []ImportTypeOK
<1>1. ImportInit => ImportInv
  BY ImportAssumption, ImportStarts
<1>2. ImportInv /\ [ImportNext]_importVars => ImportInv'
  BY ImportAssumption, ImportStep
<1>3. ImportInv => ImportTypeOK
  BY DEF ImportInv
<1> QED BY <1>1, <1>2, <1>3, PTL DEF ImportSpec

(* A run never takes back the work on a task imported before, however many  *)
(* run at once: it only appends, and what changes a status is a person      *)
(* (scripts/legacy-import, runLegacyImport).                                *)
THEOREM WorkIsAlwaysKept == ImportSpec => WorkIsKept
<1> DEFINE Keeps ==
      \A p \in Places : \A i \in DOMAIN board[p] :
        /\ i \in DOMAIN board'[p]
        /\ board'[p][i].status # board[p][i].status =>
             CanTransition(board[p][i].status, board'[p][i].status, "USER", TRUE)
<1>1. ImportInit => ImportInv
  BY ImportAssumption, ImportStarts
<1>2. ImportInv /\ [ImportNext]_importVars => ImportInv'
  BY ImportAssumption, ImportStep
<1>3. ASSUME ImportInv, ImportNext PROVE Keeps
  <2>1. CASE UNCHANGED board
    BY <2>1
  <2>2. ASSUME NEW o \in Operators, Commit(o) PROVE Keeps
    <3>1. importing[o].step = "planned" /\ board' = [p \in Places |-> Written(importing[o], p)]
      BY <2>2 DEF Commit
    <3>2. ASSUME NEW p \in Places
          PROVE  \A i \in DOMAIN board[p] : i \in DOMAIN board'[p] /\ board'[p][i] = board[p][i]
      <4>1. board[p] \in Seq(LegacyTask)
        BY <1>3 DEF ImportInv, ImportTypeOK
      <4>2. CASE p \notin importing[o].places
        BY <1>3, <3>1, <4>2, ImportAssumption, WrittenIsTyped
      <4>3. CASE p \in importing[o].places
        <5> DEFINE born == Born(p[2], LineAt(importing[o].read, p))
        <5>1. board'[p] = Append(board[p], born) /\ born \in LegacyTask
          BY <1>3, <3>1, <4>3, ImportAssumption, WrittenIsTyped, BornIsATask
        <5> HIDE DEF born
        <5> QED BY <4>1, <5>1, AppendProperties
      <4> QED BY <4>2, <4>3
    <3> QED BY <3>2
  <2>3. ASSUME NEW spot \in Places, NEW i \in 1..MaxImports, WorkOn(spot, i) PROVE Keeps
    <3>1. /\ \A p \in Places : p # spot => board'[p] = board[p]
          /\ DOMAIN board'[spot] = DOMAIN board[spot]
          /\ \A j \in DOMAIN board[spot] : j # i => board'[spot][j] = board[spot][j]
          /\ CanTransition(board[spot][i].status, board'[spot][i].status, "USER", TRUE)
      BY <1>3, <2>3, WorkedOn
    <3> QED BY <3>1
  <2> QED BY <1>3, <2>1, <2>2, <2>3
          DEF ImportNext, Plan, RollBackImport, EditBook, AddName
<1>4. ImportInv /\ [ImportNext]_importVars => [Keeps]_importVars
  BY <1>3
<1> QED BY <1>1, <1>2, <1>4, PTL DEF ImportSpec, WorkIsKept

----------------------------------------------------------------------------
(* One run at a time, as the runbook has it: two at once both read the      *)
(* references before either writes them.                                    *)
OneOperator == \A o, q \in Operators : o = q

(* What is planned is not imported yet, and the meetings it lacks are       *)
(* lacking still.                                                           *)
PlansStand ==
  \A o \in Operators : importing[o].step = "planned" =>
    /\ importing[o].places \cap refs = {}
    /\ importing[o].juntas = MissingJuntas(importing[o].read, importing[o].places)

OnceInv == ImportInv /\ PlansStand /\ ImportedOnce

LEMMA OnceStarts ==
  ASSUME ImportAssumption, ImportInit
  PROVE  OnceInv
<1>1. ImportInv
  BY ImportStarts
<1>2. PlansStand
  BY DEF ImportInit, PlansStand, NoImport
<1>3. ImportedOnce
  <2>1. \A p \in Places : board[p] = << >> /\ p \notin refs
    BY DEF ImportInit
  <2>2. Len(<< >>) = 0 /\ DOMAIN << >> = {}
    OBVIOUS
  <2>3. \A p \in Places : Len(board[p]) <= 1 /\ (board[p] # << >> <=> p \in refs)
    BY <2>1, <2>2
  <2>4. \A sd \in Sheets \X Days : juntas[sd] <= 1
    BY DEF ImportInit
  <2>5. ~ \E p \in Places, i \in 1..MaxImports : i \in DOMAIN board[p]
    BY <2>1, <2>2
  <2> QED BY <2>3, <2>4, <2>5 DEF ImportedOnce
<1> QED BY <1>1, <1>2, <1>3 DEF OnceInv

(* What is written was nowhere yet; its meetings are there now, once.       *)
LEMMA CommitOnce ==
  ASSUME ImportAssumption, OneOperator, OnceInv, NEW o \in Operators, Commit(o)
  PROVE  OnceInv'
<1> DEFINE hatch == importing[o]
<1>1. /\ hatch.step = "planned"
      /\ board' = [p \in Places |-> Written(hatch, p)]
      /\ refs' = refs \cup hatch.places
      /\ juntas' = [sd \in Sheets \X Days |-> juntas[sd] + IF sd \in hatch.juntas THEN 1 ELSE 0]
      /\ importing' = [importing EXCEPT ![o] = NoImport]
  BY DEF Commit
<1>2. ImportInv /\ ImportInv'
  BY CommitKeeps DEF OnceInv
<1>3. hatch \in ImportPlan /\ juntas \in [Sheets \X Days -> Nat]
  BY <1>1, <1>2 DEF ImportInv, ImportTypeOK, NoImport
<1>4. hatch.places \cap refs = {} /\ hatch.juntas = MissingJuntas(hatch.read, hatch.places)
  BY <1>1 DEF OnceInv, PlansStand
<1>5. PlansStand'
  <2>1. \A q \in Operators : importing'[q].step = "none"
    BY <1>1, <1>2 DEF OneOperator, ImportInv, ImportTypeOK, NoImport
  <2> QED BY <2>1 DEF PlansStand
<1>6. ASSUME NEW sd \in Sheets \X Days
      PROVE  /\ juntas'[sd] \in {0, 1} /\ (juntas[sd] = 1 => juntas'[sd] = 1)
             /\ sd \in hatch.juntas => juntas'[sd] = 1
  <2>1. juntas[sd] \in Nat /\ juntas[sd] <= 1
    BY <1>3 DEF OnceInv, ImportedOnce
  <2>2. sd \in hatch.juntas => juntas[sd] = 0
    BY <1>4 DEF MissingJuntas
  <2>3. juntas'[sd] = juntas[sd] + IF sd \in hatch.juntas THEN 1 ELSE 0
    BY <1>1
  <2> HIDE DEF hatch
  <2> QED BY <2>1, <2>2, <2>3
<1>7. ASSUME NEW p \in Places
      PROVE  Len(board'[p]) <= 1 /\ (board'[p] # << >> <=> p \in refs')
  <2>1. board[p] \in Seq(LegacyTask) /\ Len(board[p]) <= 1 /\ (board[p] # << >> <=> p \in refs)
    BY <1>2 DEF OnceInv, ImportedOnce, ImportInv, ImportTypeOK
  <2>2. CASE p \notin hatch.places
    BY <1>1, <1>2, <2>1, <2>2, WrittenIsTyped
  <2>3. CASE p \in hatch.places
    <3> DEFINE born == Born(p[2], LineAt(hatch.read, p))
    <3>1. board'[p] = Append(board[p], born) /\ born \in LegacyTask
      BY <1>1, <1>2, <2>3, WrittenIsTyped, BornIsATask
    <3>2. board[p] = << >>
      BY <1>4, <2>1, <2>3
    <3> HIDE DEF born
    <3>3. Len(board'[p]) = 1 /\ board'[p] # << >>
      BY <2>1, <3>1, <3>2, AppendProperties
    <3>4. p \in refs'
      BY <1>1, <2>3
    <3> QED BY <3>3, <3>4
  <2> QED BY <2>2, <2>3
<1>8. ASSUME NEW p \in Places, NEW i \in 1..MaxImports, i \in DOMAIN board'[p],
             board'[p][i].linked
      PROVE  \E sd \in Sheets \X Days : juntas'[sd] = 1
  <2>1. board[p] \in Seq(LegacyTask)
    BY <1>2 DEF ImportInv, ImportTypeOK
  <2>2. CASE board'[p] = board[p]
    <3>1. \E sd \in Sheets \X Days : juntas[sd] = 1
      BY <1>8, <2>2 DEF OnceInv, ImportedOnce
    <3> QED BY <1>6, <3>1
  <2>3. CASE board'[p] # board[p]
    <3> DEFINE line == LineAt(hatch.read, p)
               sd == <<p[2], line.day>>
    <3>1. p \in hatch.places
      BY <1>1, <1>2, <2>3, WrittenIsTyped
    <3>2. board'[p] = Append(board[p], Born(p[2], line)) /\ line \in Lines
      BY <1>1, <1>2, <3>1, WrittenIsTyped
    <3>3. board[p] = << >>
      BY <1>4, <3>1 DEF OnceInv, ImportedOnce
    <3>4. Born(p[2], line).linked
      <4> DEFINE born == Born(p[2], line)
      <4>1. board'[p] = <<born>>
        BY <3>2, <3>3
      <4> HIDE DEF born
      <4>2. i = 1 /\ board'[p][i] = born
        BY <1>8, <4>1
      <4> QED BY <1>8, <4>2 DEF born
    <3>5. line.day \notin NoDay
      BY <3>4 DEF Born
    <3>6. line.day \in Days /\ p[2] \in Sheets
      BY <3>2, <3>5, PlaceParts DEF Days
    <3>7. sd \in Sheets \X Days
      BY <3>6
    <3>8. juntas[sd] = 0 => sd \in hatch.juntas
      BY <1>4, <3>1, <3>7 DEF MissingJuntas
    <3>9. juntas[sd] \in Nat /\ juntas[sd] <= 1
      BY <1>3, <3>7 DEF OnceInv, ImportedOnce
    <3> HIDE DEF sd
    <3> QED BY <1>6, <3>7, <3>8, <3>9
  <2> QED BY <2>2, <2>3
<1>9. ImportedOnce'
  <2>1. \A sd \in Sheets \X Days : juntas'[sd] <= 1
    BY <1>6
  <2> QED BY <1>7, <1>8, <2>1 DEF ImportedOnce
<1> QED BY <1>2, <1>5, <1>9 DEF OnceInv

LEMMA OnceStep ==
  ASSUME ImportAssumption, OneOperator, OnceInv, [ImportNext]_importVars
  PROVE  OnceInv'
<1>1. ImportInv /\ ImportInv'
  BY ImportStep DEF OnceInv
<1>2. ASSUME UNCHANGED <<juntas, board, refs>>,
             \A o \in Operators : importing'[o].step = "planned" =>
               \/ importing'[o] = importing[o]
               \/ /\ importing'[o].places \cap refs = {}
                  /\ importing'[o].juntas =
                       MissingJuntas(importing'[o].read, importing'[o].places)
      PROVE  OnceInv'
  <2>1. ImportedOnce'
    BY <1>2 DEF OnceInv, ImportedOnce
  <2>2. PlansStand'
    BY <1>2 DEF OnceInv, PlansStand, MissingJuntas
  <2> QED BY <1>1, <2>1, <2>2 DEF OnceInv
<1>3. ASSUME NEW o \in Operators, NEW f \in Files, NEW mode, Plan(o, f, mode) PROVE OnceInv'
  <2> DEFINE places == ToImport(f, book[f])
             hatch == [step |-> "planned", read |-> book[f], places |-> places,
                      juntas |-> MissingJuntas(book[f], places),
                      names |-> NewNames(book[f], places)]
  <2>1. /\ importing' = [importing EXCEPT ![o] =
             IF mode = "dry-run" \/ places = {} THEN NoImport ELSE hatch]
        /\ UNCHANGED <<book, known, juntas, board, refs, edits>>
    BY <1>3 DEF Plan
  <2>2. hatch.places \cap refs = {} /\ hatch.juntas = MissingJuntas(hatch.read, hatch.places)
    BY DEF ToImport
  <2> HIDE DEF hatch
  <2>3. (importing'[o] = hatch \/ importing'[o] = NoImport)
        /\ \A q \in Operators \ {o} : importing'[q] = importing[q]
    BY <1>1, <2>1 DEF ImportInv, ImportTypeOK
  <2>4. NoImport.step = "none"
    BY DEF NoImport
  <2> QED BY <1>2, <2>1, <2>2, <2>3, <2>4
<1>4. ASSUME NEW o \in Operators, RollBackImport(o) PROVE OnceInv'
  <2>1. importing' = [importing EXCEPT ![o] = NoImport] /\ UNCHANGED <<juntas, board, refs>>
    BY <1>4 DEF RollBackImport
  <2>2. importing'[o].step = "none" /\ \A q \in Operators \ {o} : importing'[q] = importing[q]
    BY <1>1, <2>1 DEF ImportInv, ImportTypeOK, NoImport
  <2> QED BY <1>2, <2>1, <2>2
<1>5. ASSUME NEW f \in Files, NEW s \in Sheets, EditBook(f, s) PROVE OnceInv'
  BY <1>2, <1>5 DEF EditBook
<1>6. ASSUME NEW name \in Names, AddName(name) PROVE OnceInv'
  BY <1>2, <1>6 DEF AddName
<1>7. ASSUME UNCHANGED importVars PROVE OnceInv'
  BY <1>2, <1>7 DEF importVars
<1>8. ASSUME NEW spot \in Places, NEW i \in 1..MaxImports, WorkOn(spot, i) PROVE OnceInv'
  <2>1. /\ i \in DOMAIN board[spot]
        /\ board' \in [Places -> Seq(LegacyTask)]
        /\ \A p \in Places : p # spot => board'[p] = board[p]
        /\ DOMAIN board'[spot] = DOMAIN board[spot] /\ Len(board'[spot]) = Len(board[spot])
        /\ \A j \in DOMAIN board[spot] : j # i => board'[spot][j] = board[spot][j]
        /\ board'[spot][i].linked = board[spot][i].linked
        /\ UNCHANGED <<juntas, refs, importing>>
    BY <1>1, <1>8, WorkedOn
  <2>2. board \in [Places -> Seq(LegacyTask)]
    BY <1>1 DEF ImportInv, ImportTypeOK
  <2>3. \A p \in Places : board'[p] # << >> <=> board[p] # << >>
    BY <2>1, <2>2
  <2>4. \A p \in Places : \A j \in DOMAIN board'[p] :
          j \in DOMAIN board[p] /\ board'[p][j].linked = board[p][j].linked
    BY <2>1
  <2>5. \A p \in Places : Len(board'[p]) <= 1 /\ (board'[p] # << >> <=> p \in refs')
    BY <2>1, <2>3 DEF OnceInv, ImportedOnce
  <2>6. ImportedOnce'
    BY <2>1, <2>4, <2>5 DEF OnceInv, ImportedOnce
  <2>7. PlansStand'
    BY <2>1 DEF OnceInv, PlansStand, MissingJuntas
  <2> QED BY <1>1, <2>6, <2>7 DEF OnceInv
<1> QED BY <1>3, <1>4, <1>5, <1>6, <1>7, <1>8, CommitOnce DEF ImportNext

(* However often the import is run again, no spot of the workbook gives    *)
(* two tasks, each task has its reference, and a sheet and day give one     *)
(* meeting (scripts/legacy-import), provided one operator runs it.          *)
THEOREM ImportsOnlyOnce ==
  ASSUME OneOperator
  PROVE  ImportSpec => []ImportedOnce
<1>1. ImportInit => OnceInv
  BY ImportAssumption, OnceStarts
<1>2. OnceInv /\ [ImportNext]_importVars => OnceInv'
  BY ImportAssumption, OneOperator, OnceStep
<1>3. OnceInv => ImportedOnce
  BY DEF OnceInv
<1> QED BY <1>1, <1>2, <1>3, PTL DEF ImportSpec

----------------------------------------------------------------------------
(* The lists of tasks.                                                      *)

OnScreen(v, q) == list # Nothing /\ list.steady /\ list.viewer = v /\ list.query = q

(* While no task changes, the totals are those of what is asked for, and    *)
(* the pages turned are the beginning of its order.                         *)
ScreenfulIsCurrent(v, q) ==
  /\ Last(totals) = Cardinality(Wanted(v, q))
  /\ ToSet(turned) \subseteq Wanted(v, q)
  /\ NeedsMemory(v, q) =>
       LET all == Sorted(Wanted(v, q), q.sort) IN
       turned = SubSeq(all, 1, EndOfPage(all, list.pages))

ListsInv ==
  /\ ListsTypeOK
  /\ list = Nothing => turned = <<>> /\ totals = <<>>
  /\ list # Nothing => totals # <<>>
  /\ \A v \in Viewers, q \in Queries : OnScreen(v, q) => ScreenfulIsCurrent(v, q)

----------------------------------------------------------------------------
(* A list has at most as many tasks as there are.                           *)
LEMMA WantedIsFinite ==
  ASSUME WorkListsAssumption, NEW v, NEW q
  PROVE  /\ Wanted(v, q) \in SUBSET Numbers /\ IsFiniteSet(Wanted(v, q))
         /\ Cardinality(Wanted(v, q)) \in 0..Cardinality(Numbers)
         /\ Cardinality(Numbers) \in Nat
<1>1. Wanted(v, q) \in SUBSET Numbers
  BY DEF Wanted
<1> HIDE DEF Wanted
<1>2. IsFiniteSet(Numbers)
  BY DEF WorkListsAssumption
<1>3. /\ IsFiniteSet(Wanted(v, q))
      /\ Cardinality(Wanted(v, q)) <= Cardinality(Numbers)
  BY <1>1, <1>2, FS_Subset
<1>4. Cardinality(Wanted(v, q)) \in Nat /\ Cardinality(Numbers) \in Nat
  BY <1>2, <1>3, FS_CardinalityType
<1> QED BY <1>1, <1>3, <1>4

LEMMA ScoresAreNumbers ==
  ASSUME NEW r
  PROVE  AttentionScore(r, FALSE) \in Nat
BY DEF AttentionScore, Weigh

(* The CHOOSE of Sorted finds a list: each task once, none before one that  *)
(* precedes it.                                                             *)
LEMMA SortedIsOrdered ==
  ASSUME WorkListsAssumption, work \in [Numbers -> Samples], NEW ids \in SUBSET Numbers, NEW sort
  PROVE  Sorted(ids, sort) \in SetToSeqs(ids) /\ InOrder(Sorted(ids, sort), sort)
<1> DEFINE R == {e \in ids \X ids : Precedes(sort, e[1], e[2], e[1] < e[2])}
           Score(n) == IF sort = "attention" THEN AttentionScore(work[n], FALSE) ELSE 0
           Before(n, m) == Precedes(sort, n, m, n < m)
<1>1. \A n \in ids : n \in Nat /\ work[n].due \in Nat /\ Score(n) \in Nat
  BY ScoresAreNumbers DEF WorkListsAssumption
<1>2. \A n, m \in ids : Before(n, m) <=>
        \/ Score(n) > Score(m)
        \/ Score(n) = Score(m) /\ Sooner(work[n].due, work[m].due)
        \/ Score(n) = Score(m) /\ work[n].due = work[m].due /\ n < m
  BY DEF Precedes
<1>3. \A n, m \in ids : <<n, m>> \in R <=> Before(n, m)
  OBVIOUS
<1> HIDE DEF R, Score, Before
<1>4. Total(R, ids)
  <2> SUFFICES ASSUME NEW x \in ids, NEW y \in ids, x # y
               PROVE  Before(x, y) \/ Before(y, x)
    BY <1>3 DEF Total
  <2> QED BY <1>1, <1>2 DEF Sooner
<1>5. Transitive(R, ids)
  <2> SUFFICES ASSUME NEW x \in ids, NEW y \in ids, NEW z \in ids, Before(x, y), Before(y, z)
               PROVE  Before(x, z)
    BY <1>3 DEF Transitive
  <2> QED BY <1>1, <1>2 DEF Sooner
<1>6. IsFiniteSet(ids)
  BY FS_Subset DEF WorkListsAssumption
<1>7. PICK f \in SetToSeqs(ids) : Lists(R, ids, f)
  BY <1>4, <1>5, <1>6, ListExists
<1>8. f \in Seq(ids)
  BY <1>6, SetToSeqsParts
<1>9. InOrder(f, sort)
  <2> SUFFICES ASSUME NEW i \in DOMAIN f, NEW j \in DOMAIN f, i < j
               PROVE  Precedes(sort, f[i], f[j], f[i] < f[j])
    BY DEF InOrder
  <2>1. f[i] \in ids /\ f[j] \in ids /\ <<f[i], f[j]>> \in R
    BY <1>7, <1>8 DEF Lists
  <2>2. Before(f[i], f[j])
    BY <2>1, <1>3
  <2> QED BY <2>2 DEF Before
<1> QED BY <1>7, <1>9 DEF Sorted

(* Every order a list is answered in has what is wanted, once.              *)
OrdersOf(v, q) ==
  IF NeedsMemory(v, q) THEN {Sorted(Wanted(v, q), q.sort)} ELSE DatabaseOrders(Wanted(v, q))

(* However a list is ordered, in memory or by the database, it has each     *)
(* task that is wanted once.                                                *)
LEMMA OrdersList ==
  ASSUME WorkListsAssumption, work \in [Numbers -> Samples], NEW v, NEW q,
         NEW order \in OrdersOf(v, q)
  PROVE  /\ order \in Seq(Wanted(v, q)) /\ order \in Seq(Numbers) /\ IsInjective(order)
         /\ Len(order) = Cardinality(Wanted(v, q)) /\ ToSet(order) = Wanted(v, q)
<1>1. Wanted(v, q) \in SUBSET Numbers /\ IsFiniteSet(Wanted(v, q))
  BY WantedIsFinite
<1>2. order \in SetToSeqs(Wanted(v, q))
  BY <1>1, SortedIsOrdered DEF OrdersOf, DatabaseOrders
<1> QED BY <1>1, <1>2, SetToSeqsParts, SeqMonotonic

(* A page begins where the one before it ended, and past the last there is  *)
(* nothing.                                                                 *)
LEMMA PagesAdjoin ==
  ASSUME WorkListsAssumption, NEW S, NEW order \in Seq(S), NEW k \in Nat \ {0}
  PROVE  /\ Paginate(order, k) \in Seq(S)
         /\ ToSet(Paginate(order, k)) \subseteq ToSet(order)
         /\ Paginate(order, 1) = SubSeq(order, 1, EndOfPage(order, 1))
         /\ k * PageSize < Len(order) =>
              SubSeq(order, 1, EndOfPage(order, k)) \o Paginate(order, k + 1)
                = SubSeq(order, 1, EndOfPage(order, k + 1))
         /\ k * PageSize >= Len(order) => SubSeq(order, 1, EndOfPage(order, k)) = order
<1> DEFINE size == PageSize
<1>1. size \in Nat \ {0} /\ Len(order) \in Nat
  BY DEF WorkListsAssumption
<1>2. /\ (k - 1) * size \in Nat /\ k * size \in Nat /\ (k + 1) * size \in Nat
      /\ (k - 1) * size <= k * size /\ k * size <= (k + 1) * size
      /\ 1 * size = size /\ (1 - 1) * size = 0 /\ (k + 1) - 1 = k
  BY <1>1
<1> HIDE DEF size
<1>3. /\ EndOfPage(order, k) \in 0..Len(order) /\ EndOfPage(order, k + 1) \in 0..Len(order)
      /\ k * size < Len(order) => /\ EndOfPage(order, k) = k * size
                                  /\ k * size <= EndOfPage(order, k + 1)
      /\ k * size >= Len(order) => EndOfPage(order, k) = Len(order)
  BY <1>1, <1>2 DEF EndOfPage, size
<1>4. Paginate(order, k) = SubSeq(order, (k - 1) * size + 1, EndOfPage(order, k))
  BY DEF Paginate, size
<1>5. \A i \in ((k - 1) * size + 1)..EndOfPage(order, k) : i \in 1..Len(order)
  BY <1>1, <1>2, <1>3
<1>6. /\ Paginate(order, k) \in Seq(S)
      /\ ToSet(Paginate(order, k)) \subseteq ToSet(order)
  <2> DEFINE m == (k - 1) * size + 1
             n == EndOfPage(order, k)
  <2>1. m \in Int /\ n \in Int /\ \A i \in m..n : i \in 1..Len(order) /\ order[i] \in ToSet(order)
    BY <1>2, <1>3, <1>5 DEF ToSet
  <2>2. order \in Seq(ToSet(order)) /\ ToSet(order) \subseteq S
    BY DEF ToSet
  <2> HIDE DEF m, n
  <2>3. SubSeq(order, m, n) \in Seq(ToSet(order))
    BY <2>1, SubSeqProperties
  <2>4. Paginate(order, k) \in Seq(ToSet(order))
    BY <2>3, <1>4 DEF m, n
  <2>5. \A i \in DOMAIN Paginate(order, k) : Paginate(order, k)[i] \in ToSet(order)
    BY <2>4
  <2>6. ToSet(Paginate(order, k)) \subseteq ToSet(order)
    BY <2>5 DEF ToSet
  <2> QED BY <2>2, <2>4, <2>6, SeqMonotonic
<1>7. Paginate(order, 1) = SubSeq(order, 1, EndOfPage(order, 1))
  <2>1. (1 - 1) * PageSize + 1 = 1
    BY DEF WorkListsAssumption
  <2> HIDE DEF EndOfPage
  <2> QED BY <2>1 DEF Paginate
<1>8. ASSUME k * size < Len(order)
      PROVE  SubSeq(order, 1, EndOfPage(order, k)) \o Paginate(order, k + 1)
                = SubSeq(order, 1, EndOfPage(order, k + 1))
  <2>1. Paginate(order, k + 1) = SubSeq(order, k * size + 1, EndOfPage(order, k + 1))
    BY <1>2 DEF Paginate, size
  <2>2. /\ EndOfPage(order, k) = k * size
        /\ k * size \in 0..Len(order) /\ EndOfPage(order, k + 1) \in (k * size)..Len(order)
    BY <1>1, <1>2, <1>3, <1>8
  <2>3. SubSeq(order, 1, k * size) \o SubSeq(order, k * size + 1, EndOfPage(order, k + 1))
          = SubSeq(order, 1, EndOfPage(order, k + 1))
    <3> DEFINE mid == k * size
               end == EndOfPage(order, k + 1)
    <3>1. mid \in (1 - 1)..Len(order) /\ end \in mid..Len(order) /\ 1 \in 1..(Len(order) + 1)
      BY <2>2, <1>1
    <3> HIDE DEF mid, end
    <3>2. SubSeq(order, 1, mid) \o SubSeq(order, mid + 1, end) = SubSeq(order, 1, end)
      BY <3>1, ConcatAdjacentSubSeq
    <3> QED BY <3>2 DEF mid, end
  <2> QED BY <2>1, <2>2, <2>3
<1>9. k * size >= Len(order) => SubSeq(order, 1, EndOfPage(order, k)) = order
  BY <1>3, SubSeqFull
<1> QED BY <1>6, <1>7, <1>8, <1>9 DEF size

----------------------------------------------------------------------------
LEMMA ListsStart ==
  ASSUME WorkListsAssumption, ListsInit
  PROVE  ListsInv
<1>1. ListsTypeOK
  BY DEF ListsInit, ListsTypeOK, WorkListsAssumption
<1>2. list = Nothing /\ turned = <<>> /\ totals = <<>>
  BY DEF ListsInit
<1> QED BY <1>1, <1>2 DEF ListsInv, OnScreen

(* A page: its tasks, and the total it says.                                *)
LEMMA AnswerFacts ==
  ASSUME WorkListsAssumption, ListsTypeOK, NEW v, NEW q, NEW k \in Nat \ {0},
         AnswerPage(v, q, k)
  PROVE  \E order \in OrdersOf(v, q) :
           /\ order \in Seq(Numbers) /\ Len(order) = Cardinality(Wanted(v, q))
           /\ ToSet(order) = Wanted(v, q)
           /\ Paginate(order, k) \in Seq(Numbers)
           /\ turned' = turned \o Paginate(order, k) /\ turned' \in Seq(Numbers)
           /\ totals' \in Seq(0..Cardinality(Numbers)) /\ totals' # <<>>
           /\ Last(totals') = Cardinality(Wanted(v, q))
<1>1. PICK order \in OrdersOf(v, q) :
        /\ turned' = turned \o Paginate(order, k)
        /\ totals' = Append(totals, Cardinality(Wanted(v, q)))
  BY DEF AnswerPage, OrdersOf
<1>2. /\ order \in Seq(Numbers) /\ Len(order) = Cardinality(Wanted(v, q))
      /\ ToSet(order) = Wanted(v, q)
  BY OrdersList DEF ListsTypeOK
<1>3. Paginate(order, k) \in Seq(Numbers)
  BY <1>2, PagesAdjoin
<1>4. turned' \in Seq(Numbers)
  BY <1>1, <1>3 DEF ListsTypeOK
<1>5. /\ totals' \in Seq(0..Cardinality(Numbers)) /\ totals' # <<>>
      /\ Last(totals') = Cardinality(Wanted(v, q))
  <2>1. Cardinality(Wanted(v, q)) \in 0..Cardinality(Numbers)
    BY WantedIsFinite
  <2>2. totals \in Seq(0..Cardinality(Numbers))
    BY DEF ListsTypeOK
  <2> DEFINE many == Cardinality(Wanted(v, q))
             upTo == 0..Cardinality(Numbers)
  <2>3. many \in upTo /\ totals \in Seq(upTo) /\ totals' = Append(totals, many)
    BY <1>1, <2>1, <2>2
  <2> HIDE DEF many, upTo
  <2>4. /\ totals' \in Seq(upTo) /\ totals' # <<>>
        /\ totals'[Len(totals')] = many
    BY <2>3
  <2> QED BY <2>4 DEF Last, many, upTo
<1> QED BY <1>1, <1>2, <1>3, <1>4, <1>5

LEMMA WantedStays ==
  ASSUME UNCHANGED <<work, today>>
  PROVE  \A v, q : /\ Wanted(v, q)' = Wanted(v, q)
                  /\ NeedsMemory(v, q)' = NeedsMemory(v, q)
                  /\ Sorted(Wanted(v, q), q.sort)' = Sorted(Wanted(v, q), q.sort)
<1>2. \A v, q : NeedsMemory(v, q)' = NeedsMemory(v, q)
  BY DEF NeedsMemory
<1>3. \A v, q : Wanted(v, q)' = Wanted(v, q)
  BY DEF Wanted, Filtered, Posted, IsOverdue, NeedsMemory
<1>4. \A ids, sort : Sorted(ids, sort)' = Sorted(ids, sort)
  BY DEF Sorted, InOrder, Precedes, AttentionScore, IsOverdue
<1>5. \A v, q : Sorted(Wanted(v, q), q.sort)' = Sorted(Wanted(v, q), q.sort)
  BY <1>3, <1>4
<1> QED BY <1>2, <1>3, <1>5

LEMMA AskKeeps ==
  ASSUME WorkListsAssumption, ListsInv, NEW v \in Viewers, NEW q \in Queries, AskList(v, q)
  PROVE  ListsInv'
<1>1. /\ AnswerPage(v, q, 1) /\ UNCHANGED <<work, today, changes>> /\ turned = <<>>
      /\ list' = [viewer |-> v, query |-> q, pages |-> 1, steady |-> TRUE]
  BY DEF AskList, ListsInv
<1>2. PICK order \in OrdersOf(v, q) :
        /\ order \in Seq(Numbers)
        /\ ToSet(order) = Wanted(v, q)
        /\ Paginate(order, 1) \in Seq(Numbers)
        /\ turned' = turned \o Paginate(order, 1) /\ turned' \in Seq(Numbers)
        /\ totals' \in Seq(0..Cardinality(Numbers)) /\ totals' # <<>>
        /\ Last(totals') = Cardinality(Wanted(v, q))
  BY <1>1, AnswerFacts DEF ListsInv
<1>3. list' \in OpenList /\ list' # Nothing
  BY <1>1 DEF OpenList, Nothing
<1>4. ListsTypeOK'
  BY <1>1, <1>2, <1>3 DEF ListsInv, ListsTypeOK
<1>5. turned' = SubSeq(order, 1, EndOfPage(order, 1)) /\ ToSet(turned') \subseteq Wanted(v, q)
  <2>1. turned' = Paginate(order, 1)
    BY <1>1, <1>2
  <2>2. /\ Paginate(order, 1) = SubSeq(order, 1, EndOfPage(order, 1))
        /\ ToSet(Paginate(order, 1)) \subseteq ToSet(order)
    <3>1. ASSUME NEW k \in Nat \ {0}
          PROVE  /\ ToSet(Paginate(order, k)) \subseteq ToSet(order)
                 /\ Paginate(order, 1) = SubSeq(order, 1, EndOfPage(order, 1))
      BY <1>2, PagesAdjoin
    <3>2. 1 \in Nat \ {0}
      OBVIOUS
    <3> QED BY <3>1, <3>2
  <2> QED BY <2>1, <2>2, <1>2
<1>6. NeedsMemory(v, q) => order = Sorted(Wanted(v, q), q.sort)
  BY DEF OrdersOf
<1>7. ScreenfulIsCurrent(v, q)'
  <2>1. /\ Wanted(v, q)' = Wanted(v, q) /\ NeedsMemory(v, q)' = NeedsMemory(v, q)
        /\ Sorted(Wanted(v, q), q.sort)' = Sorted(Wanted(v, q), q.sort)
    BY <1>1, WantedStays
  <2>2. list'.pages = 1
    BY <1>1
  <2> QED BY <1>2, <1>5, <1>6, <2>1, <2>2 DEF ScreenfulIsCurrent, EndOfPage, Last, ToSet
<1>8. ASSUME NEW x \in Viewers, NEW y \in Queries, OnScreen(x, y)'
      PROVE  ScreenfulIsCurrent(x, y)'
  <2>1. x = v /\ y = q
    BY <1>1, <1>8 DEF OnScreen
  <2> QED BY <2>1, <1>7
<1> QED BY <1>2, <1>3, <1>4, <1>8 DEF ListsInv
LEMMA TurnKeeps ==
  ASSUME WorkListsAssumption, ListsInv, TurnPage
  PROVE  ListsInv'
<1>1. /\ list # Nothing /\ list.pages * PageSize < Last(totals)
      /\ list' = [list EXCEPT !.pages = @ + 1]
      /\ AnswerPage(list.viewer, list.query, list.pages + 1)
      /\ UNCHANGED <<work, today, changes>>
  BY DEF TurnPage
<1>2. list \in OpenList
  BY <1>1 DEF ListsInv, ListsTypeOK
<1>3. PICK v \in Viewers, q \in Queries, k \in Nat \ {0} :
        /\ v = list.viewer /\ q = list.query /\ k = list.pages
        /\ list' = [viewer |-> v, query |-> q, pages |-> k + 1, steady |-> list.steady]
        /\ AnswerPage(v, q, k + 1) /\ k + 1 \in Nat \ {0}
  BY <1>1, <1>2 DEF OpenList
<1>4. PICK order \in OrdersOf(v, q) :
        /\ order \in Seq(Numbers) /\ Len(order) = Cardinality(Wanted(v, q))
        /\ ToSet(order) = Wanted(v, q)
        /\ Paginate(order, k + 1) \in Seq(Numbers)
        /\ turned' = turned \o Paginate(order, k + 1) /\ turned' \in Seq(Numbers)
        /\ totals' \in Seq(0..Cardinality(Numbers)) /\ totals' # <<>>
        /\ Last(totals') = Cardinality(Wanted(v, q))
  BY <1>3, AnswerFacts DEF ListsInv
<1>5. list' \in OpenList /\ list' # Nothing
  BY <1>2, <1>3 DEF OpenList, Nothing
<1>6. ListsTypeOK'
  BY <1>1, <1>4, <1>5 DEF ListsInv, ListsTypeOK
<1>7. ASSUME list.steady PROVE ScreenfulIsCurrent(v, q)'
  <2>1. ScreenfulIsCurrent(v, q)
    BY <1>1, <1>3, <1>7 DEF ListsInv, OnScreen
  <2>2. /\ Wanted(v, q)' = Wanted(v, q) /\ NeedsMemory(v, q)' = NeedsMemory(v, q)
        /\ Sorted(Wanted(v, q), q.sort)' = Sorted(Wanted(v, q), q.sort)
    BY <1>1, WantedStays
  <2>3. ToSet(turned') \subseteq Wanted(v, q)
    <3>1. ToSet(turned) \subseteq Wanted(v, q)
      BY <2>1 DEF ScreenfulIsCurrent
    <3>2. ToSet(Paginate(order, k + 1)) \subseteq Wanted(v, q)
      <4>1. ASSUME NEW i \in Nat \ {0} PROVE ToSet(Paginate(order, i)) \subseteq ToSet(order)
        BY <1>4, PagesAdjoin
      <4> QED BY <4>1, <1>3, <1>4
    <3>3. turned \in Seq(Numbers)
      BY DEF ListsInv, ListsTypeOK
    <3> QED BY <3>1, <3>2, <3>3, <1>4 DEF ToSet
  <2>4. ASSUME NeedsMemory(v, q)
        PROVE  turned' = SubSeq(order, 1, EndOfPage(order, k + 1))
    <3>1. order = Sorted(Wanted(v, q), q.sort)
      BY <2>4 DEF OrdersOf
    <3>2. turned = SubSeq(order, 1, EndOfPage(order, k))
      BY <2>1, <2>4, <3>1, <1>3 DEF ScreenfulIsCurrent
    <3>3. k * PageSize < Len(order)
      BY <2>1, <1>1, <1>3, <1>4 DEF ScreenfulIsCurrent
    <3> QED BY <3>2, <3>3, <1>3, <1>4, PagesAdjoin
  <2>5. NeedsMemory(v, q) => order = Sorted(Wanted(v, q), q.sort)
    BY DEF OrdersOf
  <2>6. list'.pages = k + 1
    BY <1>3
  <2> QED BY <1>4, <2>2, <2>3, <2>4, <2>5, <2>6 DEF ScreenfulIsCurrent, EndOfPage, Last, ToSet
<1>8. ASSUME NEW x \in Viewers, NEW y \in Queries, OnScreen(x, y)'
      PROVE  ScreenfulIsCurrent(x, y)'
  <2>1. x = v /\ y = q /\ list.steady
    BY <1>3, <1>8 DEF OnScreen
  <2> QED BY <2>1, <1>7
<1> QED BY <1>4, <1>5, <1>6, <1>8 DEF ListsInv

LEMMA EditKeeps ==
  ASSUME WorkListsAssumption, ListsInv, NEW n \in Numbers, NEW r \in Samples, EditTask(n, r)
  PROVE  ListsInv'
<1>1. list \in OpenList
  BY DEF EditTask, ListsInv, ListsTypeOK
<1>2. list' \in OpenList /\ list'.steady = FALSE
  BY <1>1 DEF EditTask, OpenList
<1>3. list' # Nothing
  BY <1>2 DEF OpenList, Nothing
<1>4. ListsTypeOK'
  BY <1>2 DEF EditTask, ListsInv, ListsTypeOK, WorkListsAssumption
<1> QED BY <1>2, <1>3, <1>4 DEF ListsInv, EditTask, OnScreen

LEMMA LeaveKeeps ==
  ASSUME WorkListsAssumption, ListsInv, LeaveList
  PROVE  ListsInv'
<1>1. ListsTypeOK'
  BY DEF LeaveList, ListsInv, ListsTypeOK
<1> QED BY <1>1 DEF ListsInv, LeaveList, OnScreen

LEMMA ListsStutter ==
  ASSUME WorkListsAssumption, ListsInv, UNCHANGED listVars
  PROVE  ListsInv'
<1>1. ListsTypeOK'
  BY DEF listVars, ListsInv, ListsTypeOK
<1>2. \A v, q : /\ Wanted(v, q)' = Wanted(v, q) /\ NeedsMemory(v, q)' = NeedsMemory(v, q)
               /\ Sorted(Wanted(v, q), q.sort)' = Sorted(Wanted(v, q), q.sort)
  BY WantedStays DEF listVars
<1>3. ASSUME NEW x \in Viewers, NEW y \in Queries, OnScreen(x, y)'
      PROVE  ScreenfulIsCurrent(x, y)'
  <2>1. ScreenfulIsCurrent(x, y)
    BY <1>3 DEF OnScreen, ListsInv, listVars
  <2> QED BY <1>2, <2>1 DEF ScreenfulIsCurrent, listVars, EndOfPage, Last, ToSet
<1> QED BY <1>1, <1>3 DEF ListsInv, listVars

LEMMA ListsInductive ==
  ASSUME WorkListsAssumption
  PROVE  ListsSpec => []ListsInv
<1>1. ListsInit => ListsInv
  BY ListsStart
<1>2. ListsInv /\ [ListsNext]_listVars => ListsInv'
  <2> SUFFICES ASSUME ListsInv, [ListsNext]_listVars PROVE ListsInv'
    OBVIOUS
  <2>1. CASE \E p \in Viewers, q \in Queries : AskList(p, q)
    BY <2>1, AskKeeps
  <2>2. CASE TurnPage
    BY <2>2, TurnKeeps
  <2>3. CASE \E n \in Numbers, r \in Samples : EditTask(n, r)
    BY <2>3, EditKeeps
  <2>4. CASE LeaveList
    BY <2>4, LeaveKeeps
  <2>5. CASE UNCHANGED listVars
    BY <2>5, ListsStutter
  <2> QED BY <2>1, <2>2, <2>3, <2>4, <2>5 DEF ListsNext
<1> QED BY <1>1, <1>2, PTL DEF ListsSpec
----------------------------------------------------------------------------
(* Whoever sees everything may read tasks.                                  *)
LEMMA GlobalsReach ==
  ASSUME NEW v, HasGlobalScope(v), NEW r
  PROVE  CanAccessActionItem(v, r)
BY DEF HasGlobalScope, CanAccessActionItem, HasPermission, Permissions, Roles,
       DirectorPermissions, ManagerPermissions, MemberPermissions

LEMMA ReachOfMemory ==
  ASSUME NEW v, NEW q, ~NeedsMemory(v, q)
  PROVE  HasGlobalScope(v)
BY DEF NeedsMemory

(* The inductive invariant implies that lists are exact.                    *)
LEMMA ExactIsKept ==
  ASSUME WorkListsAssumption, ListsInv
  PROVE  ListsAreExact
<1> SUFFICES ASSUME list.steady PROVE ListsAreExact
  BY DEF ListsAreExact
<1>1. list \in OpenList /\ list # Nothing
  BY DEF ListsInv, ListsTypeOK, Nothing
<1> DEFINE v == list.viewer
           q == list.query
           all == Sorted(Wanted(v, q), q.sort)
<1>2. v \in Viewers /\ q \in Queries /\ list.pages \in Nat \ {0}
  BY <1>1 DEF OpenList
<1>3. ScreenfulIsCurrent(v, q)
  BY <1>1, <1>2 DEF ListsInv, OnScreen
<1>4. \A n \in Wanted(v, q) : CanAccessActionItem(v, work[n])
  BY GlobalsReach, ReachOfMemory DEF Wanted
<1>5. \A n \in ToSet(turned) : CanAccessActionItem(v, work[n])
  BY <1>3, <1>4 DEF ScreenfulIsCurrent
<1>6. ASSUME NeedsMemory(v, q), list.pages * PageSize >= Last(totals)
      PROVE  IsInjective(turned) /\ ToSet(turned) = Wanted(v, q)
  <2>1. all \in OrdersOf(v, q)
    BY <1>6 DEF OrdersOf
  <2>2. work \in [Numbers -> Samples]
    BY DEF ListsInv, ListsTypeOK
  <2>3. /\ all \in Seq(Numbers) /\ IsInjective(all)
        /\ Len(all) = Cardinality(Wanted(v, q)) /\ ToSet(all) = Wanted(v, q)
    BY <2>1, <2>2, OrdersList
  <2>4. turned = SubSeq(all, 1, EndOfPage(all, list.pages))
    BY <1>3, <1>6 DEF ScreenfulIsCurrent
  <2>5. list.pages * PageSize >= Len(all)
    BY <1>3, <1>6, <2>3 DEF ScreenfulIsCurrent
  <2>6. turned = all
    BY <1>2, <2>3, <2>4, <2>5, PagesAdjoin
  <2> QED BY <2>3, <2>6
<1>7. NeedsMemory(v, q) =>
        Wanted(v, q) = {n \in Numbers : /\ CanAccessActionItem(v, work[n])
                                        /\ Filtered(v, q, work[n])
                                        /\ Posted(v, q, work[n])}
  BY DEF Wanted
<1> QED BY <1>5, <1>6, <1>7 DEF ListsAreExact

----------------------------------------------------------------------------
(* What a tile counts is what its list wants.                               *)
LEMMA TilesTell ==
  ASSUME WorkListsAssumption, work \in [Numbers -> Samples], NEW v \in Viewers,
         NEW q \in Queries, NEW tile \in KpiTiles(v) \cup PersonRows(v), LeadsTo(tile, q)
  PROVE  tile.count = Cardinality(Wanted(v, q))
<1>1. \A n \in Numbers : HasGlobalScope(v) => CanAccessActionItem(v, work[n])
  BY GlobalsReach
<1>2. q.priority = NoOne /\ q.view = tile.view /\ q.status = tile.status /\ q.owner = tile.owner
  BY DEF LeadsTo
<1>3. \A n \in Numbers :
        n \in OpenInScope(v) <=>
          /\ work[n].status \in OpenStatuses
          /\ NeedsMemory(v, q) => CanAccessActionItem(v, work[n])
  BY <1>1, ReachOfMemory DEF OpenInScope, InScope
<1>4. "IN_PROGRESS" # NoOne /\ OpenInScope(v) \subseteq Numbers
  BY DEF WorkListsAssumption, Status, OpenInScope, InScope
<1>5. CASE tile = Tile("all", NoOne, NoOne, CountOpen(v, LAMBDA r : TRUE))
  <2>1. Wanted(v, q) = {n \in OpenInScope(v) : TRUE}
    BY <1>2, <1>3, <1>4, <1>5
       DEF Wanted, Filtered, Posted, StatusesOf, Tile, OpenStatuses, Status
  <2>2. tile.count = Cardinality({n \in OpenInScope(v) : TRUE})
    BY <1>5 DEF Tile, CountOpen
  <2> QED BY <2>1, <2>2
<1>6. CASE tile = Tile("all", "IN_PROGRESS", NoOne, CountOpen(v, LAMBDA r : r.status = "IN_PROGRESS"))
  <2>1. Wanted(v, q) = {n \in OpenInScope(v) : work[n].status = "IN_PROGRESS"}
    BY <1>2, <1>3, <1>4, <1>6
       DEF Wanted, Filtered, Posted, StatusesOf, Tile, OpenStatuses, Status
  <2>2. tile.count = Cardinality({n \in OpenInScope(v) : work[n].status = "IN_PROGRESS"})
    BY <1>6 DEF Tile, CountOpen
  <2> QED BY <2>1, <2>2
<1>7. CASE tile = Tile("overdue", NoOne, NoOne, CountOpen(v, IsOverdue))
  <2>0. NeedsMemory(v, q)
    BY <1>2, <1>7 DEF NeedsMemory, Tile
  <2>1. Wanted(v, q) = {n \in OpenInScope(v) : IsOverdue(work[n])}
    BY <2>0, <1>2, <1>3, <1>4, <1>7
       DEF Wanted, Filtered, Posted, StatusesOf, Tile, OpenStatuses, Status
  <2>2. tile.count = Cardinality({n \in OpenInScope(v) : IsOverdue(work[n])})
    BY <1>7 DEF Tile, CountOpen
  <2> QED BY <2>1, <2>2
<1>8. CASE tile = Tile("noDueDate", NoOne, NoOne, CountOpen(v, LAMBDA r : r.due = 0))
  <2>1. Wanted(v, q) = {n \in OpenInScope(v) : work[n].due = 0}
    BY <1>2, <1>3, <1>4, <1>8
       DEF Wanted, Filtered, Posted, StatusesOf, Tile, OpenStatuses, Status
  <2>2. tile.count = Cardinality({n \in OpenInScope(v) : work[n].due = 0})
    BY <1>8 DEF Tile, CountOpen
  <2> QED BY <2>1, <2>2
<1>9. CASE tile \in PersonRows(v)
  <2>1. PICK person \in {work[n].owner : n \in OpenInScope(v)} \ {NoOne} :
          tile = Tile("all", NoOne, person, CountOpen(v, LAMBDA r : r.owner = person))
    BY <1>9 DEF PersonRows
  <2>2. Wanted(v, q) = {n \in OpenInScope(v) : work[n].owner = person}
    BY <1>2, <1>3, <1>4, <2>1
       DEF Wanted, Filtered, Posted, StatusesOf, Tile, OpenStatuses, Status
  <2>3. tile.count = Cardinality({n \in OpenInScope(v) : work[n].owner = person})
    BY <2>1 DEF Tile, CountOpen
  <2> QED BY <2>2, <2>3
<1> QED BY <1>5, <1>6, <1>7, <1>8, <1>9 DEF KpiTiles
----------------------------------------------------------------------------
LEMMA ReportedIsAll ==
  DigestOpen(WholeCompany) =
    {n \in Numbers : work[n].status \in OpenStatuses \ {"PROPOSED"}}
BY DEF DigestOpen, Reported, WholeCompany

(* What is wanted and no mere proposal.                                     *)
Settled(v, q) == {n \in Wanted(v, q) : work[n].status # "PROPOSED"}

(* A tile of risk counts what the list it leads to shows.                   *)
LEMMA RisksTell ==
  ASSUME WorkListsAssumption, NEW v, HasGlobalScope(v), NEW q,
         NEW view \in DOMAIN Risks(WholeCompany), LeadsTo(Tile(view, NoOne, NoOne, 0), q)
  PROVE  Settled(v, q) = Risks(WholeCompany)[view]
<1>1. q.view = view /\ q.status = NoOne /\ q.owner = NoOne /\ q.priority = NoOne
  BY DEF LeadsTo, Tile
<1>2. \A n \in Numbers : CanAccessActionItem(v, work[n])
  BY GlobalsReach
<1>3. DigestOpen(WholeCompany) =
        {n \in Numbers : work[n].status \in OpenStatuses \ {"PROPOSED"}}
  BY ReportedIsAll
<1>4. view \in {"overdue", "noOwner", "noDueDate", "blocked"}
  BY DEF Risks
<1>5. CASE view = "overdue"
  <2>1. Risks(WholeCompany)[view] = {n \in DigestOpen(WholeCompany) : IsOverdue(work[n])}
    BY <1>5 DEF Risks
  <2>2. NeedsMemory(v, q)
    BY <1>1, <1>5 DEF NeedsMemory
  <2> QED BY <2>2, <1>1, <1>2, <1>3, <1>5, <2>1
       DEF Settled, Wanted, Filtered, Posted, StatusesOf, OpenStatuses, Status
<1>6. CASE view = "noOwner"
  <2>1. Risks(WholeCompany)[view] = {n \in DigestOpen(WholeCompany) : work[n].owner = NoOne /\ ~work[n].external}
    BY <1>6 DEF Risks
  <2> QED BY <1>1, <1>2, <1>3, <1>6, <2>1
       DEF Settled, Wanted, Filtered, Posted, StatusesOf, OpenStatuses, Status
<1>7. CASE view = "noDueDate"
  <2>1. Risks(WholeCompany)[view] = {n \in DigestOpen(WholeCompany) : work[n].due = 0}
    BY <1>7 DEF Risks
  <2> QED BY <1>1, <1>2, <1>3, <1>7, <2>1
       DEF Settled, Wanted, Filtered, Posted, StatusesOf, OpenStatuses, Status
<1>8. CASE view = "blocked"
  <2>1. Risks(WholeCompany)[view] = {n \in DigestOpen(WholeCompany) : work[n].status = "BLOCKED"}
    BY <1>8 DEF Risks
  <2> QED BY <1>1, <1>2, <1>3, <1>8, <2>1
       DEF Settled, Wanted, Filtered, Posted, StatusesOf, OpenStatuses, Status
<1> QED BY <1>4, <1>5, <1>6, <1>7, <1>8

(* The digest's approval inbox counts what the list of closures to approve  *)
(* shows.                                                                   *)
LEMMA InboxTells ==
  ASSUME WorkListsAssumption, NEW v, HasGlobalScope(v), NEW q,
         LeadsTo(Tile("all", "COMPLETION_PROPOSED", NoOne, 0), q)
  PROVE  Settled(v, q) = ApprovalInbox(WholeCompany)
<1>1. /\ q.view = "all" /\ q.status = "COMPLETION_PROPOSED"
      /\ q.owner = NoOne /\ q.priority = NoOne /\ "COMPLETION_PROPOSED" # NoOne
  BY DEF LeadsTo, Tile, WorkListsAssumption, Status
<1>2. \A n \in Numbers : CanAccessActionItem(v, work[n])
  BY GlobalsReach
<1> QED BY <1>1, <1>2, ReportedIsAll
       DEF Settled, ApprovalInbox, Wanted, Filtered, Posted, OpenStatuses, Status

(* A list is what is settled and what is proposed.                          *)
LEMMA ProposalsAreApart ==
  ASSUME WorkListsAssumption, NEW v, NEW q
  PROVE  Cardinality(Wanted(v, q))
           = Cardinality(Settled(v, q))
             + Cardinality({n \in Wanted(v, q) : work[n].status = "PROPOSED"})
<1> DEFINE W == Wanted(v, q)
           proposed == {n \in W : work[n].status = "PROPOSED"}
<1>1. IsFiniteSet(W)
  BY WantedIsFinite
<1>2. W \cap proposed = proposed /\ W \ proposed = Settled(v, q) /\ proposed \in SUBSET W
  BY DEF Settled
<1> HIDE DEF W, proposed
<1>3. /\ Cardinality(W \ proposed) = Cardinality(W) - Cardinality(W \cap proposed)
      /\ IsFiniteSet(proposed)
  BY <1>1, <1>2, FS_Difference, FS_Subset
<1>4. Cardinality(W) \in Nat /\ Cardinality(proposed) \in Nat
  BY <1>1, <1>3, FS_CardinalityType
<1>5. Cardinality(Settled(v, q)) = Cardinality(W) - Cardinality(proposed)
  BY <1>2, <1>3
<1>6. Cardinality(W) = Cardinality(Settled(v, q)) + Cardinality(proposed)
  BY <1>4, <1>5
<1> QED BY <1>6 DEF W, proposed

(* A later day is in the same week or a later one.                          *)
LEMMA WeeksFollow ==
  ASSUME NEW a \in Nat, NEW b \in Nat, a <= b
  PROVE  Week(a) = Week(b) \/ Week(a) < Week(b)
BY DEF Week

(* A task is new or backlog, since none was created after today.            *)
LEMMA OldOrNew ==
  ASSUME WorkListsAssumption, ListsTypeOK
  PROVE  DigestOpen(WholeCompany) \cap NewCommitments(WholeCompany)
           = DigestOpen(WholeCompany) \ Backlog(WholeCompany)
<1>1. \A n \in Numbers : /\ work[n].created \in Nat /\ today \in Nat
                         /\ work[n].created <= today
  BY DEF WorkListsAssumption, ListsTypeOK
<1>2. \A n \in Numbers : ~(Week(work[n].created) < Week(today)) <=>
                           Week(work[n].created) = Week(today)
  <2> SUFFICES ASSUME NEW n \in Numbers
               PROVE  ~(Week(work[n].created) < Week(today)) <=>
                        Week(work[n].created) = Week(today)
    OBVIOUS
  <2> DEFINE born == Week(work[n].created)
             now == Week(today)
  <2>1. born \in Int /\ now \in Int
    BY <1>1 DEF Week
  <2>2. born = now \/ born < now
    BY <1>1, WeeksFollow
  <2> HIDE DEF born, now
  <2>3. ~(born < now) <=> born = now
    BY <2>1, <2>2
  <2> QED BY <2>3 DEF born, now
<1>3. DigestOpen(WholeCompany) =
        {n \in Numbers : work[n].status \in OpenStatuses \ {"PROPOSED"}}
  BY ReportedIsAll
<1>4. NewCommitments(WholeCompany) =
        {n \in Numbers : Week(work[n].created) = Week(today) /\ work[n].status # "CANCELLED"}
  BY DEF NewCommitments, Reported, WholeCompany
<1>5. Backlog(WholeCompany) =
        {n \in DigestOpen(WholeCompany) : Week(work[n].created) < Week(today)}
  BY DEF Backlog
<1> HIDE DEF Week
<1> QED BY <1>2, <1>3, <1>4, <1>5 DEF OpenStatuses

LEMMA CountsAreKept ==
  ASSUME WorkListsAssumption, ListsInv
  PROVE  CountsAgree
<1> SUFFICES ASSUME list.steady PROVE CountsAgree
  BY DEF CountsAgree
<1>1. list \in OpenList /\ list # Nothing
  BY DEF ListsInv, ListsTypeOK, Nothing
<1> DEFINE v == list.viewer
           q == list.query
           proposed == {n \in Wanted(v, q) : work[n].status = "PROPOSED"}
<1>2. v \in Viewers /\ q \in Queries /\ work \in [Numbers -> Samples]
  BY <1>1 DEF OpenList, ListsInv, ListsTypeOK
<1>3. Last(totals) = Cardinality(Wanted(v, q))
  BY <1>1, <1>2 DEF ListsInv, OnScreen, ScreenfulIsCurrent
<1>4. ASSUME NEW tile \in KpiTiles(v) \cup PersonRows(v), LeadsTo(tile, q)
      PROVE  Last(totals) = tile.count
  BY <1>2, <1>3, <1>4, TilesTell
<1>5. Last(totals) = Cardinality(Settled(v, q)) + Cardinality(proposed)
  BY <1>3, ProposalsAreApart
<1>6. ASSUME HasGlobalScope(v), NEW view \in DOMAIN Risks(WholeCompany),
             LeadsTo(Tile(view, NoOne, NoOne, 0), q)
      PROVE  Last(totals) = Cardinality(Risks(WholeCompany)[view]) + Cardinality(proposed)
  BY <1>5, <1>6, RisksTell
<1>7. ASSUME HasGlobalScope(v), LeadsTo(Tile("all", "COMPLETION_PROPOSED", NoOne, 0), q)
      PROVE  Last(totals) = Cardinality(ApprovalInbox(WholeCompany)) + Cardinality(proposed)
  BY <1>5, <1>7, InboxTells
<1>8. DigestOpen(WholeCompany) \cap NewCommitments(WholeCompany)
        = DigestOpen(WholeCompany) \ Backlog(WholeCompany)
  BY OldOrNew DEF ListsInv
<1> QED BY <1>4, <1>6, <1>7, <1>8 DEF CountsAgree

----------------------------------------------------------------------------
(* A list, its pages and its totals keep their types.                       *)
THEOREM ListsTypesHold == ListsSpec => []ListsTypeOK
<1>1. ListsInv => ListsTypeOK
  BY DEF ListsInv
<1> QED BY <1>1, ListsInductive, WorkListsAssumption, PTL

(* No list shows a task beyond the reach of the one who asked, and one      *)
(* answered in memory, turned to its last page, has shown every task it is  *)
(* about once (listActionItems), for any tasks, people, filters and pages.  *)
THEOREM ListsAreAlwaysExact == ListsSpec => []ListsAreExact
<1>1. ListsInv => ListsAreExact
  BY ExactIsKept, WorkListsAssumption
<1> QED BY <1>1, ListsInductive, WorkListsAssumption, PTL

(* The dashboard, the totals of the lists it leads to and the risks of the  *)
(* digest agree, for any tasks and people.                                  *)
THEOREM CountsAlwaysAgree == ListsSpec => []CountsAgree
<1>1. ListsInv => CountsAgree
  BY CountsAreKept, WorkListsAssumption
<1> QED BY <1>1, ListsInductive, WorkListsAssumption, PTL

----------------------------------------------------------------------------
(* The spreadsheet.                                                         *)

(* What a sync writes of a key, and the keys it writes.                     *)
TabIn(run) == SheetNames[run.tab]
Chosen(run) == Projected(TabIn(run), run.projected[TabIn(run)])
Entry(run, k) == RowFor(k, run.projected[TabIn(run)][k])

(* No key is on two rows, and the key of every row can be found.            *)
Distinct(sheet) ==
  \A i, j \in DOMAIN sheet.rows :
    sheet.rows[i].key = sheet.rows[j].key => i = j \/ sheet.rows[i].key = 0
Readable(sheet) ==
  \A i \in DOMAIN sheet.rows : sheet.rows[i].key # 0 =>
    sheet.rows[i].order = IF sheet.header = "empty" THEN "ours" ELSE sheet.header

HasKey(sheet, k) == \E i \in DOMAIN sheet.rows : sheet.rows[i].key = k
NewKeys(run) == {k \in Chosen(run) : ~HasKey(run.read, k)}
HasNews(run) ==
  run.read.header # "ours" \/ \E k \in Chosen(run) : HasKey(run.read, k)

(* The sheet a sync read, once its rows are written over.                   *)
Rewritten(run) ==
  [header |-> "ours",
   rows |-> [i \in DOMAIN run.read.rows |->
               IF run.read.rows[i].key \in Chosen(run)
               THEN Entry(run, run.read.rows[i].key) ELSE run.read.rows[i]]]

AllWritten(run, sheet) ==
  /\ sheet.header = "ours"
  /\ \A k \in Chosen(run) : \E i \in DOMAIN sheet.rows : sheet.rows[i] = Entry(run, k)
  /\ \A i \in DOMAIN run.read.rows :
       run.read.rows[i].key \notin Chosen(run) => sheet.rows[i] = run.read.rows[i]

(* What a sync that is not crossed finds on the sheet.                      *)
Found(run, sheet) ==
  /\ run.step \in {"update", "append"} => Distinct(run.read) /\ Readable(run.read)
  /\ run.step = "update" /\ ~run.landed => sheet = run.read
  /\ run.step = "update" /\ run.landed => HasNews(run) /\ sheet = Rewritten(run)
  /\ run.step = "append" /\ ~run.landed => sheet = Rewritten(run)
  /\ run.step = "append" /\ run.landed => NewKeys(run) # {}
  /\ run.step = "next" => AllWritten(run, sheet)

FoundBy(s) ==
  syncing[s] # NoSync /\ syncing[s].alone /\ TabOf(s) \notin muddled =>
    Found(syncing[s], spreadsheet[TabOf(s)])

SheetsInv ==
  /\ SheetsTypeOK
  /\ \A t \in Tabs \ muddled : Distinct(spreadsheet[t]) /\ Readable(spreadsheet[t])
  /\ \A s \in Syncers : FoundBy(s)
----------------------------------------------------------------------------
LEMMA ChosenAreKeys ==
  ASSUME NEW run
  PROVE  Chosen(run) \subseteq Keys
BY DEF Chosen, Projected

LEMMA ChosenOf ==
  ASSUME NEW s
  PROVE  /\ ToWrite(s) = Chosen(syncing[s]) /\ TabOf(s) = TabIn(syncing[s])
         /\ \A k : Values(s, k) = Entry(syncing[s], k)
BY DEF ToWrite, TabOf, Chosen, TabIn, Values, Entry

LEMMA TabsOfSyncs ==
  ASSUME SheetsAssumption, NEW run \in Sync
  PROVE  TabIn(run) \in Tabs
BY DEF Sync, TabIn, Tabs, ToSet

LEMMA EntriesAreRows ==
  ASSUME SheetsAssumption, NEW run \in Sync, NEW k \in Chosen(run)
  PROVE  Entry(run, k) \in Row /\ Entry(run, k).key = k /\ Entry(run, k).order = "ours"
<1>1. k \in Keys /\ TabIn(run) \in Tabs
  BY ChosenAreKeys, TabsOfSyncs
<1>2. run.projected[TabIn(run)][k] \in 0..MaxFacts
  BY <1>1 DEF Sync
<1> QED BY <1>1, <1>2 DEF Entry, RowFor, Row

(* The row of a key is a row of the sheet.                                  *)
LEMMA LeastRow ==
  ASSUME NEW sheet \in Sheet, NEW k, RowsOf(sheet, k) # {}
  PROVE  Min(RowsOf(sheet, k)) \in DOMAIN sheet.rows /\ Min(RowsOf(sheet, k)) \in Nat \ {0}
<1>1. RowsOf(sheet, k) \subseteq DOMAIN sheet.rows /\ DOMAIN sheet.rows \subseteq Nat \ {0}
  BY DEF RowsOf, Sheet
<1>2. RowsOf(sheet, k) \in SUBSET Nat
  BY <1>1
<1>3. \E n \in RowsOf(sheet, k) : \A m \in RowsOf(sheet, k) : n <= m
  BY <1>2, LeastOfNaturals
<1>4. Min(RowsOf(sheet, k)) \in RowsOf(sheet, k)
  BY <1>3 DEF Min
<1> QED BY <1>1, <1>4

(* A key is found where it is, when keys are distinct and can be found.     *)
LEMMA KeyIsFound ==
  ASSUME SheetsAssumption, NEW sheet \in Sheet, Distinct(sheet), Readable(sheet), NEW k \in Keys
  PROVE  /\ RowsOf(sheet, k) # {} <=> HasKey(sheet, k)
         /\ \A i \in DOMAIN sheet.rows : sheet.rows[i].key = k => Min(RowsOf(sheet, k)) = i
<1>1. k # 0
  BY DEF SheetsAssumption
<1>2. RowsOf(sheet, k) = {i \in DOMAIN sheet.rows : sheet.rows[i].key = k}
  BY <1>1 DEF Readable, RowsOf
<1>3. RowsOf(sheet, k) # {} <=> HasKey(sheet, k)
  BY <1>2 DEF HasKey
<1>4. ASSUME NEW i \in DOMAIN sheet.rows, sheet.rows[i].key = k
      PROVE  Min(RowsOf(sheet, k)) = i
  <2>1. RowsOf(sheet, k) = {i} /\ i \in Nat
    BY <1>1, <1>2, <1>4 DEF Distinct, Sheet
  <2>2. Min({i}) = i
    BY <2>1 DEF Min
  <2> QED BY <2>1, <2>2
<1> QED BY <1>3, <1>4

(* planUpsert finds the keys it projects and the sheet has, each at its     *)
(* first row.                                                               *)
LEMMA RowNumbersAre ==
  ASSUME SheetsAssumption, SheetsTypeOK, NEW s \in Syncers, syncing[s] # NoSync
  PROVE  LET run == syncing[s] IN
         /\ DOMAIN RowNumbers(s) = {k \in Chosen(run) : RowsOf(run.read, k) # {}}
         /\ \A k \in DOMAIN RowNumbers(s) :
              /\ RowNumbers(s)[k] = Min(RowsOf(run.read, k))
              /\ RowNumbers(s)[k] \in DOMAIN run.read.rows /\ RowNumbers(s)[k] \in Nat \ {0}
         /\ run \in Sync /\ run.read \in Sheet
<1>1. syncing[s] \in Sync /\ syncing[s].read \in Sheet
  BY DEF SheetsTypeOK, Sync
<1>2. ToWrite(s) = Chosen(syncing[s])
  BY ChosenOf
<1>3. DOMAIN RowNumbers(s) = {k \in Chosen(syncing[s]) : RowsOf(syncing[s].read, k) # {}}
  BY <1>2 DEF RowNumbers
<1>4. \A k \in DOMAIN RowNumbers(s) : RowNumbers(s)[k] = Min(RowsOf(syncing[s].read, k))
  BY <1>2, <1>3 DEF RowNumbers
<1>5. ASSUME NEW k \in DOMAIN RowNumbers(s)
      PROVE  RowNumbers(s)[k] \in DOMAIN syncing[s].read.rows /\ RowNumbers(s)[k] \in Nat \ {0}
  BY <1>1, <1>3, <1>4, LeastRow
<1> QED BY <1>1, <1>3, <1>4, <1>5

(* The rows a sync appends: one for each of its keys that it did not find.  *)
LEMMA InsertsAre ==
  ASSUME SheetsAssumption, SheetsTypeOK, NEW s \in Syncers, syncing[s] # NoSync
  PROVE  LET run == syncing[s]
             fresh == Chosen(run) \ DOMAIN RowNumbers(s) IN
         \E keys \in Seq(fresh) :
           /\ IsInjective(keys) /\ ToSet(keys) = fresh
           /\ DOMAIN Inserts(s) = DOMAIN keys
           /\ Inserts(s) \in Seq(Row)
           /\ \A n \in DOMAIN keys : Inserts(s)[n] = Entry(run, keys[n])
<1> DEFINE run == syncing[s]
           fresh == Chosen(run) \ DOMAIN RowNumbers(s)
           R == {e \in fresh \X fresh : e[1] < e[2]}
           keys == CHOOSE seq \in SetToSeqs(fresh) :
                     \A i, j \in DOMAIN seq : i < j => seq[i] < seq[j]
<1>1. fresh \subseteq Nat /\ IsFiniteSet(fresh)
  BY ChosenAreKeys, FS_Subset DEF SheetsAssumption
<1>2. Total(R, fresh) /\ Transitive(R, fresh)
  BY <1>1 DEF Total, Transitive
<1>3. PICK f \in SetToSeqs(fresh) : Lists(R, fresh, f)
  <2> HIDE DEF R, fresh
  <2> QED BY <1>1, <1>2, ListExists
<1>4. keys \in SetToSeqs(fresh)
  <2>1. \A i, j \in DOMAIN f : i < j => f[i] < f[j]
    BY <1>3 DEF Lists
  <2> HIDE DEF fresh
  <2> QED BY <1>3, <2>1
<1>5. keys \in Seq(fresh) /\ IsInjective(keys) /\ ToSet(keys) = fresh
  <2> HIDE DEF fresh, keys
  <2> QED BY <1>1, <1>4, SetToSeqsParts
<1>6. /\ ToWrite(s) = Chosen(run) /\ \A k : Values(s, k) = Entry(run, k)
      /\ run \in Sync
  BY ChosenOf DEF SheetsTypeOK
<1>7. Inserts(s) = [n \in DOMAIN keys |-> Entry(run, keys[n])]
  BY <1>6 DEF Inserts
<1>8. \A n \in DOMAIN keys : keys[n] \in Chosen(run)
  <2> HIDE DEF keys
  <2> QED BY <1>5
<1> HIDE DEF keys
<1>9. Inserts(s) \in Seq(Row)
  <2>1. \A n \in DOMAIN keys : Entry(run, keys[n]) \in Row
    BY <1>6, <1>8, EntriesAreRows
  <2>2. PICK m \in Nat : DOMAIN keys = 1..m
    BY <1>5
  <2> QED BY <1>7, <2>1, <2>2
<1> QED BY <1>5, <1>7, <1>9

----------------------------------------------------------------------------
(* No row is written beyond the end of the sheet as it was read, if the     *)
(* sheet is still as long.                                                  *)
LEMMA EndOfSheet ==
  ASSUME SheetsAssumption, SheetsTypeOK, NEW s \in Syncers, syncing[s] # NoSync,
         NEW len \in Nat
  PROVE  LET at == RowNumbers(s)
             ends == {len} \cup {at[k] : k \in DOMAIN at} IN
         /\ Max(ends) \in Nat /\ len <= Max(ends)
         /\ \A k \in DOMAIN at : at[k] \in 1..Max(ends)
         /\ DOMAIN syncing[s].read.rows = 1..len => Max(ends) = len
<1> DEFINE at == RowNumbers(s)
           image == {at[k] : k \in DOMAIN at}
           ends == {len} \cup image
<1>1. /\ DOMAIN at \subseteq Keys
      /\ \A k \in DOMAIN at : /\ at[k] \in DOMAIN syncing[s].read.rows
                              /\ at[k] \in Nat \ {0}
  BY RowNumbersAre, ChosenAreKeys
<1>2. IsFiniteSet(DOMAIN at)
  BY <1>1, FS_Subset DEF SheetsAssumption
<1>3. IsFiniteSet(image)
  <2>1. at = [k \in DOMAIN at |-> at[k]]
    BY DEF RowNumbers
  <2>2. at \in Surjection(DOMAIN at, image)
    <3> HIDE DEF at
    <3> QED BY <2>1 DEF Surjection
  <2> HIDE DEF at, image
  <2> QED BY <1>2, <2>2, FS_Surjection
<1>4. IsFiniteSet(ends) /\ ends \in SUBSET Nat /\ ends # {}
  <2>1. IsFiniteSet(image \cup {len})
    <3> HIDE DEF image
    <3> QED BY <1>3, FS_AddElement
  <2>2. ends = image \cup {len}
    OBVIOUS
  <2> QED BY <1>1, <2>1, <2>2
<1> HIDE DEF ends
<1>5. PICK n \in ends : \A m \in ends : m <= n
  BY <1>4, GreatestOfNaturals
<1>6. Max(ends) \in ends /\ \A m \in ends : m <= Max(ends)
  BY <1>4, <1>5 DEF Max
<1> USE DEF ends
<1>7. Max(ends) \in Nat /\ len <= Max(ends)
  BY <1>4, <1>6
<1>8. \A k \in DOMAIN at : at[k] \in ends
  OBVIOUS
<1>9. \A k \in DOMAIN at : at[k] \in 1..Max(ends)
  <2> HIDE DEF ends, at
  <2> QED BY <1>1, <1>6, <1>7, <1>8
<1>10. ASSUME DOMAIN syncing[s].read.rows = 1..len PROVE Max(ends) = len
  <2>1. \A m \in ends : m <= len
    <3> HIDE DEF at
    <3> QED BY <1>1, <1>10
  <2>2. Max(ends) <= len
    <3> HIDE DEF ends
    <3> QED BY <1>6, <2>1
  <2> QED BY <1>7, <2>2
<1> QED BY <1>7, <1>9, <1>10

LEMMA OverwrittenIsASheet ==
  ASSUME SheetsAssumption, SheetsTypeOK, NEW s \in Syncers, syncing[s] # NoSync
  PROVE  Overwritten(s) \in Sheet
<1> DEFINE run == syncing[s]
           sheet == spreadsheet[TabOf(s)]
           at == RowNumbers(s)
           end == Max({Len(sheet.rows)} \cup {at[k] : k \in DOMAIN at})
<1>1. run \in Sync /\ TabOf(s) = TabIn(run) /\ TabOf(s) \in Tabs
  BY TabsOfSyncs, ChosenOf DEF SheetsTypeOK
<1>2. sheet \in Sheet /\ sheet.rows \in Seq(Row) /\ Len(sheet.rows) \in Nat
  BY <1>1 DEF SheetsTypeOK, Sheet
<1>3. end \in Nat
  BY <1>2, EndOfSheet
<1>4. \A k \in DOMAIN at : Values(s, k) \in Row
  <2> SUFFICES ASSUME NEW k \in DOMAIN at PROVE Values(s, k) \in Row
    OBVIOUS
  <2>1. k \in Chosen(run)
    BY RowNumbersAre
  <2>2. Values(s, k) = Entry(run, k)
    BY ChosenOf
  <2> QED BY <1>1, <2>1, <2>2, EntriesAreRows
<1>5. Keyless \in Row
  BY DEF Keyless, RowFor, Row, SheetsAssumption
<1> DEFINE Cell(i) == IF \E k \in DOMAIN at : at[k] = i
                      THEN Values(s, CHOOSE k \in DOMAIN at : at[k] = i)
                      ELSE IF i \in DOMAIN sheet.rows THEN sheet.rows[i] ELSE Keyless
<1>6. \A i \in 1..end : Cell(i) \in Row
  <2> SUFFICES ASSUME NEW i \in 1..end PROVE Cell(i) \in Row
    OBVIOUS
  <2>1. CASE \E k \in DOMAIN at : at[k] = i
    <3>1. (CHOOSE k \in DOMAIN at : at[k] = i) \in DOMAIN at
      BY <2>1
    <3> QED BY <2>1, <3>1, <1>4
  <2>2. CASE ~\E k \in DOMAIN at : at[k] = i
    <3>1. Cell(i) = IF i \in DOMAIN sheet.rows THEN sheet.rows[i] ELSE Keyless
      BY <2>2
    <3> QED BY <3>1, <1>2, <1>5
  <2> QED BY <2>1, <2>2
<1>7. Overwritten(s).rows = [i \in 1..end |-> Cell(i)]
  BY DEF Overwritten
<1> HIDE DEF Cell, end
<1>8. Overwritten(s).rows \in Seq(Row)
  BY <1>3, <1>6, <1>7
<1>9. Overwritten(s).header \in {"absent", "empty", "ours", "moved", "renamed"}
  BY <1>2 DEF Overwritten, Sheet
<1>10. Overwritten(s) = [header |-> Overwritten(s).header, rows |-> Overwritten(s).rows]
  BY DEF Overwritten
<1> QED BY <1>8, <1>9, <1>10 DEF Sheet

(* Rows written by number over the sheet that was read, or over itself      *)
(* once more when an answer was lost, give the sheet rewritten by key.      *)
LEMMA OverwrittenIsRewritten ==
  ASSUME SheetsAssumption, SheetsTypeOK, NEW s \in Syncers, syncing[s] # NoSync,
         Distinct(syncing[s].read), Readable(syncing[s].read),
         \/ spreadsheet[TabOf(s)] = syncing[s].read
         \/ spreadsheet[TabOf(s)] = Rewritten(syncing[s])
  PROVE  Overwritten(s) = Rewritten(syncing[s])
<1> DEFINE run == syncing[s]
           old == run.read
           sheet == spreadsheet[TabOf(s)]
           at == RowNumbers(s)
           len == Len(old.rows)
           end == Max({Len(sheet.rows)} \cup {at[k] : k \in DOMAIN at})
<1>1. run \in Sync /\ old \in Sheet /\ len \in Nat /\ DOMAIN old.rows = 1..len
  <2>1. run \in Sync /\ old \in Sheet
    BY RowNumbersAre
  <2>2. old.rows \in Seq(Row)
    BY <2>1 DEF Sheet
  <2> HIDE DEF old
  <2> QED BY <2>1, <2>2
<1>2. DOMAIN sheet.rows = DOMAIN old.rows
  BY DEF Rewritten
<1>3. Len(sheet.rows) = len
  <2>1. CASE sheet = old
    BY <2>1
  <2>2. CASE sheet = Rewritten(run)
    BY <1>1, <2>2 DEF Rewritten
  <2> QED BY <2>1, <2>2
<1>4. end = len
  BY <1>1, <1>3, EndOfSheet
<1>5. \A i \in 1..len : (\E k \in DOMAIN at : at[k] = i) <=> old.rows[i].key \in Chosen(run)
  <2> SUFFICES ASSUME NEW i \in 1..len
               PROVE  (\E k \in DOMAIN at : at[k] = i) <=> old.rows[i].key \in Chosen(run)
    OBVIOUS
  <2>1. ASSUME NEW k \in DOMAIN at, at[k] = i PROVE old.rows[i].key = k
    <3>1. k \in Chosen(run) /\ k \in Keys /\ RowsOf(old, k) # {} /\ at[k] = Min(RowsOf(old, k))
      BY <2>1, RowNumbersAre, ChosenAreKeys
    <3>2. HasKey(old, k)
      BY <3>1, <1>1, KeyIsFound
    <3>3. PICK j \in DOMAIN old.rows : old.rows[j].key = k
      BY <3>2 DEF HasKey
    <3>4. at[k] = j
      BY <3>1, <3>3, <1>1, KeyIsFound
    <3> QED BY <2>1, <3>3, <3>4
  <2>2. ASSUME old.rows[i].key \in Chosen(run)
        PROVE  old.rows[i].key \in DOMAIN at /\ at[old.rows[i].key] = i
    <3> DEFINE k == old.rows[i].key
    <3>1. k \in Keys /\ HasKey(old, k)
      BY <2>2, <1>1, ChosenAreKeys DEF HasKey
    <3>2. RowsOf(old, k) # {} /\ Min(RowsOf(old, k)) = i
      BY <3>1, <1>1, KeyIsFound
    <3> HIDE DEF k
    <3>3. k \in DOMAIN at /\ at[k] = i
      BY <2>2, <3>2, RowNumbersAre DEF k
    <3> QED BY <3>3 DEF k
  <2>3. \A k \in DOMAIN at : k \in Chosen(run)
    BY RowNumbersAre
  <2> QED BY <2>1, <2>2, <2>3
<1>6. \A i \in 1..len, k \in DOMAIN at : at[k] = i => k = old.rows[i].key
  <2> SUFFICES ASSUME NEW i \in 1..len, NEW k \in DOMAIN at, at[k] = i
               PROVE  k = old.rows[i].key
    OBVIOUS
  <2>1. k \in Keys /\ RowsOf(old, k) # {} /\ at[k] = Min(RowsOf(old, k))
    BY RowNumbersAre, ChosenAreKeys
  <2>2. PICK j \in DOMAIN old.rows : old.rows[j].key = k
    BY <2>1, <1>1, KeyIsFound DEF HasKey
  <2> QED BY <2>1, <2>2, <1>1, KeyIsFound
<1> DEFINE Cell(i) == IF \E k \in DOMAIN at : at[k] = i
                      THEN Values(s, CHOOSE k \in DOMAIN at : at[k] = i)
                      ELSE IF i \in DOMAIN sheet.rows THEN sheet.rows[i] ELSE Keyless
           Want(i) == IF old.rows[i].key \in Chosen(run)
                      THEN Entry(run, old.rows[i].key) ELSE old.rows[i]
<1>7. ASSUME NEW i \in 1..len PROVE Cell(i) = Want(i)
  <2>1. CASE \E k \in DOMAIN at : at[k] = i
    <3> DEFINE k == CHOOSE k \in DOMAIN at : at[k] = i
    <3>1. k \in DOMAIN at /\ at[k] = i
      BY <2>1
    <3>2. Cell(i) = Values(s, k)
      BY <2>1
    <3> HIDE DEF k, Cell
    <3>3. k = old.rows[i].key
      BY <3>1, <1>6
    <3>4. Cell(i) = Entry(run, old.rows[i].key)
      BY <3>2, <3>3, ChosenOf
    <3> QED BY <2>1, <3>4, <1>5
  <2>2. CASE ~\E k \in DOMAIN at : at[k] = i
    <3>1. old.rows[i].key \notin Chosen(run)
      BY <2>2, <1>5
    <3>2. Cell(i) = sheet.rows[i]
      BY <2>2, <1>1, <1>2
    <3>3. sheet.rows[i] = old.rows[i]
      BY <3>1, <1>1 DEF Rewritten
    <3> QED BY <3>1, <3>2, <3>3
  <2> QED BY <2>1, <2>2
<1>8. Overwritten(s).rows = [i \in 1..end |-> Cell(i)]
  BY DEF Overwritten
<1>9. Rewritten(run).rows = [i \in 1..len |-> Want(i)]
  BY <1>1 DEF Rewritten
<1>10. Overwritten(s).rows = Rewritten(run).rows
  <2> HIDE DEF Cell, Want, end, len
  <2> QED BY <1>4, <1>7, <1>8, <1>9
<1>11. Overwritten(s).header = "ours"
  BY DEF Overwritten, Rewritten
<1>12. /\ Overwritten(s) = [header |-> Overwritten(s).header, rows |-> Overwritten(s).rows]
       /\ Rewritten(run) = [header |-> "ours", rows |-> Rewritten(run).rows]
  BY DEF Overwritten, Rewritten
<1> QED BY <1>10, <1>11, <1>12

----------------------------------------------------------------------------
LEMMA SheetsStart ==
  ASSUME SheetsAssumption, SheetsInit
  PROVE  SheetsInv
<1>1. SheetsTypeOK
  BY DEF SheetsInit, SheetsTypeOK, SheetsAssumption, Sheet, NoSheet
<1>2. \A t \in Tabs : Distinct(spreadsheet[t]) /\ Readable(spreadsheet[t])
  BY DEF SheetsInit, NoSheet, Distinct, Readable
<1>3. \A s \in Syncers : FoundBy(s)
  BY DEF SheetsInit, FoundBy
<1> QED BY <1>1, <1>2, <1>3 DEF SheetsInv

(* A step that leaves the sheet of a sync alone, or crosses the sync, keeps *)
(* what the sync finds.                                                     *)
LEMMA SyncKeeps ==
  ASSUME SheetsTypeOK, NEW p \in Syncers, FoundBy(p), muddled \subseteq muddled',
         syncing[p] # NoSync => \/ syncing'[p] = syncing[p]
                                \/ ~syncing'[p].alone
                                \/ syncing'[p] = NoSync,
         syncing[p] = NoSync => syncing'[p] = NoSync,
         syncing[p] # NoSync /\ syncing'[p] = syncing[p] /\ syncing[p].alone =>
           spreadsheet'[TabOf(p)] = spreadsheet[TabOf(p)]
  PROVE  FoundBy(p)'
<1> SUFFICES ASSUME syncing'[p] # NoSync, syncing'[p].alone, TabOf(p)' \notin muddled'
             PROVE  Found(syncing'[p], spreadsheet'[TabOf(p)'])
  BY DEF FoundBy
<1>1. syncing'[p] = syncing[p] /\ syncing[p] # NoSync
  OBVIOUS
<1>2. TabOf(p)' = TabOf(p) /\ TabOf(p) \notin muddled
  BY <1>1 DEF TabOf
<1> QED BY <1>1, <1>2 DEF FoundBy

(* The syncs of a sheet, but one, are crossed when it is written.           *)
LEMMA UnreadCrosses ==
  ASSUME SheetsTypeOK, NEW t, NEW s \in Syncers, NEW runs \in [Syncers -> Sync \cup {NoSync}],
         NEW p \in Syncers \ {s}, runs[p] = syncing[p]
  PROVE  LET then == Unread(t, runs, s)[p] IN
         /\ then \in Sync \cup {NoSync}
         /\ syncing[p] = NoSync => then = NoSync
         /\ syncing[p] # NoSync => \/ then = syncing[p] /\ TabOf(p) # t
                                   \/ ~then.alone
<1> DEFINE then == Unread(t, runs, s)[p]
<1>1. then = IF syncing[p] # NoSync /\ TabOf(p) = t
             THEN [syncing[p] EXCEPT !.alone = FALSE] ELSE syncing[p]
  BY DEF Unread, TabOf
<1>2. CASE syncing[p] # NoSync /\ TabOf(p) = t
  <2>1. syncing[p] \in Sync
    BY <1>2 DEF SheetsTypeOK
  <2>2. then = [syncing[p] EXCEPT !.alone = FALSE]
    BY <1>1, <1>2
  <2> QED BY <2>1, <2>2, <1>2 DEF Sync
<1>3. CASE ~(syncing[p] # NoSync /\ TabOf(p) = t)
  <2>1. then = syncing[p]
    BY <1>1, <1>3
  <2> QED BY <2>1, <1>3 DEF SheetsTypeOK
<1> QED BY <1>2, <1>3

LEMMA UnreadSelf ==
  ASSUME NEW t, NEW s \in Syncers, NEW runs
  PROVE  Unread(t, runs, s)[s] = runs[s] /\ DOMAIN Unread(t, runs, s) = Syncers
BY DEF Unread

----------------------------------------------------------------------------
(* The steps of a sync that write nothing.                                  *)
LEMMA QuietSteps ==
  ASSUME SheetsAssumption, SheetsInv, NEW s \in Syncers,
         UNCHANGED <<facts, spreadsheet, muddled, hands>>, snags' \in 0..MaxSnags,
         syncing' = [syncing EXCEPT ![s] = syncing'[s]],
         syncing'[s] \in Sync \cup {NoSync},
         FoundBy(s)'
  PROVE  SheetsInv'
<1>1. SheetsTypeOK'
  BY DEF SheetsInv, SheetsTypeOK
<1>2. ASSUME NEW p \in Syncers PROVE FoundBy(p)'
  <2>1. CASE p = s
    BY <2>1
  <2>2. CASE p # s
    <3>1. syncing'[p] = syncing[p]
      BY <2>2 DEF SheetsInv, SheetsTypeOK
    <3> QED BY <3>1, SyncKeeps DEF SheetsInv
  <2> QED BY <2>1, <2>2
<1> QED BY <1>1, <1>2 DEF SheetsInv

LEMMA BeginSyncKeeps ==
  ASSUME SheetsAssumption, SheetsInv, NEW s \in Syncers, BeginSync(s)
  PROVE  SheetsInv'
<1> DEFINE new == [step |-> "meetings", tab |-> 1, projected |-> facts, read |-> NoSheet,
                   alone |-> TRUE, landed |-> FALSE]
<1>1. new \in Sync
  BY DEF Sync, SheetsInv, SheetsTypeOK, SheetsAssumption, Sheet, NoSheet
<1>2. /\ syncing' = [syncing EXCEPT ![s] = new] /\ syncing'[s] = new
      /\ UNCHANGED <<facts, spreadsheet, muddled, hands, snags>>
  BY DEF BeginSync, SheetsInv, SheetsTypeOK
<1>3. FoundBy(s)'
  BY <1>2 DEF FoundBy, Found
<1> QED BY <1>1, <1>2, <1>3, QuietSteps DEF SheetsInv, SheetsTypeOK

LEMMA MeetingsKeep ==
  ASSUME SheetsAssumption, SheetsInv, NEW s \in Syncers, ReadMeetings(s)
  PROVE  SheetsInv'
<1>1. syncing[s] \in Sync
  BY DEF SheetsInv, SheetsTypeOK, ReadMeetings, At
<1> DEFINE run == syncing[s]
           read == [t \in Tabs |-> IF t = "Reuniones" THEN facts[t] ELSE run.projected[t]]
           new == [run EXCEPT !.step = "ensure", !.projected = read]
<1>2. read \in [Tabs -> [Keys -> 0..MaxFacts]]
  BY <1>1 DEF SheetsInv, SheetsTypeOK, Sync
<1>3. new \in Sync /\ new.step = "ensure"
  BY <1>1, <1>2 DEF Sync
<1>4. /\ syncing' = [syncing EXCEPT ![s] = new] /\ syncing'[s] = new
      /\ UNCHANGED <<facts, spreadsheet, muddled, hands, snags>>
  BY <1>1 DEF ReadMeetings, Advance, SheetsInv, SheetsTypeOK, Sync
<1>5. FoundBy(s)'
  BY <1>3, <1>4 DEF FoundBy, Found
<1> QED BY <1>3, <1>4, <1>5, QuietSteps DEF SheetsInv, SheetsTypeOK

LEMMA ReadKeeps ==
  ASSUME SheetsAssumption, SheetsInv, NEW s \in Syncers, ReadSheet(s)
  PROVE  SheetsInv'
<1>1. syncing[s] \in Sync /\ TabOf(s) = TabIn(syncing[s]) /\ TabOf(s) \in Tabs
  BY TabsOfSyncs, ChosenOf DEF SheetsInv, SheetsTypeOK, ReadSheet, At
<1> DEFINE run == syncing[s]
           sheet == spreadsheet[TabOf(s)]
           new == [run EXCEPT !.step = "update", !.read = sheet, !.alone = TRUE, !.landed = FALSE]
<1>2. sheet \in Sheet
  BY <1>1 DEF SheetsInv, SheetsTypeOK
<1>3. new \in Sync /\ new.step = "update" /\ new.read = sheet /\ ~new.landed /\ new.tab = run.tab
  BY <1>1, <1>2 DEF Sync
<1>4. /\ syncing' = [syncing EXCEPT ![s] = new] /\ syncing'[s] = new
      /\ UNCHANGED <<facts, spreadsheet, muddled, hands, snags>>
  BY <1>1 DEF ReadSheet, Advance, SheetsInv, SheetsTypeOK, Sync
<1>5. TabOf(s)' = TabOf(s)
  BY <1>3, <1>4 DEF TabOf
<1>6. TabOf(s) \notin muddled => Distinct(sheet) /\ Readable(sheet)
  BY <1>1 DEF SheetsInv
<1>7. TabOf(s) \notin muddled => Found(new, sheet)
  <2> HIDE DEF new, sheet
  <2> QED BY <1>3, <1>6 DEF Found
<1>8. FoundBy(s)'
  <2> HIDE DEF new
  <2> QED BY <1>4, <1>5, <1>7 DEF FoundBy
<1> QED BY <1>3, <1>4, <1>8, QuietSteps DEF SheetsInv, SheetsTypeOK

LEMMA NextKeeps ==
  ASSUME SheetsAssumption, SheetsInv, NEW s \in Syncers, NextSheet(s)
  PROVE  SheetsInv'
<1>1. syncing[s] \in Sync
  BY DEF SheetsInv, SheetsTypeOK, NextSheet, At
<1> DEFINE run == syncing[s]
           new == [run EXCEPT !.step = "ensure", !.tab = @ + 1]
<1>2. UNCHANGED <<facts, spreadsheet, muddled, hands, snags>>
  BY DEF NextSheet
<1>3. CASE run.tab < Len(SheetNames)
  <2>1. run.tab + 1 \in DOMAIN SheetNames
    BY <1>1, <1>3 DEF Sync, SheetsAssumption
  <2>2. new \in Sync /\ new.step = "ensure"
    BY <1>1, <2>1 DEF Sync
  <2>3. syncing' = [syncing EXCEPT ![s] = new] /\ syncing'[s] = new
    BY <1>1, <1>3 DEF NextSheet, Advance, SheetsInv, SheetsTypeOK, Sync
  <2>4. FoundBy(s)'
    BY <2>2, <2>3 DEF FoundBy, Found
  <2> QED BY <1>2, <2>2, <2>3, <2>4, QuietSteps DEF SheetsInv, SheetsTypeOK
<1>4. CASE ~(run.tab < Len(SheetNames))
  <2>1. syncing' = [syncing EXCEPT ![s] = NoSync] /\ syncing'[s] = NoSync
    BY <1>4 DEF NextSheet, SheetsInv, SheetsTypeOK
  <2>2. FoundBy(s)'
    BY <2>1 DEF FoundBy
  <2> QED BY <1>2, <2>1, <2>2, QuietSteps DEF SheetsInv, SheetsTypeOK
<1> QED BY <1>3, <1>4

LEMMA GiveUpSyncKeeps ==
  ASSUME SheetsAssumption, SheetsInv, NEW s \in Syncers, GiveUpSync(s)
  PROVE  SheetsInv'
<1>1. /\ syncing' = [syncing EXCEPT ![s] = NoSync] /\ syncing'[s] = NoSync
      /\ UNCHANGED <<facts, spreadsheet, muddled, hands>> /\ snags' \in 0..MaxSnags
  BY DEF GiveUpSync, SheetsInv, SheetsTypeOK, SheetsAssumption
<1>2. FoundBy(s)'
  BY <1>1 DEF FoundBy
<1> QED BY <1>1, <1>2, QuietSteps

----------------------------------------------------------------------------
(* The steps of a sync that write its sheet.                                *)
LEMMA WriteSteps ==
  ASSUME SheetsAssumption, SheetsInv, NEW s \in Syncers, NEW t \in Tabs, t = TabOf(s),
         NEW new \in Sync, NEW written \in Sheet, new.tab = syncing[s].tab,
         spreadsheet' = [spreadsheet EXCEPT ![t] = written],
         syncing' = Unread(t, [syncing EXCEPT ![s] = new], s),
         muddled \subseteq muddled', muddled' \subseteq Tabs,
         UNCHANGED <<facts, hands>>, snags' \in 0..MaxSnags,
         t \notin muddled' => Distinct(written) /\ Readable(written),
         t \notin muddled' /\ new.alone => Found(new, written)
  PROVE  SheetsInv'
<1> DEFINE runs == [syncing EXCEPT ![s] = new]
<1>1. /\ runs \in [Syncers -> Sync \cup {NoSync}] /\ runs[s] = new
      /\ \A p \in Syncers \ {s} : runs[p] = syncing[p]
  BY DEF SheetsInv, SheetsTypeOK
<1>2. SheetsTypeOK
  BY DEF SheetsInv
<1> HIDE DEF runs
<1>3. syncing' = Unread(t, runs, s)
  BY DEF runs
<1>4. syncing'[s] = new /\ syncing' = [p \in Syncers |-> syncing'[p]]
  BY <1>1, <1>3, UnreadSelf DEF Unread
<1>5. \A p \in Syncers \ {s} :
        /\ syncing'[p] \in Sync \cup {NoSync}
        /\ syncing[p] = NoSync => syncing'[p] = NoSync
        /\ syncing[p] # NoSync => \/ syncing'[p] = syncing[p] /\ TabOf(p) # t
                                  \/ ~syncing'[p].alone
  BY <1>1, <1>2, <1>3, UnreadCrosses
<1>6. syncing' \in [Syncers -> Sync \cup {NoSync}]
  <2>1. \A p \in Syncers : syncing'[p] \in Sync \cup {NoSync}
    BY <1>4, <1>5
  <2> QED BY <1>4, <2>1
<1>7. /\ spreadsheet' \in [Tabs -> Sheet] /\ spreadsheet'[t] = written
      /\ \A x \in Tabs \ {t} : spreadsheet'[x] = spreadsheet[x]
  BY <1>2 DEF SheetsTypeOK
<1>8. SheetsTypeOK'
  BY <1>2, <1>6, <1>7 DEF SheetsTypeOK
<1>9. \A x \in Tabs \ muddled' : Distinct(spreadsheet'[x]) /\ Readable(spreadsheet'[x])
  BY <1>7 DEF SheetsInv
<1>10. ASSUME NEW p \in Syncers PROVE FoundBy(p)'
  <2>1. CASE p = s
    <3>1. TabOf(s)' = t
      BY <1>4 DEF TabOf
    <3> QED BY <2>1, <3>1, <1>4, <1>7 DEF FoundBy
  <2>2. CASE p # s
    <3>1. syncing[p] # NoSync /\ syncing'[p] = syncing[p] /\ syncing[p].alone =>
            TabOf(p) # t /\ TabOf(p) \in Tabs
      <4>1. syncing[p] # NoSync => TabOf(p) \in Tabs
        BY <1>2, TabsOfSyncs, ChosenOf DEF SheetsTypeOK
      <4> QED BY <2>2, <4>1, <1>5
    <3>2. syncing[p] # NoSync /\ syncing'[p] = syncing[p] /\ syncing[p].alone =>
            spreadsheet'[TabOf(p)] = spreadsheet[TabOf(p)]
      BY <3>1, <1>7
    <3> QED BY <2>2, <3>2, <1>2, <1>5, SyncKeeps DEF SheetsInv
  <2> QED BY <2>1, <2>2
<1> QED BY <1>8, <1>9, <1>10 DEF SheetsInv

LEMMA EnsureKeeps ==
  ASSUME SheetsAssumption, SheetsInv, NEW s \in Syncers, EnsureSheet(s)
  PROVE  SheetsInv'
<1> DEFINE run == syncing[s]
           t == TabOf(s)
           new == [run EXCEPT !.step = "read"]
<1>1. run \in Sync /\ t = TabIn(run) /\ t \in Tabs /\ SheetsTypeOK
  BY TabsOfSyncs, ChosenOf DEF SheetsInv, SheetsTypeOK, EnsureSheet, At
<1>2. new \in Sync /\ new.step = "read" /\ new.tab = run.tab
  BY <1>1 DEF Sync
<1>3. Advance(s, "read") = [syncing EXCEPT ![s] = new]
  BY DEF Advance
<1>4. UNCHANGED <<facts, muddled, hands, snags>>
  BY DEF EnsureSheet
<1>5. CASE spreadsheet[t] = NoSheet
  <2> DEFINE written == [header |-> "empty", rows |-> <<>>]
  <2>1. written \in Sheet /\ Distinct(written) /\ Readable(written)
    BY DEF Sheet, Distinct, Readable
  <2>2. spreadsheet' = [spreadsheet EXCEPT ![t] = written]
    BY <1>5, <1>1 DEF EnsureSheet, NoSheet, SheetsTypeOK
  <2>3. syncing' = Unread(t, [syncing EXCEPT ![s] = new], s)
    BY <1>3, <1>5 DEF EnsureSheet
  <2>4. Found(new, written)
    BY <1>2 DEF Found
  <2>5. muddled' \subseteq Tabs /\ snags' \in 0..MaxSnags
    BY <1>1, <1>4 DEF SheetsTypeOK
  <2> HIDE DEF written, new, t, run
  <2>6. t = TabOf(s) /\ new.tab = syncing[s].tab /\ t \in Tabs
    BY <1>1, <1>2 DEF t, run
  <2> QED BY <1>2, <1>4, <2>1, <2>2, <2>3, <2>4, <2>5, <2>6, WriteSteps
<1>6. CASE spreadsheet[t] # NoSheet
  <2>1. /\ syncing' = [syncing EXCEPT ![s] = new] /\ syncing'[s] = new
        /\ UNCHANGED spreadsheet
    BY <1>1, <1>3, <1>6 DEF EnsureSheet, SheetsTypeOK
  <2>2. FoundBy(s)'
    BY <1>2, <2>1 DEF FoundBy, Found
  <2> QED BY <1>1, <1>2, <1>4, <2>1, <2>2, QuietSteps DEF SheetsTypeOK
<1> QED BY <1>5, <1>6

LEMMA RewrittenIsASheet ==
  ASSUME SheetsAssumption, NEW run \in Sync
  PROVE  /\ Rewritten(run) \in Sheet
         /\ DOMAIN Rewritten(run).rows = DOMAIN run.read.rows
         /\ Rewritten(run).header = "ours"
         /\ \A i \in DOMAIN run.read.rows :
              /\ Rewritten(run).rows[i].key = run.read.rows[i].key
              /\ Rewritten(run).rows[i] = IF run.read.rows[i].key \in Chosen(run)
                                          THEN Entry(run, run.read.rows[i].key)
                                          ELSE run.read.rows[i]
<1>1. run.read.rows \in Seq(Row)
  BY DEF Sync, Sheet
<1>2. \A k \in Chosen(run) : Entry(run, k) \in Row /\ Entry(run, k).key = k
  BY EntriesAreRows
<1> DEFINE old == run.read.rows
           Cell(i) == IF old[i].key \in Chosen(run) THEN Entry(run, old[i].key) ELSE old[i]
<1>3. \A i \in DOMAIN old : Cell(i) \in Row /\ Cell(i).key = old[i].key
  BY <1>1, <1>2
<1>4. Rewritten(run) = [header |-> "ours", rows |-> [i \in DOMAIN old |-> Cell(i)]]
  BY DEF Rewritten
<1>5. PICK m \in Nat : DOMAIN old = 1..m
  BY <1>1
<1> HIDE DEF Cell, old
<1>6. [i \in DOMAIN old |-> Cell(i)] \in Seq(Row)
  BY <1>3, <1>5
<1>7. Rewritten(run) \in Sheet
  BY <1>4, <1>6 DEF Sheet
<1>8. /\ DOMAIN Rewritten(run).rows = DOMAIN old /\ Rewritten(run).header = "ours"
      /\ \A i \in DOMAIN old : Rewritten(run).rows[i] = Cell(i)
  BY <1>4
<1> QED BY <1>3, <1>7, <1>8 DEF Cell, old

(* Rewriting by key keeps one row per key, under its titles.                *)
LEMMA RewrittenIsOrderly ==
  ASSUME SheetsAssumption, NEW run \in Sync, Distinct(run.read), Readable(run.read),
         run.read.header = "moved" =>
           \A i \in DOMAIN run.read.rows : run.read.rows[i].key \in Chosen(run) \cup {0}
  PROVE  Distinct(Rewritten(run)) /\ Readable(Rewritten(run))
<1>1. Distinct(Rewritten(run))
  BY RewrittenIsASheet DEF Distinct
<1>2. ASSUME NEW i \in DOMAIN run.read.rows, run.read.rows[i].key # 0
      PROVE  Rewritten(run).rows[i].order = "ours"
  <2>1. CASE run.read.rows[i].key \in Chosen(run)
    BY <2>1, RewrittenIsASheet, EntriesAreRows
  <2>2. CASE run.read.rows[i].key \notin Chosen(run)
    <3>1. /\ run.read.header # "moved"
          /\ run.read.rows[i].order
               = IF run.read.header = "empty" THEN "ours" ELSE run.read.header
      BY <1>2, <2>2 DEF Readable
    <3>2. run.read.rows[i] \in Row
      BY DEF Sync, Sheet
    <3>3. run.read.rows[i].order \in {"ours", "moved"}
      BY <3>2 DEF Row
    <3>4. run.read.header \in {"absent", "empty", "ours", "moved", "renamed"}
      BY DEF Sync, Sheet
    <3>5. run.read.rows[i].order = "ours"
      BY <3>1, <3>3, <3>4
    <3> QED BY <2>2, <3>5, RewrittenIsASheet
  <2> QED BY <2>1, <2>2
<1>3. Readable(Rewritten(run))
  BY <1>2, RewrittenIsASheet DEF Readable
<1> QED BY <1>1, <1>3

(* What a sync finds depends on what it read and projects.                  *)
LEMMA SameProjection ==
  ASSUME NEW run, NEW new,
         new.tab = run.tab, new.projected = run.projected, new.read = run.read
  PROVE  /\ Rewritten(new) = Rewritten(run) /\ Chosen(new) = Chosen(run)
         /\ \A k : Entry(new, k) = Entry(run, k)
         /\ HasNews(new) <=> HasNews(run)
         /\ NewKeys(new) = NewKeys(run)
         /\ \A sheet : AllWritten(run, sheet) => AllWritten(new, sheet)
<1>1. Chosen(new) = Chosen(run) /\ \A k : Entry(new, k) = Entry(run, k)
  BY DEF Chosen, Entry, TabIn
<1> QED BY <1>1 DEF Rewritten, HasNews, NewKeys, AllWritten

LEMMA UpdateKeeps ==
  ASSUME SheetsAssumption, SheetsInv, NEW s \in Syncers, UpdateRows(s)
  PROVE  SheetsInv'
<1> DEFINE run == syncing[s]
           t == TabOf(s)
           sheet == spreadsheet[t]
           needed == run.read.header # "ours" \/ DOMAIN RowNumbers(s) # {}
           next == [run EXCEPT !.step = "append"]
           done == [run EXCEPT !.step = "append", !.landed = FALSE]
           lost == [run EXCEPT !.landed = TRUE]
<1>1. /\ run \in Sync /\ t = TabIn(run) /\ t \in Tabs /\ SheetsTypeOK
      /\ run # NoSync /\ run.step = "update" /\ run.read \in Sheet
  BY TabsOfSyncs, ChosenOf DEF SheetsInv, SheetsTypeOK, UpdateRows, Send, At, Sync
<1>2. ASSUME run.alone, t \notin muddled
      PROVE  /\ Distinct(run.read) /\ Readable(run.read)
             /\ ~run.landed => sheet = run.read
             /\ run.landed => HasNews(run) /\ sheet = Rewritten(run)
  BY <1>1, <1>2 DEF SheetsInv, FoundBy, Found
<1>3. ASSUME Distinct(run.read), Readable(run.read)
      PROVE  needed <=> HasNews(run)
  <2>1. \A k \in Chosen(run) : RowsOf(run.read, k) # {} <=> HasKey(run.read, k)
    BY <1>1, <1>3, KeyIsFound, ChosenAreKeys
  <2>2. DOMAIN RowNumbers(s) = {k \in Chosen(run) : RowsOf(run.read, k) # {}}
    BY <1>1, RowNumbersAre
  <2> QED BY <2>1, <2>2 DEF HasNews
<1>4. UNCHANGED <<facts, hands>>
  BY DEF UpdateRows, Send
<1>5. CASE ~needed
  <2>1. next \in Sync /\ next.step = "append" /\ next.tab = run.tab
        /\ next.projected = run.projected /\ next.read = run.read /\ next.landed = run.landed
        /\ next.alone = run.alone
    BY <1>1 DEF Sync
  <2>2. /\ syncing' = [syncing EXCEPT ![s] = next] /\ syncing'[s] = next
        /\ UNCHANGED <<spreadsheet, muddled, snags>>
    BY <1>1, <1>5 DEF UpdateRows, Send, Advance, SheetsTypeOK
  <2>3. TabOf(s)' = t
    BY <2>1, <2>2 DEF TabOf
  <2>4. ASSUME run.alone, t \notin muddled
        PROVE  Found(next, sheet)
    <3>1. /\ ~HasNews(run) /\ ~run.landed /\ sheet = run.read
          /\ Distinct(run.read) /\ Readable(run.read)
      BY <1>2, <1>3, <1>5, <2>4 DEF Sync
    <3>2. run.read.header = "ours" /\ \A k \in Chosen(run) : ~HasKey(run.read, k)
      BY <3>1 DEF HasNews
    <3>3. \A i \in DOMAIN run.read.rows : run.read.rows[i].key \notin Chosen(run)
      BY <3>2 DEF HasKey
    <3>4. /\ run.read.rows \in Seq(Row)
          /\ run.read = [header |-> run.read.header, rows |-> run.read.rows]
      BY <1>1 DEF Sheet
    <3>5. [i \in DOMAIN run.read.rows |-> run.read.rows[i]] = run.read.rows
      BY <3>4
    <3>6. Rewritten(run) = run.read
      BY <3>2, <3>3, <3>4, <3>5 DEF Rewritten
    <3>7. Rewritten(next) = sheet
      BY <3>1, <3>6, <2>1, SameProjection
    <3> HIDE DEF next, sheet
    <3> QED BY <2>1, <3>1, <3>7 DEF Found
  <2>5. FoundBy(s)'
    <3> HIDE DEF next
    <3> QED BY <2>1, <2>2, <2>3, <2>4 DEF FoundBy
  <2> QED BY <1>1, <1>4, <2>1, <2>2, <2>5, QuietSteps DEF SheetsTypeOK
<1>6. CASE needed
  <2> DEFINE written == Overwritten(s)
  <2>1. written \in Sheet
    BY <1>1, OverwrittenIsASheet
  <2>2. /\ spreadsheet' = [spreadsheet EXCEPT ![t] = written]
        /\ muddled' = muddled \cup {x \in {t} : ~run.alone \/ Strands(s)}
    BY <1>1, <1>6 DEF UpdateRows, Send
  <2>3. muddled \subseteq muddled' /\ muddled' \subseteq Tabs
    BY <1>1, <2>2 DEF SheetsTypeOK
  <2>4. ASSUME t \notin muddled'
        PROVE  /\ run.alone /\ t \notin muddled /\ written = Rewritten(run) /\ HasNews(run)
               /\ Distinct(run.read) /\ Readable(run.read)
               /\ Distinct(written) /\ Readable(written)
    <3>1. run.alone /\ ~Strands(s) /\ t \notin muddled
      BY <2>2, <2>4
    <3>2. /\ Distinct(run.read) /\ Readable(run.read)
          /\ sheet = run.read \/ sheet = Rewritten(run)
      BY <3>1, <1>1, <1>2 DEF Sync
    <3>3. written = Rewritten(run)
      BY <3>2, <1>1, OverwrittenIsRewritten
    <3>4. HasNews(run)
      BY <3>2, <1>3, <1>6
    <3>5. run.read.header = "moved" =>
            \A i \in DOMAIN run.read.rows : run.read.rows[i].key \in Chosen(run) \cup {0}
      BY <3>1, ChosenOf DEF Strands
    <3>6. Distinct(Rewritten(run)) /\ Readable(Rewritten(run))
      BY <1>1, <3>2, <3>5, RewrittenIsOrderly
    <3> QED BY <3>1, <3>2, <3>3, <3>4, <3>6
  <2>5. /\ done \in Sync /\ done.step = "append" /\ done.tab = run.tab /\ ~done.landed
        /\ done.projected = run.projected /\ done.read = run.read
    BY <1>1 DEF Sync
  <2>6. /\ lost \in Sync /\ lost.step = "update" /\ lost.tab = run.tab /\ lost.landed
        /\ lost.projected = run.projected /\ lost.read = run.read
    BY <1>1 DEF Sync
  <2>7. t \notin muddled' => Found(done, written) /\ Found(lost, written)
    <3>1. /\ Rewritten(done) = Rewritten(run) /\ Rewritten(lost) = Rewritten(run)
          /\ HasNews(lost) <=> HasNews(run)
      BY <2>5, <2>6, SameProjection
    <3> HIDE DEF done, lost, written
    <3> QED BY <2>4, <2>5, <2>6, <3>1 DEF Found
  <2>8. t \notin muddled' => Distinct(written) /\ Readable(written)
    BY <2>4
  <2>9. \/ /\ syncing' = Unread(t, [Advance(s, "append") EXCEPT ![s].landed = FALSE], s)
           /\ UNCHANGED snags
        \/ /\ snags < MaxSnags /\ snags' = snags + 1
           /\ syncing' = Unread(t, [syncing EXCEPT ![s].landed = TRUE], s)
    BY <1>6 DEF UpdateRows, Send
  <2>10. /\ [Advance(s, "append") EXCEPT ![s].landed = FALSE] = [syncing EXCEPT ![s] = done]
         /\ [syncing EXCEPT ![s].landed = TRUE] = [syncing EXCEPT ![s] = lost]
    BY <1>1 DEF Advance, SheetsTypeOK
  <2>11. snags' \in 0..MaxSnags
    BY <2>9, <1>1 DEF SheetsTypeOK, SheetsAssumption
  <2>12. t = TabOf(s) /\ done.tab = syncing[s].tab /\ lost.tab = syncing[s].tab
    BY <2>5, <2>6
  <2>13. \/ syncing' = Unread(t, [syncing EXCEPT ![s] = done], s)
         \/ syncing' = Unread(t, [syncing EXCEPT ![s] = lost], s)
    BY <2>9, <2>10
  <2> HIDE DEF done, lost, written, t
  <2> QED BY <1>1, <1>4, <2>1, <2>2, <2>3, <2>5, <2>6, <2>7, <2>8, <2>11, <2>12, <2>13, WriteSteps
<1> QED BY <1>5, <1>6

(* What is appended is what the sheet did not have when it was read.        *)
LEMMA NewKeysAre ==
  ASSUME SheetsAssumption, SheetsTypeOK, NEW s \in Syncers, syncing[s] # NoSync,
         Distinct(syncing[s].read), Readable(syncing[s].read)
  PROVE  Chosen(syncing[s]) \ DOMAIN RowNumbers(s) = NewKeys(syncing[s])
<1> DEFINE run == syncing[s]
<1>1. \A k \in Chosen(run) : RowsOf(run.read, k) # {} <=> HasKey(run.read, k)
  BY RowNumbersAre, KeyIsFound, ChosenAreKeys
<1>2. DOMAIN RowNumbers(s) = {k \in Chosen(run) : RowsOf(run.read, k) # {}}
  BY RowNumbersAre
<1> HIDE DEF run
<1>3. Chosen(run) \ DOMAIN RowNumbers(s) = NewKeys(run)
  BY <1>1, <1>2 DEF NewKeys
<1> QED BY <1>3 DEF run

LEMMA AppendedIsASheet ==
  ASSUME SheetsAssumption, SheetsTypeOK, NEW s \in Syncers, syncing[s] # NoSync
  PROVE  Appended(s) \in Sheet
<1>1. TabOf(s) \in Tabs
  BY TabsOfSyncs, ChosenOf DEF SheetsTypeOK
<1>2. spreadsheet[TabOf(s)] \in Sheet
  BY <1>1 DEF SheetsTypeOK
<1>3. Inserts(s) \in Seq(Row)
  BY InsertsAre
<1> DEFINE old == spreadsheet[TabOf(s)]
<1>4. old = [header |-> old.header, rows |-> old.rows] /\ old.rows \in Seq(Row)
  BY <1>2 DEF Sheet
<1>5. old.rows \o Inserts(s) \in Seq(Row)
  BY <1>3, <1>4, ConcatProperties
<1>6. Appended(s) = [header |-> old.header, rows |-> old.rows \o Inserts(s)]
  <2> DEFINE all == old.rows \o Inserts(s)
  <2>1. Appended(s) = [old EXCEPT !.rows = all]
    BY DEF Appended
  <2> HIDE DEF old, all
  <2>2. [old EXCEPT !.rows = all] = [header |-> old.header, rows |-> all]
    BY <1>4
  <2> QED BY <2>1, <2>2 DEF all
<1>7. old.header \in {"absent", "empty", "ours", "moved", "renamed"}
  BY <1>2 DEF Sheet
<1> HIDE DEF old
<1> QED BY <1>5, <1>6, <1>7 DEF Sheet

(* A sheet that was written over and appended to is as it was projected.    *)
LEMMA AppendedIsWritten ==
  ASSUME SheetsAssumption, SheetsTypeOK, NEW s \in Syncers, syncing[s] # NoSync,
         Distinct(syncing[s].read), Readable(syncing[s].read),
         spreadsheet[TabOf(s)] = Rewritten(syncing[s]),
         Distinct(spreadsheet[TabOf(s)]), Readable(spreadsheet[TabOf(s)])
  PROVE  /\ AllWritten(syncing[s], Appended(s))
         /\ Distinct(Appended(s)) /\ Readable(Appended(s))
<1> DEFINE run == syncing[s]
           sheet == spreadsheet[TabOf(s)]
           ins == Inserts(s)
           all == Appended(s)
<1>1. run \in Sync /\ run.read \in Sheet /\ sheet \in Sheet
  BY RowNumbersAre, RewrittenIsASheet
<1>2. PICK keys \in Seq(NewKeys(run)) :
        /\ IsInjective(keys) /\ ToSet(keys) = NewKeys(run)
        /\ DOMAIN ins = DOMAIN keys /\ ins \in Seq(Row)
        /\ \A n \in DOMAIN keys : ins[n] = Entry(run, keys[n])
  BY InsertsAre, NewKeysAre
<1>3. \A n \in DOMAIN keys : keys[n] \in NewKeys(run) /\ keys[n] \in Chosen(run)
  BY <1>2 DEF NewKeys
<1>4. \A n \in DOMAIN keys : ins[n].key = keys[n] /\ ins[n].order = "ours"
  BY <1>1, <1>2, <1>3, EntriesAreRows
<1>5. PICK len \in Nat : DOMAIN sheet.rows = 1..len /\ Len(sheet.rows) = len
  BY <1>1 DEF Sheet
<1>6. PICK more \in Nat : DOMAIN keys = 1..more /\ Len(ins) = more
  BY <1>2
<1>7. sheet.header = "ours" /\ all.header = "ours"
  BY RewrittenIsASheet, <1>1 DEF Appended
<1>8. all.rows = sheet.rows \o ins /\ sheet.rows \in Seq(Row)
  BY <1>1 DEF Appended, Sheet
<1>9. /\ DOMAIN all.rows = 1..(len + more)
      /\ \A i \in 1..len : all.rows[i] = sheet.rows[i]
      /\ \A i \in (len + 1)..(len + more) : all.rows[i] = ins[i - len] /\ i - len \in 1..more
  <2> HIDE DEF all, ins, sheet
  <2>1. /\ Len(all.rows) = len + more /\ all.rows \in Seq(Row)
        /\ \A i \in 1..(len + more) :
             all.rows[i] = IF i <= len THEN sheet.rows[i] ELSE ins[i - len]
    <3>1. /\ Len(sheet.rows \o ins) = Len(sheet.rows) + Len(ins) /\ sheet.rows \o ins \in Seq(Row)
          /\ \A i \in 1..(Len(sheet.rows) + Len(ins)) :
               (sheet.rows \o ins)[i] = IF i <= Len(sheet.rows) THEN sheet.rows[i]
                                        ELSE ins[i - Len(sheet.rows)]
      BY <1>2, <1>8, ConcatProperties
    <3> QED BY <1>5, <1>6, <1>8, <3>1
  <2>2. DOMAIN all.rows = 1..(len + more)
    BY <2>1
  <2>3. \A i \in (len + 1)..(len + more) : i \in 1..(len + more) /\ ~(i <= len) /\ i - len \in 1..more
    OBVIOUS
  <2>4. \A i \in 1..len : i \in 1..(len + more) /\ i <= len
    OBVIOUS
  <2> QED BY <2>1, <2>2, <2>3, <2>4
<1>10. /\ DOMAIN run.read.rows = 1..len
       /\ \A i \in 1..len : sheet.rows[i].key = run.read.rows[i].key
       /\ \A i \in 1..len : sheet.rows[i] = IF run.read.rows[i].key \in Chosen(run)
                                            THEN Entry(run, run.read.rows[i].key)
                                            ELSE run.read.rows[i]
  BY <1>1, <1>5, RewrittenIsASheet
<1> HIDE DEF all, ins, sheet, run
<1>11. \A i \in 1..len, n \in 1..more : sheet.rows[i].key # ins[n].key
  <2> SUFFICES ASSUME NEW i \in 1..len, NEW n \in 1..more PROVE sheet.rows[i].key # ins[n].key
    OBVIOUS
  <2>1. ins[n].key = keys[n] /\ ~HasKey(run.read, keys[n])
    BY <1>3, <1>4, <1>6 DEF NewKeys
  <2>2. sheet.rows[i].key = run.read.rows[i].key /\ i \in DOMAIN run.read.rows
    BY <1>10
  <2> QED BY <2>1, <2>2 DEF HasKey
<1>12. \A i, j \in 1..len : sheet.rows[i].key = sheet.rows[j].key => i = j \/ sheet.rows[i].key = 0
  BY <1>5 DEF Distinct, sheet
<1>13. \A n, m \in 1..more : ins[n].key = ins[m].key => n = m
  BY <1>2, <1>4, <1>6 DEF IsInjective
<1>14. Distinct(all)
  <2> SUFFICES ASSUME NEW i \in 1..(len + more), NEW j \in 1..(len + more),
                      all.rows[i].key = all.rows[j].key
               PROVE  i = j \/ all.rows[i].key = 0
    BY <1>9 DEF Distinct
  <2>1. CASE i \in 1..len /\ j \in 1..len
    BY <2>1, <1>9, <1>12
  <2>2. CASE i \in 1..len /\ j \notin 1..len
    <3>1. j \in (len + 1)..(len + more)
      BY <2>2
    <3> QED BY <2>2, <3>1, <1>9, <1>11
  <2>3. CASE i \notin 1..len /\ j \in 1..len
    <3>1. i \in (len + 1)..(len + more)
      BY <2>3
    <3> QED BY <2>3, <3>1, <1>9, <1>11
  <2>4. CASE i \notin 1..len /\ j \notin 1..len
    <3>1. i \in (len + 1)..(len + more) /\ j \in (len + 1)..(len + more)
      BY <2>4
    <3>2. /\ all.rows[i] = ins[i - len] /\ i - len \in 1..more
          /\ all.rows[j] = ins[j - len] /\ j - len \in 1..more
      BY <3>1, <1>9
    <3>3. i - len = j - len
      BY <3>2, <1>13
    <3> QED BY <3>1, <3>3
  <2> QED BY <2>1, <2>2, <2>3, <2>4
<1>15. Readable(all)
  <2> SUFFICES ASSUME NEW i \in 1..(len + more), all.rows[i].key # 0
               PROVE  all.rows[i].order = "ours"
    BY <1>7, <1>9 DEF Readable
  <2>1. CASE i \in 1..len
    BY <2>1, <1>5, <1>7, <1>9 DEF Readable, sheet
  <2>2. CASE i \notin 1..len
    <3>1. i \in (len + 1)..(len + more)
      BY <2>2
    <3> QED BY <3>1, <1>4, <1>6, <1>9
  <2> QED BY <2>1, <2>2
<1>16. ASSUME NEW k \in Chosen(run)
       PROVE  \E i \in DOMAIN all.rows : all.rows[i] = Entry(run, k)
  <2>1. CASE HasKey(run.read, k)
    <3>1. PICK i \in 1..len : run.read.rows[i].key = k
      BY <2>1, <1>10 DEF HasKey
    <3>2. all.rows[i] = Entry(run, k) /\ i \in 1..(len + more)
      BY <3>1, <1>9, <1>10
    <3> QED BY <3>2, <1>9
  <2>2. CASE ~HasKey(run.read, k)
    <3>1. k \in ToSet(keys)
      BY <2>2, <1>2 DEF NewKeys
    <3>2. PICK n \in 1..more : keys[n] = k
      BY <3>1, <1>6 DEF ToSet
    <3>3. len + n \in (len + 1)..(len + more) /\ (len + n) - len = n
      OBVIOUS
    <3>4. all.rows[len + n] = Entry(run, k)
      BY <3>2, <3>3, <1>2, <1>6, <1>9
    <3> QED BY <3>3, <3>4, <1>9
  <2> QED BY <2>1, <2>2
<1>17. \A i \in DOMAIN run.read.rows :
         run.read.rows[i].key \notin Chosen(run) => all.rows[i] = run.read.rows[i]
  BY <1>9, <1>10
<1>18. AllWritten(run, all)
  BY <1>7, <1>16, <1>17 DEF AllWritten
<1> QED BY <1>14, <1>15, <1>18 DEF run, all

LEMMA AppendKeeps ==
  ASSUME SheetsAssumption, SheetsInv, NEW s \in Syncers, AppendRows(s)
  PROVE  SheetsInv'
<1> DEFINE run == syncing[s]
           t == TabOf(s)
           sheet == spreadsheet[t]
           needed == Inserts(s) # <<>>
           next == [run EXCEPT !.step = "next"]
           done == [run EXCEPT !.step = "next", !.landed = FALSE]
           lost == [run EXCEPT !.landed = TRUE]
<1>1. /\ run \in Sync /\ t = TabIn(run) /\ t \in Tabs /\ SheetsTypeOK
      /\ run # NoSync /\ run.step = "append" /\ run.read \in Sheet
  BY TabsOfSyncs, ChosenOf DEF SheetsInv, SheetsTypeOK, AppendRows, Send, At, Sync
<1>2. ASSUME run.alone, t \notin muddled
      PROVE  /\ Distinct(run.read) /\ Readable(run.read)
             /\ ~run.landed => sheet = Rewritten(run)
             /\ run.landed => NewKeys(run) # {}
             /\ Distinct(sheet) /\ Readable(sheet)
  BY <1>1, <1>2 DEF SheetsInv, FoundBy, Found
<1>3. ASSUME Distinct(run.read), Readable(run.read)
      PROVE  needed <=> NewKeys(run) # {}
  <2>1. PICK keys \in Seq(NewKeys(run)) :
          /\ ToSet(keys) = NewKeys(run) /\ DOMAIN Inserts(s) = DOMAIN keys
          /\ Inserts(s) \in Seq(Row)
    BY <1>1, <1>3, InsertsAre, NewKeysAre
  <2>2. needed <=> DOMAIN keys # {}
    <3> HIDE DEF run
    <3>1. needed <=> Len(Inserts(s)) # 0
      <4>1. needed => Len(Inserts(s)) # 0
        BY <2>1, EmptySeq
      <4>2. ~needed => Len(Inserts(s)) = 0
        BY EmptySeq
      <4> QED BY <4>1, <4>2
    <3>2. DOMAIN keys = 1..Len(Inserts(s)) /\ Len(Inserts(s)) \in Nat
      BY <2>1
    <3> DEFINE more == Len(Inserts(s))
    <3> HIDE DEF needed
    <3>3. DOMAIN keys = 1..more /\ more \in Nat
      BY <3>2
    <3> HIDE DEF more
    <3>4. more # 0 => 1 \in DOMAIN keys
      BY <3>3
    <3>5. more = 0 => DOMAIN keys = {}
      BY <3>3
    <3> QED BY <3>1, <3>4, <3>5 DEF more
  <2>3. DOMAIN keys # {} <=> ToSet(keys) # {}
    BY DEF ToSet
  <2> QED BY <2>1, <2>2, <2>3
<1>4. UNCHANGED <<facts, hands>>
  BY DEF AppendRows, Send
<1>5. CASE ~needed
  <2>1. next \in Sync /\ next.step = "next" /\ next.tab = run.tab
        /\ next.projected = run.projected /\ next.read = run.read
        /\ next.alone = run.alone
    BY <1>1 DEF Sync
  <2>2. /\ syncing' = [syncing EXCEPT ![s] = next] /\ syncing'[s] = next
        /\ UNCHANGED <<spreadsheet, muddled, snags>>
    BY <1>1, <1>5 DEF AppendRows, Send, Advance, SheetsTypeOK
  <2>3. TabOf(s)' = t
    BY <2>1, <2>2 DEF TabOf
  <2>4. ASSUME run.alone, t \notin muddled
        PROVE  Found(next, sheet)
    <3>1. /\ NewKeys(run) = {} /\ sheet = Rewritten(run)
          /\ Distinct(run.read) /\ Readable(run.read)
      BY <1>1, <1>2, <1>3, <1>5, <2>4 DEF Sync
    <3>2. /\ DOMAIN sheet.rows = DOMAIN run.read.rows /\ sheet.header = "ours"
          /\ \A i \in DOMAIN run.read.rows :
               sheet.rows[i] = IF run.read.rows[i].key \in Chosen(run)
                               THEN Entry(run, run.read.rows[i].key) ELSE run.read.rows[i]
      BY <3>1, <1>1, RewrittenIsASheet
    <3>3. \A k \in Chosen(run) : \E i \in DOMAIN run.read.rows : run.read.rows[i].key = k
      BY <3>1 DEF NewKeys, HasKey
    <3> HIDE DEF sheet, run
    <3>4. AllWritten(run, sheet)
      BY <3>2, <3>3 DEF AllWritten
    <3>5. AllWritten(next, sheet)
      BY <3>4, <2>1, SameProjection
    <3> HIDE DEF next
    <3> QED BY <2>1, <3>5 DEF Found
  <2>5. FoundBy(s)'
    <3> HIDE DEF next
    <3> QED BY <2>1, <2>2, <2>3, <2>4 DEF FoundBy
  <2> QED BY <1>1, <1>4, <2>1, <2>2, <2>5, QuietSteps DEF SheetsTypeOK
<1>6. CASE needed
  <2> DEFINE written == Appended(s)
  <2>1. written \in Sheet
    BY <1>1, AppendedIsASheet
  <2>2. /\ spreadsheet' = [spreadsheet EXCEPT ![t] = written]
        /\ muddled' = muddled \cup {x \in {t} : ~run.alone \/ run.landed}
    BY <1>1, <1>6 DEF AppendRows, Send
  <2>3. muddled \subseteq muddled' /\ muddled' \subseteq Tabs
    BY <1>1, <2>2 DEF SheetsTypeOK
  <2>4. ASSUME t \notin muddled'
        PROVE  /\ AllWritten(run, written) /\ NewKeys(run) # {}
               /\ Distinct(run.read) /\ Readable(run.read)
               /\ Distinct(written) /\ Readable(written)
    <3>1. run.alone /\ ~run.landed /\ t \notin muddled
      BY <2>2, <2>4
    <3>2. /\ Distinct(run.read) /\ Readable(run.read) /\ sheet = Rewritten(run)
          /\ Distinct(sheet) /\ Readable(sheet)
      BY <3>1, <1>1, <1>2 DEF Sync
    <3>3. NewKeys(run) # {}
      BY <3>2, <1>3, <1>6
    <3> QED BY <3>2, <3>3, <1>1, AppendedIsWritten
  <2>5. /\ done \in Sync /\ done.step = "next" /\ done.tab = run.tab
        /\ done.projected = run.projected /\ done.read = run.read
    BY <1>1 DEF Sync
  <2>6. /\ lost \in Sync /\ lost.step = "append" /\ lost.tab = run.tab /\ lost.landed
        /\ lost.projected = run.projected /\ lost.read = run.read
    BY <1>1 DEF Sync
  <2>7. t \notin muddled' => Found(done, written) /\ Found(lost, written)
    <3>1. /\ AllWritten(run, written) => AllWritten(done, written)
          /\ NewKeys(lost) = NewKeys(run)
      BY <2>5, <2>6, SameProjection
    <3> HIDE DEF done, lost, written
    <3> QED BY <2>4, <2>5, <2>6, <3>1 DEF Found
  <2>8. t \notin muddled' => Distinct(written) /\ Readable(written)
    BY <2>4
  <2>9. \/ /\ syncing' = Unread(t, [Advance(s, "next") EXCEPT ![s].landed = FALSE], s)
           /\ UNCHANGED snags
        \/ /\ snags < MaxSnags /\ snags' = snags + 1
           /\ syncing' = Unread(t, [syncing EXCEPT ![s].landed = TRUE], s)
    BY <1>6 DEF AppendRows, Send
  <2>10. /\ [Advance(s, "next") EXCEPT ![s].landed = FALSE] = [syncing EXCEPT ![s] = done]
         /\ [syncing EXCEPT ![s].landed = TRUE] = [syncing EXCEPT ![s] = lost]
    BY <1>1 DEF Advance, SheetsTypeOK
  <2>11. snags' \in 0..MaxSnags
    BY <2>9, <1>1 DEF SheetsTypeOK, SheetsAssumption
  <2>12. t = TabOf(s) /\ done.tab = syncing[s].tab /\ lost.tab = syncing[s].tab
    BY <2>5, <2>6
  <2>13. \/ syncing' = Unread(t, [syncing EXCEPT ![s] = done], s)
         \/ syncing' = Unread(t, [syncing EXCEPT ![s] = lost], s)
    BY <2>9, <2>10
  <2> HIDE DEF done, lost, written, t
  <2> QED BY <1>1, <1>4, <2>1, <2>2, <2>3, <2>5, <2>6, <2>7, <2>8, <2>11, <2>12, <2>13, WriteSteps
<1> QED BY <1>5, <1>6

----------------------------------------------------------------------------
(* What people do to a sheet leaves its keys where they can be found,       *)
(* unless they rename the column of the keys.                               *)
LEMMA MovedRows ==
  ASSUME NEW sheet, NEW new, NEW from, Distinct(sheet), Readable(sheet),
         sheet.header \in {"ours", "moved"}, new.header \in {"ours", "moved"},
         \A i \in DOMAIN new.rows : new.rows[i].key # 0 =>
           /\ from[i] \in DOMAIN sheet.rows
           /\ new.rows[i].key = sheet.rows[from[i]].key
           /\ sheet.rows[from[i]].order = sheet.header => new.rows[i].order = new.header,
         \A i, j \in DOMAIN new.rows : from[i] = from[j] => i = j
  PROVE  Distinct(new) /\ Readable(new)
<1>1. Distinct(new)
  BY DEF Distinct
<1>2. Readable(new)
  BY DEF Readable
<1> QED BY <1>1, <1>2

(* However people sort, insert, delete and move, no key comes to be on two  *)
(* rows.                                                                    *)
LEMMA TouchedIsOrderly ==
  ASSUME SheetsAssumption, NEW sheet \in Sheet, NEW new \in Touched(sheet),
         sheet.header \in {"ours", "moved"}
  PROVE  /\ new \in Sheet
         /\ Distinct(sheet) /\ Readable(sheet) /\ new.header # "renamed" =>
              Distinct(new) /\ Readable(new)
<1> DEFINE old == sheet.rows
           len == Len(old)
           Headers == {"absent", "empty", "ours", "moved", "renamed"}
<1>1. old \in Seq(Row) /\ len \in Nat /\ DOMAIN old = 1..len /\ sheet.header \in Headers
  BY DEF Sheet
<1>2. \A lines : [sheet EXCEPT !.rows = lines] = [header |-> sheet.header, rows |-> lines]
  BY DEF Sheet
<1>3. \A header, lines : header \in Headers /\ lines \in Seq(Row) =>
                          [header |-> header, rows |-> lines] \in Sheet
  BY DEF Sheet
<1>4. \A i \in 1..len : old[i] \in Row
  BY <1>1
<1> HIDE DEF len
<1>5. CASE new = [sheet EXCEPT !.rows = Reverse(@)]
  <2> DEFINE lines == Reverse(old)
  <2>1. new = [header |-> sheet.header, rows |-> lines]
    BY <1>2, <1>5
  <2>2. lines = [i \in 1..len |-> old[(len - i) + 1]]
    BY DEF Reverse, len
  <2>3. \A i \in 1..len : (len - i) + 1 \in 1..len
    BY <1>1
  <2> HIDE DEF lines
  <2>4. \A i \in 1..len : lines[i] \in Row
    BY <1>4, <2>2, <2>3
  <2>5. lines \in Seq(Row)
    BY <1>1, <2>2, <2>4
  <2> DEFINE from == [i \in 1..len |-> (len - i) + 1]
  <2>6. \A i \in 1..len : from[i] \in 1..len /\ lines[i] = old[from[i]]
    BY <2>2, <2>3
  <2>7. \A i, j \in 1..len : from[i] = from[j] => i = j
    BY <1>1
  <2>8. DOMAIN new.rows = 1..len /\ new.rows = lines /\ new.header = sheet.header
    BY <2>1, <2>2
  <2> HIDE DEF from
  <2>9. ASSUME Distinct(sheet), Readable(sheet)
        PROVE  Distinct(new) /\ Readable(new)
    <3>1. /\ sheet.header \in {"ours", "moved"} /\ new.header \in {"ours", "moved"}
          /\ \A i \in DOMAIN new.rows : new.rows[i].key # 0 =>
               /\ from[i] \in DOMAIN sheet.rows
               /\ new.rows[i].key = sheet.rows[from[i]].key
               /\ sheet.rows[from[i]].order = sheet.header => new.rows[i].order = new.header
          /\ \A i, j \in DOMAIN new.rows : from[i] = from[j] => i = j
      BY <2>6, <2>7, <2>8, <1>1
    <3> HIDE DEF old, len
    <3> QED BY <3>1, <2>9, MovedRows
  <2> QED BY <2>1, <2>5, <2>9, <1>1, <1>3
<1>6. CASE new = [sheet EXCEPT !.rows = <<Keyless>> \o @]
  <2> DEFINE lines == <<Keyless>> \o old
  <2>1. new = [header |-> sheet.header, rows |-> lines]
    BY <1>2, <1>6
  <2>2. Keyless \in Row /\ Keyless.key = 0
    BY DEF Keyless, RowFor, Row, SheetsAssumption
  <2>3. <<Keyless>> \in Seq(Row) /\ Len(<<Keyless>>) = 1 /\ <<Keyless>>[1] = Keyless
    BY <2>2
  <2>4. /\ lines \in Seq(Row) /\ Len(lines) = 1 + len
        /\ \A i \in 1..(1 + len) : lines[i] = IF i <= 1 THEN <<Keyless>>[i] ELSE old[i - 1]
    BY <1>1, <2>3, ConcatProperties DEF len
  <2> HIDE DEF lines
  <2> DEFINE from == [i \in 1..(1 + len) |-> i - 1]
  <2>5. \A i \in 1..(1 + len) : lines[i].key # 0 => from[i] \in 1..len /\ lines[i] = old[from[i]]
    <3> SUFFICES ASSUME NEW i \in 1..(1 + len), lines[i].key # 0
                 PROVE  i - 1 \in 1..len /\ lines[i] = old[i - 1]
      OBVIOUS
    <3>1. i # 1
      BY <2>2, <2>3, <2>4, <1>1
    <3> QED BY <3>1, <2>4, <1>1
  <2>6. \A i, j \in 1..(1 + len) : from[i] = from[j] => i = j
    BY <1>1
  <2>7. DOMAIN new.rows = 1..(1 + len) /\ new.rows = lines /\ new.header = sheet.header
    BY <2>1, <2>4
  <2> HIDE DEF from
  <2>8. ASSUME Distinct(sheet), Readable(sheet)
        PROVE  Distinct(new) /\ Readable(new)
    <3>1. /\ sheet.header \in {"ours", "moved"} /\ new.header \in {"ours", "moved"}
          /\ \A i \in DOMAIN new.rows : new.rows[i].key # 0 =>
               /\ from[i] \in DOMAIN sheet.rows
               /\ new.rows[i].key = sheet.rows[from[i]].key
               /\ sheet.rows[from[i]].order = sheet.header => new.rows[i].order = new.header
          /\ \A i, j \in DOMAIN new.rows : from[i] = from[j] => i = j
      BY <2>5, <2>6, <2>7, <1>1
    <3> HIDE DEF old, len
    <3> QED BY <3>1, <2>8, MovedRows
  <2> QED BY <2>1, <2>4, <2>8, <1>1, <1>3
<1>7. CASE new = [header |-> Turn(sheet.header),
                  rows |-> [i \in DOMAIN old |-> [old[i] EXCEPT !.order = Turn(@)]]]
  <2> DEFINE lines == [i \in DOMAIN old |-> [old[i] EXCEPT !.order = Turn(@)]]
  <2>1. new.header = Turn(sheet.header) /\ new.rows = lines
        /\ new = [header |-> Turn(sheet.header), rows |-> lines]
    BY <1>7
  <2>2. Turn(sheet.header) \in {"ours", "moved"}
    BY DEF Turn
  <2>3. \A i \in 1..len : lines[i] \in Row /\ lines[i].key = old[i].key
                          /\ lines[i].order = Turn(old[i].order)
    BY <1>1, <1>4 DEF Row, Turn
  <2>4. DOMAIN lines = 1..len
    BY <1>1
  <2> HIDE DEF lines
  <2>5. lines \in Seq(Row)
    <3>1. lines = [i \in 1..len |-> lines[i]]
      BY <1>1, <2>4 DEF lines
    <3> QED BY <1>1, <2>3, <3>1
  <2> DEFINE from == [i \in 1..len |-> i]
  <2>6. \A i \in 1..len : /\ from[i] \in 1..len /\ lines[i].key = old[from[i]].key
                          /\ old[from[i]].order = sheet.header => lines[i].order = new.header
    BY <2>1, <2>3
  <2>7. \A i, j \in 1..len : from[i] = from[j] => i = j
    OBVIOUS
  <2> HIDE DEF from
  <2>8. ASSUME Distinct(sheet), Readable(sheet)
        PROVE  Distinct(new) /\ Readable(new)
    <3>1. /\ sheet.header \in {"ours", "moved"} /\ new.header \in {"ours", "moved"}
          /\ \A i \in DOMAIN new.rows : new.rows[i].key # 0 =>
               /\ from[i] \in DOMAIN sheet.rows
               /\ new.rows[i].key = sheet.rows[from[i]].key
               /\ sheet.rows[from[i]].order = sheet.header => new.rows[i].order = new.header
          /\ \A i, j \in DOMAIN new.rows : from[i] = from[j] => i = j
      BY <2>1, <2>2, <2>4, <2>6, <2>7, <1>1
    <3> HIDE DEF old, len
    <3> QED BY <3>1, <2>8, MovedRows
  <2> QED BY <2>1, <2>2, <2>5, <2>8, <1>1, <1>3
<1>8. CASE new = [sheet EXCEPT !.header = "renamed"]
  <2>1. new = [header |-> "renamed", rows |-> old] /\ new.header = "renamed"
    BY <1>8 DEF Sheet
  <2> QED BY <2>1, <1>1, <1>3
<1>9. CASE 1 \in DOMAIN old /\ new = [sheet EXCEPT !.rows = Tail(@)]
  <2> DEFINE lines == Tail(old)
  <2>1. new = [header |-> sheet.header, rows |-> lines]
    BY <1>2, <1>9
  <2>2. /\ len # 0 /\ lines \in Seq(Row) /\ Len(lines) = len - 1
        /\ \A i \in 1..(len - 1) : lines[i] = old[i + 1]
    <3>1. old # <<>> /\ len # 0
      BY <1>1, <1>9
    <3> QED BY <1>1, <3>1 DEF len
  <2> HIDE DEF lines
  <2> DEFINE from == [i \in 1..(len - 1) |-> i + 1]
  <2>3. \A i \in 1..(len - 1) : from[i] \in 1..len /\ lines[i] = old[from[i]]
    BY <1>1, <2>2
  <2>4. \A i, j \in 1..(len - 1) : from[i] = from[j] => i = j
    BY <1>1
  <2>5. DOMAIN new.rows = 1..(len - 1) /\ new.rows = lines /\ new.header = sheet.header
    BY <2>1, <2>2
  <2> HIDE DEF from
  <2>6. ASSUME Distinct(sheet), Readable(sheet)
        PROVE  Distinct(new) /\ Readable(new)
    <3>1. /\ sheet.header \in {"ours", "moved"} /\ new.header \in {"ours", "moved"}
          /\ \A i \in DOMAIN new.rows : new.rows[i].key # 0 =>
               /\ from[i] \in DOMAIN sheet.rows
               /\ new.rows[i].key = sheet.rows[from[i]].key
               /\ sheet.rows[from[i]].order = sheet.header => new.rows[i].order = new.header
          /\ \A i, j \in DOMAIN new.rows : from[i] = from[j] => i = j
      BY <2>3, <2>4, <2>5, <1>1
    <3> HIDE DEF old, len
    <3> QED BY <3>1, <2>6, MovedRows
  <2> QED BY <2>1, <2>2, <2>6, <1>1, <1>3
<1>10. CASE 1 \in DOMAIN old /\ new = [sheet EXCEPT !.rows[1].version = 0]
  <2> DEFINE lines == [old EXCEPT ![1].version = 0]
  <2>1. new = [header |-> sheet.header, rows |-> lines]
    BY <1>10 DEF Sheet
  <2>2. \A i \in 1..len : lines[i] \in Row /\ lines[i].key = old[i].key
                          /\ lines[i].order = old[i].order
    <3>1. \A i \in 1..len : lines[i] = IF i = 1 THEN [old[1] EXCEPT !.version = 0] ELSE old[i]
      BY <1>1
    <3>2. 0 \in 0..MaxFacts
      BY DEF SheetsAssumption
    <3> HIDE DEF lines
    <3> QED BY <3>1, <3>2, <1>4 DEF Row
  <2>3. DOMAIN lines = 1..len /\ lines = [i \in 1..len |-> lines[i]]
    BY <1>1
  <2> HIDE DEF lines
  <2>4. lines \in Seq(Row)
    BY <1>1, <2>2, <2>3
  <2> DEFINE from == [i \in 1..len |-> i]
  <2>5. \A i \in 1..len : from[i] \in 1..len /\ lines[i].key = old[from[i]].key
          /\ lines[i].order = old[from[i]].order
    BY <2>2
  <2>6. \A i, j \in 1..len : from[i] = from[j] => i = j
    OBVIOUS
  <2>7. new.rows = lines /\ new.header = sheet.header
    BY <2>1
  <2> HIDE DEF from
  <2>8. ASSUME Distinct(sheet), Readable(sheet)
        PROVE  Distinct(new) /\ Readable(new)
    <3>1. /\ sheet.header \in {"ours", "moved"} /\ new.header \in {"ours", "moved"}
          /\ \A i \in DOMAIN new.rows : new.rows[i].key # 0 =>
               /\ from[i] \in DOMAIN sheet.rows
               /\ new.rows[i].key = sheet.rows[from[i]].key
               /\ sheet.rows[from[i]].order = sheet.header => new.rows[i].order = new.header
          /\ \A i, j \in DOMAIN new.rows : from[i] = from[j] => i = j
      BY <2>3, <2>5, <2>6, <2>7, <1>1
    <3> HIDE DEF old, len
    <3> QED BY <3>1, <2>8, MovedRows
  <2> QED BY <2>1, <2>4, <2>8, <1>1, <1>3
<1> QED BY <1>5, <1>6, <1>7, <1>8, <1>9, <1>10 DEF Touched

LEMMA TouchKeeps ==
  ASSUME SheetsAssumption, SheetsInv, NEW t \in Tabs, TouchSheet(t)
  PROVE  SheetsInv'
<1>1. SheetsTypeOK /\ UNCHANGED <<facts, snags>> /\ hands' \in 0..MaxHands
  BY DEF SheetsInv, SheetsTypeOK, TouchSheet, SheetsAssumption
<1>2. PICK new \in Touched(spreadsheet[t]) :
        /\ spreadsheet' = [spreadsheet EXCEPT ![t] = new]
        /\ muddled' = muddled \cup {x \in {t} : new.header = "renamed"}
  BY DEF TouchSheet
<1>3. /\ new \in Sheet
      /\ Distinct(spreadsheet[t]) /\ Readable(spreadsheet[t]) /\ new.header # "renamed" =>
           Distinct(new) /\ Readable(new)
  BY <1>1, TouchedIsOrderly DEF TouchSheet, SheetsTypeOK
<1>4. /\ spreadsheet' \in [Tabs -> Sheet] /\ spreadsheet'[t] = new
      /\ \A x \in Tabs \ {t} : spreadsheet'[x] = spreadsheet[x]
  BY <1>1, <1>2, <1>3 DEF SheetsTypeOK
<1>5. muddled \subseteq muddled' /\ muddled' \subseteq Tabs
  BY <1>1, <1>2 DEF SheetsTypeOK
<1>6. \A x \in Tabs \ muddled' : Distinct(spreadsheet'[x]) /\ Readable(spreadsheet'[x])
  BY <1>2, <1>3, <1>4 DEF SheetsInv
<1>7. \A p \in Syncers :
        syncing'[p] = IF syncing[p] # NoSync /\ TabOf(p) = t
                      THEN [syncing[p] EXCEPT !.alone = FALSE] ELSE syncing[p]
  BY DEF TouchSheet
<1>8. ASSUME NEW p \in Syncers
      PROVE  /\ syncing'[p] \in Sync \cup {NoSync}
             /\ syncing[p] = NoSync => syncing'[p] = NoSync
             /\ syncing[p] # NoSync => \/ syncing'[p] = syncing[p] /\ TabOf(p) # t
                                       \/ ~syncing'[p].alone
  <2>1. CASE syncing[p] # NoSync /\ TabOf(p) = t
    <3>1. syncing[p] \in Sync
      BY <1>1, <2>1 DEF SheetsTypeOK
    <3>2. syncing'[p] = [syncing[p] EXCEPT !.alone = FALSE]
      BY <1>7, <2>1
    <3> QED BY <2>1, <3>1, <3>2 DEF Sync
  <2>2. CASE ~(syncing[p] # NoSync /\ TabOf(p) = t)
    BY <1>1, <1>7, <2>2 DEF SheetsTypeOK
  <2> QED BY <2>1, <2>2
<1>9. syncing' \in [Syncers -> Sync \cup {NoSync}]
  <2>1. syncing' = [p \in Syncers |-> syncing'[p]]
    BY DEF TouchSheet
  <2> QED BY <1>8, <2>1
<1>10. SheetsTypeOK'
  BY <1>1, <1>4, <1>5, <1>9 DEF SheetsTypeOK
<1>11. ASSUME NEW p \in Syncers PROVE FoundBy(p)'
  <2>1. syncing[p] # NoSync => TabOf(p) \in Tabs
    BY <1>1, TabsOfSyncs, ChosenOf DEF SheetsTypeOK
  <2>2. syncing[p] # NoSync /\ syncing'[p] = syncing[p] /\ syncing[p].alone =>
          spreadsheet'[TabOf(p)] = spreadsheet[TabOf(p)]
    BY <1>4, <1>8, <2>1
  <2> QED BY <1>1, <1>5, <1>8, <2>2, SyncKeeps DEF SheetsInv
<1> QED BY <1>6, <1>10, <1>11 DEF SheetsInv

LEMMA FactsKeep ==
  ASSUME SheetsAssumption, SheetsInv, NEW t \in Tabs, NEW k \in Keys, FactChanges(t, k)
  PROVE  SheetsInv'
<1>1. facts[t][k] + 1 \in 0..MaxFacts
  BY DEF FactChanges, SheetsInv, SheetsTypeOK, SheetsAssumption
<1>2. facts' \in [Tabs -> [Keys -> 0..MaxFacts]]
  BY <1>1 DEF FactChanges, SheetsInv, SheetsTypeOK
<1>3. UNCHANGED <<spreadsheet, syncing, muddled, hands, snags>>
  BY DEF FactChanges
<1> QED BY <1>2, <1>3 DEF SheetsInv, SheetsTypeOK, FoundBy, TabOf

LEMMA SheetsInductive ==
  ASSUME SheetsAssumption, SheetsInv, [SheetsNext]_sheetVars
  PROVE  SheetsInv'
<1>1. CASE UNCHANGED sheetVars
  BY <1>1 DEF sheetVars, SheetsInv, SheetsTypeOK, FoundBy, TabOf
<1>2. ASSUME NEW s \in Syncers,
             \/ BeginSync(s) \/ ReadMeetings(s) \/ EnsureSheet(s) \/ ReadSheet(s)
             \/ UpdateRows(s) \/ AppendRows(s) \/ NextSheet(s) \/ GiveUpSync(s)
      PROVE  SheetsInv'
  BY <1>2, BeginSyncKeeps, MeetingsKeep, EnsureKeeps, ReadKeeps, UpdateKeeps, AppendKeeps,
     NextKeeps, GiveUpSyncKeeps
<1>3. ASSUME NEW t \in Tabs, TouchSheet(t) \/ \E k \in Keys : FactChanges(t, k)
      PROVE  SheetsInv'
  BY <1>3, TouchKeeps, FactsKeep
<1> QED BY <1>1, <1>2, <1>3 DEF SheetsNext

LEMMA SheetsAreSafe ==
  ASSUME SheetsAssumption
  PROVE  SheetsSpec => []SheetsInv
<1>1. SheetsInit => SheetsInv
  BY SheetsStart
<1>2. SheetsInv /\ [SheetsNext]_sheetVars => SheetsInv'
  BY SheetsInductive
<1> QED BY <1>1, <1>2, PTL DEF SheetsSpec

(* The spreadsheet, the facts and the syncs stay of their types.            *)
THEOREM SheetsTypesHold == SheetsSpec => []SheetsTypeOK
<1>1. SheetsInv => SheetsTypeOK
  BY DEF SheetsInv
<1>2. SheetsSpec => []SheetsInv
  BY SheetsAssumption, SheetsAreSafe
<1> QED BY <1>1, <1>2, PTL

(* Whatever people do to the spreadsheet and however many syncs run, no key *)
(* is on two rows of a sheet that nobody muddled, and a sync that nobody    *)
(* crossed leaves the sheet as it projected it                              *)
(* (sync-tasks-to-google-sheets.ts and the Sheets adapter).                 *)
THEOREM SyncedIsAlwaysCurrent == SheetsSpec => []SyncedIsCurrent
<1>1. ASSUME SheetsInv PROVE SyncedIsCurrent
  <2> SUFFICES ASSUME NEW t \in Tabs \ muddled
               PROVE  /\ Distinct(spreadsheet[t])
                      /\ \A s \in Syncers : At(s, "next") /\ TabOf(s) = t /\ syncing[s].alone =>
                           AllWritten(syncing[s], spreadsheet[t])
    <3>1. ASSUME NEW t \in Tabs \ muddled, NEW s \in Syncers, AllWritten(syncing[s], spreadsheet[t])
          PROVE  /\ spreadsheet[t].header = "ours"
                 /\ \A k \in ToWrite(s) : \E i \in DOMAIN spreadsheet[t].rows :
                      spreadsheet[t].rows[i] = Values(s, k)
                 /\ \A i \in DOMAIN syncing[s].read.rows :
                      syncing[s].read.rows[i].key \notin ToWrite(s) =>
                        spreadsheet[t].rows[i] = syncing[s].read.rows[i]
      BY <3>1, ChosenOf DEF AllWritten
    <3> QED BY <3>1 DEF SyncedIsCurrent, Distinct
  <2>1. Distinct(spreadsheet[t])
    BY <1>1 DEF SheetsInv
  <2>2. ASSUME NEW s \in Syncers, At(s, "next"), TabOf(s) = t, syncing[s].alone
        PROVE  AllWritten(syncing[s], spreadsheet[t])
    BY <1>1, <2>2 DEF SheetsInv, FoundBy, Found, At
  <2> QED BY <2>1, <2>2
<1>2. SheetsSpec => []SheetsInv
  BY SheetsAssumption, SheetsAreSafe
<1> QED BY <1>1, <1>2, PTL

----------------------------------------------------------------------------
(* The demonstration.  Its tables are long and its properties short: what   *)
(* is claimed of each task is checked block by block.                       *)

(* A tuple is what is listed in it.                                         *)
LEMMA TuplesList ==
  ASSUME NEW x, NEW n \in Nat, x = [i \in 1..n |-> x[i]], NEW S, \A i \in 1..n : x[i] \in S
  PROVE  x \in Seq(S) /\ Len(x) = n
BY x \in [1..n -> S]

(* One table after another.                                                 *)
LEMMA TablesJoin ==
  ASSUME NEW S, NEW s \in Seq(S), NEW t \in Seq(S), NEW m, NEW n, m = Len(s), n = Len(t),
         NEW joined, joined = s \o t
  PROVE  /\ joined \in Seq(S)
         /\ Len(joined) = m + n
         /\ \A i \in 1..m : joined[i] = s[i]
         /\ \A i \in 1..n : joined[m + i] = t[i]
OBVIOUS

(* The few concatenations in histories.                                     *)
LEMMA HistoriesJoin ==
  ASSUME NEW a, NEW b, NEW c
  PROVE  /\ <<a, b>> \o <<c>> = <<a, b, c>>
         /\ <<>> \o <<a, b, c>> = <<a, b, c>>
<1> DEFINE S == {a, b, c}
<1>1. <<a, b>> \in Seq(S) /\ <<c>> \in Seq(S) /\ <<a, b, c>> \in Seq(S)
  OBVIOUS
<1>2. /\ Len(<<a, b>> \o <<c>>) = 3 /\ <<a, b>> \o <<c>> \in Seq(S)
      /\ (<<a, b>> \o <<c>>)[1] = a /\ (<<a, b>> \o <<c>>)[2] = b /\ (<<a, b>> \o <<c>>)[3] = c
  OBVIOUS
<1>3. \A i \in 1..3 : i = 1 \/ i = 2 \/ i = 3
  OBVIOUS
<1>4. \A i \in 1..Len(<<a, b>> \o <<c>>) : (<<a, b>> \o <<c>>)[i] = <<a, b, c>>[i]
  BY <1>2, <1>3
<1>5. <<a, b>> \o <<c>> = <<a, b, c>>
  BY <1>1, <1>2, <1>4, SeqEqual, Len(<<a, b, c>>) = 3
<1> QED BY <1>5

(* A history that a task of this status can have.                           *)
Telling(log, status) ==
  log \in Seq(Status) /\ log # <<>> /\ log[Len(log)] = status /\ IsChain(log)

(* The shapes of the tasks of the demonstration.                            *)
Shaped(item) ==
  \/ item.status = "COMPLETED" /\ item.via = <<>> /\ item.owned /\ ~item.legacy
  \/ item.status \in {"PENDING", "PROPOSED"} /\ item.via = <<>> /\ ~item.legacy
  \/ item.status \in {"PENDING", "COMPLETED"} /\ item.via = <<>> /\ item.legacy
  \/ item.status \in {"WAITING", "IN_PROGRESS"} /\ item.via = <<item.status>>
  \/ item.status \in {"IN_PROGRESS", "WAITING", "BLOCKED", "CANCELLED"}
       /\ item.via = <<"PENDING", item.status>>
  \/ item.status \in {"BLOCKED", "COMPLETION_PROPOSED"}
       /\ item.via = <<"PENDING", "IN_PROGRESS", item.status>>

(* What the tables say of the task in the n-th place besides.               *)
Marked(item, n) ==
  /\ item.status \in Status
  /\ item.status = "COMPLETION_PROPOSED" <=> n = Proposed
  /\ item.status = "PROPOSED" => n \in {14, 22, 29}
  /\ (item.status = "COMPLETED" /\ ~item.legacy) <=> n \in AuditedApprovals

(* The transcripts and their lengths, and what can be quoted of them.       *)
Transcribed ==
  {<<"alfa", 26>>, <<"comite", 8>>, <<"legal", 6>>, <<"kickoffBeta", 7>>, <<"pipeline", 6>>,
   <<"cierre", 6>>, <<"gamma", 5>>, <<"nps", 6>>, <<"norte", 6>>, <<"negociacion", 5>>,
   <<"avancesBeta", 7>>}
CanQuote(quote) == \E m \in Transcribed : m[1] = quote[1] /\ quote[2] \in 1..m[2]

(* A task of one of the tables, in the n-th place of all.                   *)
Fits(item, n) ==
  Shaped(item) /\ Marked(item, n) /\ \A quote \in item.quotes : CanQuote(quote)

LEMMA StepsAreLegal ==
  /\ \A to \in {"IN_PROGRESS", "WAITING", "BLOCKED", "CANCELLED", "COMPLETION_PROPOSED"} :
       CanTransition("PENDING", to, "USER", FALSE)
  /\ \A to \in {"BLOCKED", "COMPLETION_PROPOSED"} : CanTransition("IN_PROGRESS", to, "USER", FALSE)
  /\ CanTransition("COMPLETION_PROPOSED", "COMPLETED", "USER", TRUE)
BY DEF CanTransition, HumanTransitions, OpenForProposal, Status

LEMMA OneStatusTells ==
  ASSUME NEW s \in Status
  PROVE  Telling(<<s>>, s)
BY DEF Telling, IsChain

LEMMA TwoStatusesTell ==
  ASSUME NEW s \in {"IN_PROGRESS", "WAITING", "BLOCKED", "CANCELLED"}
  PROVE  Telling(<<"PENDING", s>>, s)
<1>1. <<"PENDING", s>> \in Seq(Status) /\ Len(<<"PENDING", s>>) = 2
  BY DEF Status
<1>2. CanTransition("PENDING", s, "USER", s = "COMPLETED")
  BY StepsAreLegal
<1>3. \A i \in 1..1 : i = 1
  OBVIOUS
<1>4. IsChain(<<"PENDING", s>>)
  BY <1>1, <1>2, <1>3 DEF IsChain
<1> QED BY <1>1, <1>4 DEF Telling

LEMMA ThreeStatusesTell ==
  ASSUME NEW a, NEW b, NEW c, <<a, b, c>> \in Seq(Status),
         CanTransition(a, b, "USER", b = "COMPLETED"), CanTransition(b, c, "USER", c = "COMPLETED")
  PROVE  Telling(<<a, b, c>>, c)
<1> DEFINE log == <<a, b, c>>
<1>1. log \in Seq(Status) /\ Len(log) = 3 /\ log[1] = a /\ log[2] = b /\ log[3] = c
  OBVIOUS
<1> HIDE DEF log
<1>2. \A i \in 1..(Len(log) - 1) : i = 1 \/ i = 2
  BY <1>1
<1>3. IsChain(log)
  BY <1>1, <1>2 DEF IsChain
<1> QED BY <1>1, <1>3 DEF Telling, log

(* The history the script gives to a task can be told of it.                *)
LEMMA LogsTell ==
  ASSUME NEW item, Shaped(item), item.status \in Status
  PROVE  Telling(Log(item), item.status)
<1>1. CASE item.status = "COMPLETED" /\ item.via = <<>> /\ item.owned /\ ~item.legacy
  <2>1. Log(item) = <<"PENDING", "COMPLETION_PROPOSED", "COMPLETED">>
    BY <1>1, HistoriesJoin DEF Log
  <2>2. <<"PENDING", "COMPLETION_PROPOSED", "COMPLETED">> \in Seq(Status)
    BY DEF Status
  <2>3. /\ CanTransition("PENDING", "COMPLETION_PROPOSED", "USER",
                         "COMPLETION_PROPOSED" = "COMPLETED")
        /\ CanTransition("COMPLETION_PROPOSED", "COMPLETED", "USER", "COMPLETED" = "COMPLETED")
    BY StepsAreLegal
  <2> QED BY <1>1, <2>1, <2>2, <2>3, ThreeStatusesTell
<1>2. CASE item.via = <<>> /\ ~(item.status = "COMPLETED" /\ item.owned /\ ~item.legacy)
  <2>1. Log(item) = <<item.status>>
    BY <1>2 DEF Log, Shaped
  <2> QED BY <2>1, OneStatusTells
<1>3. CASE item.via = <<item.status>> /\ item.status \in {"WAITING", "IN_PROGRESS"}
  <2>1. Log(item) = <<item.status>>
    BY <1>3 DEF Log
  <2> QED BY <2>1, OneStatusTells
<1>4. CASE /\ item.via = <<"PENDING", item.status>>
           /\ item.status \in {"IN_PROGRESS", "WAITING", "BLOCKED", "CANCELLED"}
  <2>1. Log(item) = <<"PENDING", item.status>>
    BY <1>4 DEF Log
  <2> QED BY <1>4, <2>1, TwoStatusesTell
<1>5. CASE /\ item.via = <<"PENDING", "IN_PROGRESS", item.status>>
           /\ item.status \in {"BLOCKED", "COMPLETION_PROPOSED"}
  <2>1. Log(item) = <<"PENDING", "IN_PROGRESS", item.status>>
    BY <1>5 DEF Log
  <2>2. <<"PENDING", "IN_PROGRESS", item.status>> \in Seq(Status)
    BY DEF Status
  <2>3. /\ CanTransition("PENDING", "IN_PROGRESS", "USER", "IN_PROGRESS" = "COMPLETED")
        /\ CanTransition("IN_PROGRESS", item.status, "USER", item.status = "COMPLETED")
    BY <1>5, StepsAreLegal
  <2> QED BY <2>1, <2>2, <2>3, ThreeStatusesTell
<1> QED BY <1>1, <1>2, <1>3, <1>4, <1>5 DEF Shaped

LEMMA ContractItemsFit ==
  /\ ContractItems = [i \in 1..6 |-> ContractItems[i]]
  /\ \A i \in 1..6 : Fits(ContractItems[i], i)
<1>1. \A i \in 1..6 : Shaped(ContractItems[i])
  BY HistoriesJoin DEF ContractItems, Owned, Unowned, Migrated, Started, Shaped
<1>2. \A i \in 1..6 : Marked(ContractItems[i], i)
  BY DEF ContractItems, Owned, Unowned, Migrated, Marked, Status, Proposed, AuditedApprovals
<1>3. \A i \in 1..6 : \A quote \in ContractItems[i].quotes : CanQuote(quote)
  BY DEF ContractItems, Owned, Unowned, Migrated, CanQuote, Transcribed
<1>4. ContractItems = [i \in 1..6 |-> ContractItems[i]]
  BY DEF ContractItems
<1> QED BY <1>1, <1>2, <1>3, <1>4 DEF Fits

LEMMA SupplierItemsFit ==
  /\ SupplierItems = [i \in 1..7 |-> SupplierItems[i]]
  /\ \A i \in 1..7 : Fits(SupplierItems[i], 6 + i)
<1>1. \A i \in 1..7 : Shaped(SupplierItems[i])
  BY HistoriesJoin DEF SupplierItems, Owned, Unowned, Migrated, Started, Shaped
<1>2. \A i \in 1..7 : Marked(SupplierItems[i], 6 + i)
  BY DEF SupplierItems, Owned, Unowned, Migrated, Marked, Status, Proposed, AuditedApprovals
<1>3. \A i \in 1..7 : \A quote \in SupplierItems[i].quotes : CanQuote(quote)
  BY DEF SupplierItems, Owned, Unowned, Migrated, CanQuote, Transcribed
<1>4. SupplierItems = [i \in 1..7 |-> SupplierItems[i]]
  BY DEF SupplierItems
<1> QED BY <1>1, <1>2, <1>3, <1>4 DEF Fits

LEMMA FollowUpItemsFit ==
  /\ FollowUpItems = [i \in 1..7 |-> FollowUpItems[i]]
  /\ \A i \in 1..7 : Fits(FollowUpItems[i], 13 + i)
<1>1. \A i \in 1..7 : Shaped(FollowUpItems[i])
  BY HistoriesJoin DEF FollowUpItems, Owned, Unowned, Migrated, Started, Shaped
<1>2. \A i \in 1..7 : Marked(FollowUpItems[i], 13 + i)
  BY DEF FollowUpItems, Owned, Unowned, Migrated, Marked, Status, Proposed, AuditedApprovals
<1>3. \A i \in 1..7 : \A quote \in FollowUpItems[i].quotes : CanQuote(quote)
  BY DEF FollowUpItems, Owned, Unowned, Migrated, CanQuote, Transcribed
<1>4. FollowUpItems = [i \in 1..7 |-> FollowUpItems[i]]
  BY DEF FollowUpItems
<1> QED BY <1>1, <1>2, <1>3, <1>4 DEF Fits

LEMMA ExpansionItemsFit ==
  /\ ExpansionItems = [i \in 1..7 |-> ExpansionItems[i]]
  /\ \A i \in 1..7 : Fits(ExpansionItems[i], 20 + i)
<1>1. \A i \in 1..7 : Shaped(ExpansionItems[i])
  BY HistoriesJoin DEF ExpansionItems, Owned, Unowned, Migrated, Started, Shaped
<1>2. \A i \in 1..7 : Marked(ExpansionItems[i], 20 + i)
  BY DEF ExpansionItems, Owned, Unowned, Migrated, Marked, Status, Proposed, AuditedApprovals
<1>3. \A i \in 1..7 : \A quote \in ExpansionItems[i].quotes : CanQuote(quote)
  BY DEF ExpansionItems, Owned, Unowned, Migrated, CanQuote, Transcribed
<1>4. ExpansionItems = [i \in 1..7 |-> ExpansionItems[i]]
  BY DEF ExpansionItems
<1> QED BY <1>1, <1>2, <1>3, <1>4 DEF Fits

LEMMA MigratedItemsFit ==
  /\ MigratedItems = [i \in 1..11 |-> MigratedItems[i]]
  /\ \A i \in 1..11 : Fits(MigratedItems[i], 27 + i)
<1>1. \A i \in 1..11 : Shaped(MigratedItems[i])
  BY HistoriesJoin DEF MigratedItems, Owned, Unowned, Migrated, Started, Shaped
<1>2. \A i \in 1..11 : Marked(MigratedItems[i], 27 + i)
  BY DEF MigratedItems, Owned, Unowned, Migrated, Marked, Status, Proposed, AuditedApprovals
<1>3. \A i \in 1..11 : \A quote \in MigratedItems[i].quotes : CanQuote(quote)
  BY DEF MigratedItems, Owned, Unowned, Migrated, CanQuote, Transcribed
<1>4. MigratedItems = [i \in 1..11 |-> MigratedItems[i]]
  BY DEF MigratedItems
<1> QED BY <1>1, <1>2, <1>3, <1>4 DEF Fits

LEMMA LateItemsFit ==
  /\ LateItems = [i \in 1..9 |-> LateItems[i]]
  /\ \A i \in 1..9 : Fits(LateItems[i], 38 + i)
<1>1. \A i \in 1..9 : Shaped(LateItems[i])
  BY HistoriesJoin DEF LateItems, Owned, Unowned, Migrated, Started, Shaped
<1>2. \A i \in 1..9 : Marked(LateItems[i], 38 + i)
  BY DEF LateItems, Owned, Unowned, Migrated, Marked, Status, Proposed, AuditedApprovals
<1>3. \A i \in 1..9 : \A quote \in LateItems[i].quotes : CanQuote(quote)
  BY DEF LateItems, Owned, Unowned, Migrated, CanQuote, Transcribed
<1>4. LateItems = [i \in 1..9 |-> LateItems[i]]
  BY DEF LateItems
<1> QED BY <1>1, <1>2, <1>3, <1>4 DEF Fits

(* All forty-seven.                                                         *)
LEMMA ItemsFit ==
  /\ Len(Items) = 47 /\ DOMAIN Items = 1..47
  /\ \A n \in 1..47 : Fits(Items[n], n)
  /\ Items[6] = ContractItems[6] /\ Items[9] = SupplierItems[3] /\ Items[25] = ExpansionItems[5]
  /\ Items[41] = LateItems[3] /\ Items[46] = LateItems[8]
<1> DEFINE S == UNION {ToSet(items) : items \in
                  {ContractItems, SupplierItems, FollowUpItems, ExpansionItems, MigratedItems,
                   LateItems}}
<1>1. ContractItems \in Seq(S) /\ Len(ContractItems) = 6
  <2>1. \A i \in 1..6 : ContractItems[i] \in S
    BY ContractItemsFit DEF ToSet
  <2> HIDE DEF S
  <2> QED BY <2>1, ContractItemsFit, TuplesList
<1>2. SupplierItems \in Seq(S) /\ Len(SupplierItems) = 7
  <2>1. \A i \in 1..7 : SupplierItems[i] \in S
    BY SupplierItemsFit DEF ToSet
  <2> HIDE DEF S
  <2> QED BY <2>1, SupplierItemsFit, TuplesList
<1>3. FollowUpItems \in Seq(S) /\ Len(FollowUpItems) = 7
  <2>1. \A i \in 1..7 : FollowUpItems[i] \in S
    BY FollowUpItemsFit DEF ToSet
  <2> HIDE DEF S
  <2> QED BY <2>1, FollowUpItemsFit, TuplesList
<1>4. ExpansionItems \in Seq(S) /\ Len(ExpansionItems) = 7
  <2>1. \A i \in 1..7 : ExpansionItems[i] \in S
    BY ExpansionItemsFit DEF ToSet
  <2> HIDE DEF S
  <2> QED BY <2>1, ExpansionItemsFit, TuplesList
<1>5. MigratedItems \in Seq(S) /\ Len(MigratedItems) = 11
  <2>1. \A i \in 1..11 : MigratedItems[i] \in S
    BY MigratedItemsFit DEF ToSet
  <2> HIDE DEF S
  <2> QED BY <2>1, MigratedItemsFit, TuplesList
<1>6. LateItems \in Seq(S) /\ Len(LateItems) = 9
  <2>1. \A i \in 1..9 : LateItems[i] \in S
    BY LateItemsFit DEF ToSet
  <2> HIDE DEF S
  <2> QED BY <2>1, LateItemsFit, TuplesList
<1> HIDE DEF S
<1> DEFINE two == ContractItems \o SupplierItems
           three == two \o FollowUpItems
           four == three \o ExpansionItems
           five == four \o MigratedItems
           six == five \o LateItems
<1>7. /\ two \in Seq(S)
      /\ Len(two) = 13
      /\ \A i \in 1..6 : two[i] = ContractItems[i]
      /\ \A i \in 1..7 : two[6 + i] = SupplierItems[i]
  <2> DEFINE m == 6
             n == 7
  <2>1. /\ ContractItems \in Seq(S) /\ m = Len(ContractItems)
        /\ SupplierItems \in Seq(S) /\ n = Len(SupplierItems)
    BY <1>1, <1>2
  <2>2. two = ContractItems \o SupplierItems
    OBVIOUS
  <2> HIDE DEF two, m, n
  <2>3. /\ two \in Seq(S)
        /\ Len(two) = m + n
        /\ \A i \in 1..m : two[i] = ContractItems[i]
        /\ \A i \in 1..n : two[m + i] = SupplierItems[i]
    BY <2>1, <2>2, TablesJoin
  <2> QED BY <2>3 DEF m, n
<1>8. /\ three \in Seq(S)
      /\ Len(three) = 20
      /\ \A i \in 1..13 : three[i] = two[i]
      /\ \A i \in 1..7 : three[13 + i] = FollowUpItems[i]
  <2> HIDE DEF two
  <2> DEFINE m == 13
             n == 7
  <2>1. /\ two \in Seq(S) /\ m = Len(two)
        /\ FollowUpItems \in Seq(S) /\ n = Len(FollowUpItems)
    BY <1>7, <1>3
  <2>2. three = two \o FollowUpItems
    OBVIOUS
  <2> HIDE DEF three, m, n
  <2>3. /\ three \in Seq(S)
        /\ Len(three) = m + n
        /\ \A i \in 1..m : three[i] = two[i]
        /\ \A i \in 1..n : three[m + i] = FollowUpItems[i]
    BY <2>1, <2>2, TablesJoin
  <2> QED BY <2>3 DEF m, n
<1>9. /\ four \in Seq(S)
      /\ Len(four) = 27
      /\ \A i \in 1..20 : four[i] = three[i]
      /\ \A i \in 1..7 : four[20 + i] = ExpansionItems[i]
  <2> HIDE DEF two, three
  <2> DEFINE m == 20
             n == 7
  <2>1. /\ three \in Seq(S) /\ m = Len(three)
        /\ ExpansionItems \in Seq(S) /\ n = Len(ExpansionItems)
    BY <1>8, <1>4
  <2>2. four = three \o ExpansionItems
    OBVIOUS
  <2> HIDE DEF four, m, n
  <2>3. /\ four \in Seq(S)
        /\ Len(four) = m + n
        /\ \A i \in 1..m : four[i] = three[i]
        /\ \A i \in 1..n : four[m + i] = ExpansionItems[i]
    BY <2>1, <2>2, TablesJoin
  <2> QED BY <2>3 DEF m, n
<1>10. /\ five \in Seq(S)
       /\ Len(five) = 38
       /\ \A i \in 1..27 : five[i] = four[i]
       /\ \A i \in 1..11 : five[27 + i] = MigratedItems[i]
  <2> HIDE DEF two, three, four
  <2> DEFINE m == 27
             n == 11
  <2>1. /\ four \in Seq(S) /\ m = Len(four)
        /\ MigratedItems \in Seq(S) /\ n = Len(MigratedItems)
    BY <1>9, <1>5
  <2>2. five = four \o MigratedItems
    OBVIOUS
  <2> HIDE DEF five, m, n
  <2>3. /\ five \in Seq(S)
        /\ Len(five) = m + n
        /\ \A i \in 1..m : five[i] = four[i]
        /\ \A i \in 1..n : five[m + i] = MigratedItems[i]
    BY <2>1, <2>2, TablesJoin
  <2> QED BY <2>3 DEF m, n
<1>11. /\ six \in Seq(S)
       /\ Len(six) = 47
       /\ \A i \in 1..38 : six[i] = five[i]
       /\ \A i \in 1..9 : six[38 + i] = LateItems[i]
  <2> HIDE DEF two, three, four, five
  <2> DEFINE m == 38
             n == 9
  <2>1. /\ five \in Seq(S) /\ m = Len(five)
        /\ LateItems \in Seq(S) /\ n = Len(LateItems)
    BY <1>10, <1>6
  <2>2. six = five \o LateItems
    OBVIOUS
  <2> HIDE DEF six, m, n
  <2>3. /\ six \in Seq(S)
        /\ Len(six) = m + n
        /\ \A i \in 1..m : six[i] = five[i]
        /\ \A i \in 1..n : six[m + i] = LateItems[i]
    BY <2>1, <2>2, TablesJoin
  <2> QED BY <2>3 DEF m, n
<1>12. Items = six
  BY DEF Items
<1> HIDE DEF two, three, four, five, six
<1>13. /\ \A i \in 1..6 : six[i] = ContractItems[i]
       /\ \A i \in 1..7 : six[6 + i] = SupplierItems[i]
       /\ \A i \in 1..7 : six[13 + i] = FollowUpItems[i]
       /\ \A i \in 1..7 : six[20 + i] = ExpansionItems[i]
       /\ \A i \in 1..11 : six[27 + i] = MigratedItems[i]
       /\ \A i \in 1..9 : six[38 + i] = LateItems[i]
  <2>1. ASSUME NEW i \in 1..27 PROVE six[i] = four[i]
    <3>1. i \in 1..38
      OBVIOUS
    <3> QED BY <3>1, <1>10, <1>11
  <2>2. ASSUME NEW i \in 1..20 PROVE six[i] = three[i]
    <3>1. i \in 1..27
      OBVIOUS
    <3> QED BY <3>1, <1>9, <2>1
  <2>3. ASSUME NEW i \in 1..13 PROVE six[i] = two[i]
    <3>1. i \in 1..20
      OBVIOUS
    <3> QED BY <3>1, <1>8, <2>2
  <2>4. \A i \in 1..6 : six[i] = ContractItems[i]
    BY <1>7, <2>3
  <2>5. \A i \in 1..7 : 6 + i \in 1..13
    OBVIOUS
  <2>6. \A i \in 1..7 : six[6 + i] = SupplierItems[i]
    BY <1>7, <2>3, <2>5
  <2>7. \A i \in 1..7 : 13 + i \in 1..20
    OBVIOUS
  <2>8. \A i \in 1..7 : six[13 + i] = FollowUpItems[i]
    BY <1>8, <2>2, <2>7
  <2>9. \A i \in 1..7 : 20 + i \in 1..27
    OBVIOUS
  <2>10. \A i \in 1..7 : six[20 + i] = ExpansionItems[i]
    BY <1>9, <2>1, <2>9
  <2>11. \A i \in 1..11 : 27 + i \in 1..38
    OBVIOUS
  <2>12. \A i \in 1..11 : six[27 + i] = MigratedItems[i]
    BY <1>10, <1>11, <2>11
  <2> QED BY <1>11, <2>4, <2>6, <2>8, <2>10, <2>12
<1>14. ASSUME NEW n \in 1..47
       PROVE  Fits(six[n], n)
  <2>1. CASE n \in 1..6
    BY <2>1, <1>13, ContractItemsFit
  <2>2. CASE n \in 7..13
    <3>1. n - 6 \in 1..7 /\ 6 + (n - 6) = n
      BY <2>2
    <3> QED BY <3>1, <1>13, SupplierItemsFit
  <2>3. CASE n \in 14..20
    <3>1. n - 13 \in 1..7 /\ 13 + (n - 13) = n
      BY <2>3
    <3> QED BY <3>1, <1>13, FollowUpItemsFit
  <2>4. CASE n \in 21..27
    <3>1. n - 20 \in 1..7 /\ 20 + (n - 20) = n
      BY <2>4
    <3> QED BY <3>1, <1>13, ExpansionItemsFit
  <2>5. CASE n \in 28..38
    <3>1. n - 27 \in 1..11 /\ 27 + (n - 27) = n
      BY <2>5
    <3> QED BY <3>1, <1>13, MigratedItemsFit
  <2>6. CASE n \in 39..47
    <3>1. n - 38 \in 1..9 /\ 38 + (n - 38) = n
      BY <2>6
    <3> QED BY <3>1, <1>13, LateItemsFit
  <2> QED BY <2>1, <2>2, <2>3, <2>4, <2>5, <2>6
<1>15. /\ six[6] = ContractItems[6] /\ six[9] = SupplierItems[3] /\ six[25] = ExpansionItems[5]
       /\ six[41] = LateItems[3] /\ six[46] = LateItems[8]
  BY <1>13, 6 + 3 = 9, 20 + 5 = 25, 38 + 3 = 41, 38 + 8 = 46
<1> QED BY <1>11, <1>12, <1>14, <1>15

(* The meetings: fifteen of them, and the transcripts there are.            *)
LEMMA MeetingsAre ==
  /\ Len(Meetings) = 15
  /\ \A m \in Transcribed : \E i \in 1..15 : Meetings[i].key = m[1] /\ Meetings[i].lines = m[2]
<1> DEFINE S == UNION {ToSet(meetings) : meetings \in
                  {ContractMeeting, BoardMeetings, SalesMeetings, FundMeetings, ServiceMeetings,
                   UntoldMeetings, LateMeetings}}
<1>1. ContractMeeting \in Seq(S) /\ Len(ContractMeeting) = 1
  <2>1. ContractMeeting = [i \in 1..1 |-> ContractMeeting[i]]
    BY DEF ContractMeeting
  <2>2. \A i \in 1..1 : ContractMeeting[i] \in S
    BY <2>1 DEF ToSet
  <2> HIDE DEF S
  <2> QED BY <2>1, <2>2, TuplesList
<1>2. BoardMeetings \in Seq(S) /\ Len(BoardMeetings) = 2
  <2>1. BoardMeetings = [i \in 1..2 |-> BoardMeetings[i]]
    BY DEF BoardMeetings
  <2>2. \A i \in 1..2 : BoardMeetings[i] \in S
    BY <2>1 DEF ToSet
  <2> HIDE DEF S
  <2> QED BY <2>1, <2>2, TuplesList
<1>3. SalesMeetings \in Seq(S) /\ Len(SalesMeetings) = 2
  <2>1. SalesMeetings = [i \in 1..2 |-> SalesMeetings[i]]
    BY DEF SalesMeetings
  <2>2. \A i \in 1..2 : SalesMeetings[i] \in S
    BY <2>1 DEF ToSet
  <2> HIDE DEF S
  <2> QED BY <2>1, <2>2, TuplesList
<1>4. FundMeetings \in Seq(S) /\ Len(FundMeetings) = 2
  <2>1. FundMeetings = [i \in 1..2 |-> FundMeetings[i]]
    BY DEF FundMeetings
  <2>2. \A i \in 1..2 : FundMeetings[i] \in S
    BY <2>1 DEF ToSet
  <2> HIDE DEF S
  <2> QED BY <2>1, <2>2, TuplesList
<1>5. ServiceMeetings \in Seq(S) /\ Len(ServiceMeetings) = 2
  <2>1. ServiceMeetings = [i \in 1..2 |-> ServiceMeetings[i]]
    BY DEF ServiceMeetings
  <2>2. \A i \in 1..2 : ServiceMeetings[i] \in S
    BY <2>1 DEF ToSet
  <2> HIDE DEF S
  <2> QED BY <2>1, <2>2, TuplesList
<1>6. UntoldMeetings \in Seq(S) /\ Len(UntoldMeetings) = 4
  <2>1. UntoldMeetings = [i \in 1..4 |-> UntoldMeetings[i]]
    BY DEF UntoldMeetings
  <2>2. \A i \in 1..4 : UntoldMeetings[i] \in S
    BY <2>1 DEF ToSet
  <2> HIDE DEF S
  <2> QED BY <2>1, <2>2, TuplesList
<1>7. LateMeetings \in Seq(S) /\ Len(LateMeetings) = 2
  <2>1. LateMeetings = [i \in 1..2 |-> LateMeetings[i]]
    BY DEF LateMeetings
  <2>2. \A i \in 1..2 : LateMeetings[i] \in S
    BY <2>1 DEF ToSet
  <2> HIDE DEF S
  <2> QED BY <2>1, <2>2, TuplesList
<1> HIDE DEF S
<1> DEFINE two == ContractMeeting \o BoardMeetings
           three == two \o SalesMeetings
           four == three \o FundMeetings
           five == four \o ServiceMeetings
           six == five \o UntoldMeetings
           seven == six \o LateMeetings
<1>8. /\ two \in Seq(S)
      /\ Len(two) = 3
      /\ \A i \in 1..1 : two[i] = ContractMeeting[i]
      /\ \A i \in 1..2 : two[1 + i] = BoardMeetings[i]
  <2> DEFINE m == 1
             n == 2
  <2>1. /\ ContractMeeting \in Seq(S) /\ m = Len(ContractMeeting)
        /\ BoardMeetings \in Seq(S) /\ n = Len(BoardMeetings)
    BY <1>1, <1>2
  <2>2. two = ContractMeeting \o BoardMeetings
    OBVIOUS
  <2> HIDE DEF two, m, n
  <2>3. /\ two \in Seq(S)
        /\ Len(two) = m + n
        /\ \A i \in 1..m : two[i] = ContractMeeting[i]
        /\ \A i \in 1..n : two[m + i] = BoardMeetings[i]
    BY <2>1, <2>2, TablesJoin
  <2> QED BY <2>3 DEF m, n
<1>9. /\ three \in Seq(S)
      /\ Len(three) = 5
      /\ \A i \in 1..3 : three[i] = two[i]
      /\ \A i \in 1..2 : three[3 + i] = SalesMeetings[i]
  <2> HIDE DEF two
  <2> DEFINE m == 3
             n == 2
  <2>1. /\ two \in Seq(S) /\ m = Len(two)
        /\ SalesMeetings \in Seq(S) /\ n = Len(SalesMeetings)
    BY <1>8, <1>3
  <2>2. three = two \o SalesMeetings
    OBVIOUS
  <2> HIDE DEF three, m, n
  <2>3. /\ three \in Seq(S)
        /\ Len(three) = m + n
        /\ \A i \in 1..m : three[i] = two[i]
        /\ \A i \in 1..n : three[m + i] = SalesMeetings[i]
    BY <2>1, <2>2, TablesJoin
  <2> QED BY <2>3 DEF m, n
<1>10. /\ four \in Seq(S)
       /\ Len(four) = 7
       /\ \A i \in 1..5 : four[i] = three[i]
       /\ \A i \in 1..2 : four[5 + i] = FundMeetings[i]
  <2> HIDE DEF two, three
  <2> DEFINE m == 5
             n == 2
  <2>1. /\ three \in Seq(S) /\ m = Len(three)
        /\ FundMeetings \in Seq(S) /\ n = Len(FundMeetings)
    BY <1>9, <1>4
  <2>2. four = three \o FundMeetings
    OBVIOUS
  <2> HIDE DEF four, m, n
  <2>3. /\ four \in Seq(S)
        /\ Len(four) = m + n
        /\ \A i \in 1..m : four[i] = three[i]
        /\ \A i \in 1..n : four[m + i] = FundMeetings[i]
    BY <2>1, <2>2, TablesJoin
  <2> QED BY <2>3 DEF m, n
<1>11. /\ five \in Seq(S)
       /\ Len(five) = 9
       /\ \A i \in 1..7 : five[i] = four[i]
       /\ \A i \in 1..2 : five[7 + i] = ServiceMeetings[i]
  <2> HIDE DEF two, three, four
  <2> DEFINE m == 7
             n == 2
  <2>1. /\ four \in Seq(S) /\ m = Len(four)
        /\ ServiceMeetings \in Seq(S) /\ n = Len(ServiceMeetings)
    BY <1>10, <1>5
  <2>2. five = four \o ServiceMeetings
    OBVIOUS
  <2> HIDE DEF five, m, n
  <2>3. /\ five \in Seq(S)
        /\ Len(five) = m + n
        /\ \A i \in 1..m : five[i] = four[i]
        /\ \A i \in 1..n : five[m + i] = ServiceMeetings[i]
    BY <2>1, <2>2, TablesJoin
  <2> QED BY <2>3 DEF m, n
<1>12. /\ six \in Seq(S)
       /\ Len(six) = 13
       /\ \A i \in 1..9 : six[i] = five[i]
       /\ \A i \in 1..4 : six[9 + i] = UntoldMeetings[i]
  <2> HIDE DEF two, three, four, five
  <2> DEFINE m == 9
             n == 4
  <2>1. /\ five \in Seq(S) /\ m = Len(five)
        /\ UntoldMeetings \in Seq(S) /\ n = Len(UntoldMeetings)
    BY <1>11, <1>6
  <2>2. six = five \o UntoldMeetings
    OBVIOUS
  <2> HIDE DEF six, m, n
  <2>3. /\ six \in Seq(S)
        /\ Len(six) = m + n
        /\ \A i \in 1..m : six[i] = five[i]
        /\ \A i \in 1..n : six[m + i] = UntoldMeetings[i]
    BY <2>1, <2>2, TablesJoin
  <2> QED BY <2>3 DEF m, n
<1>13. /\ seven \in Seq(S)
       /\ Len(seven) = 15
       /\ \A i \in 1..13 : seven[i] = six[i]
       /\ \A i \in 1..2 : seven[13 + i] = LateMeetings[i]
  <2> HIDE DEF two, three, four, five, six
  <2> DEFINE m == 13
             n == 2
  <2>1. /\ six \in Seq(S) /\ m = Len(six)
        /\ LateMeetings \in Seq(S) /\ n = Len(LateMeetings)
    BY <1>12, <1>7
  <2>2. seven = six \o LateMeetings
    OBVIOUS
  <2> HIDE DEF seven, m, n
  <2>3. /\ seven \in Seq(S)
        /\ Len(seven) = m + n
        /\ \A i \in 1..m : seven[i] = six[i]
        /\ \A i \in 1..n : seven[m + i] = LateMeetings[i]
    BY <2>1, <2>2, TablesJoin
  <2> QED BY <2>3 DEF m, n
<1>14. Meetings = seven
  BY DEF Meetings
<1> HIDE DEF two, three, four, five, six, seven
<1>15. ASSUME NEW i \in 1..9 PROVE seven[i] = five[i]
  <2>1. i \in 1..13
    OBVIOUS
  <2> QED BY <2>1, <1>12, <1>13
<1>16. ASSUME NEW i \in 1..5 PROVE seven[i] = three[i]
  <2>1. i \in 1..7 /\ i \in 1..9
    OBVIOUS
  <2> QED BY <2>1, <1>10, <1>11, <1>15
<1>17. ASSUME NEW i \in 1..3 PROVE seven[i] = two[i]
  <2>1. i \in 1..5
    OBVIOUS
  <2> QED BY <2>1, <1>9, <1>16
<1>18. /\ seven[1] = ContractMeeting[1]
       /\ seven[1 + 1] = BoardMeetings[1] /\ seven[1 + 2] = BoardMeetings[2]
       /\ seven[3 + 1] = SalesMeetings[1] /\ seven[3 + 2] = SalesMeetings[2]
       /\ seven[5 + 1] = FundMeetings[1] /\ seven[5 + 2] = FundMeetings[2]
       /\ seven[7 + 1] = ServiceMeetings[1] /\ seven[7 + 2] = ServiceMeetings[2]
       /\ seven[13 + 1] = LateMeetings[1] /\ seven[13 + 2] = LateMeetings[2]
  <2>1. /\ seven[1] = ContractMeeting[1]
        /\ seven[1 + 1] = BoardMeetings[1] /\ seven[1 + 2] = BoardMeetings[2]
    BY <1>8, <1>17
  <2>2. seven[3 + 1] = SalesMeetings[1] /\ seven[3 + 2] = SalesMeetings[2]
    BY <1>9, <1>16
  <2>3. five[5 + 1] = FundMeetings[1] /\ five[5 + 2] = FundMeetings[2]
    BY <1>10, <1>11
  <2>4. /\ seven[5 + 1] = FundMeetings[1] /\ seven[5 + 2] = FundMeetings[2]
        /\ seven[7 + 1] = ServiceMeetings[1] /\ seven[7 + 2] = ServiceMeetings[2]
    BY <1>11, <1>15, <2>3
  <2> QED BY <1>13, <2>1, <2>2, <2>4
<1>19. ASSUME NEW m \in Transcribed
       PROVE  \E i \in 1..15 : seven[i].key = m[1] /\ seven[i].lines = m[2]
  <2>1. CASE m = <<"alfa", 26>>
    BY <2>1, <1>18 DEF ContractMeeting, Told
  <2>2. CASE m = <<"comite", 8>>
    BY <2>2, <1>18 DEF BoardMeetings, Told
  <2>3. CASE m = <<"legal", 6>>
    BY <2>3, <1>18 DEF BoardMeetings, Told
  <2>4. CASE m = <<"kickoffBeta", 7>>
    BY <2>4, <1>18 DEF SalesMeetings, Told
  <2>5. CASE m = <<"pipeline", 6>>
    BY <2>5, <1>18 DEF SalesMeetings, Told
  <2>6. CASE m = <<"cierre", 6>>
    BY <2>6, <1>18 DEF FundMeetings, Told
  <2>7. CASE m = <<"gamma", 5>>
    BY <2>7, <1>18 DEF FundMeetings, Told
  <2>8. CASE m = <<"nps", 6>>
    BY <2>8, <1>18 DEF ServiceMeetings, Told
  <2>9. CASE m = <<"norte", 6>>
    BY <2>9, <1>18 DEF ServiceMeetings, Told
  <2>10. CASE m = <<"negociacion", 5>>
    BY <2>10, <1>18 DEF LateMeetings, Told
  <2>11. CASE m = <<"avancesBeta", 7>>
    BY <2>11, <1>18 DEF LateMeetings, Told
  <2> QED BY <2>1, <2>2, <2>3, <2>4, <2>5, <2>6, <2>7, <2>8, <2>9, <2>10, <2>11
         DEF Transcribed
<1> QED BY <1>13, <1>14, <1>19

----------------------------------------------------------------------------
(* The script, run any number of times.                                     *)

(* The meetings come before the tasks.                                      *)
MeetingsFirst ==
  /\ seedAt \in 1..15 => shown >= seedAt - 1
  /\ rows # <<>> \/ seedAt >= FirstItem => shown = 15

(* A row has its history or none yet; a run leaves its histories behind it. *)
HistoriesInTurn ==
  /\ \A n \in DOMAIN rows : rows[n].log \in {<<>>, Log(Items[n])}
  /\ \A n \in 1..47 : n < seedAt - 15 => n \in DOMAIN rows /\ rows[n].log = Log(Items[n])

(* The numbers are free from the moment the serial was advanced, and stay   *)
(* so: there are no rows left to add.                                       *)
NumbersStayFree ==
  /\ audited => Len(rows) = 47
  /\ audited \/ seedAt = Wrap + 3 => \A n \in InUse : n < nextNumber

(* What the script wrote is as it wrote it while nobody works.              *)
AsWritten ==
  /\ works = 0 => /\ unanswered \subseteq {Proposed}
                  /\ seedAt > Wrap => Proposed \in unanswered
                  /\ \A n \in DOMAIN rows : rows[n].status = Items[n].status
  /\ seedAt > Wrap + 1 => inReview = 1..6

(* A whole demonstration.                                                   *)
WholeIsWhole ==
  whole => /\ works = 0 /\ audited /\ seedAt = 0
           /\ unanswered = {Proposed} /\ inReview = 1..6
           /\ \A n \in 1..47 : n \in DOMAIN rows /\ rows[n].log = Log(Items[n])

SeedInv ==
  /\ SeedTypeOK /\ IsFiniteSet(numbers)
  /\ MeetingsFirst /\ HistoriesInTurn /\ NumbersStayFree /\ AsWritten /\ WholeIsWhole

----------------------------------------------------------------------------
(* How many there are of each, and the steps of the script.                 *)
LEMMA SeedNumbers ==
  /\ Len(Meetings) = 15 /\ Len(Items) = 47 /\ Len(Reviews) = 6
  /\ FirstItem = 16 /\ Wrap = 63 /\ StepsOfSeed = 66 /\ Proposed = 2
<1>1. Len(Reviews) = 6
  BY DEF Reviews
<1> QED BY <1>1, MeetingsAre, ItemsFit DEF FirstItem, Wrap, StepsOfSeed, Proposed

(* Every task is given a history that can be told of it.                    *)
LEMMA ItemsTell ==
  \A n \in 1..47 : Items[n].status \in Status /\ Telling(Log(Items[n]), Items[n].status)
BY ItemsFit, LogsTell DEF Fits, Marked

(* What the audit trail tells of changes, the histories tell.               *)
LEMMA ChangesAreTold ==
  ASSUME NEW c \in AuditedChanges
  PROVE  \E i \in 1..(Len(Log(Items[c[1]])) - 1) :
           Log(Items[c[1]])[i] = c[2] /\ Log(Items[c[1]])[i + 1] = c[3]
<1>1. CASE c = <<6, "PENDING", "IN_PROGRESS">>
  <2>1. Items[6].status = "IN_PROGRESS" /\ Items[6].via = <<"PENDING", "IN_PROGRESS">>
    BY ItemsFit DEF ContractItems, Owned, Started
  <2>2. Log(Items[6]) = <<"PENDING", "IN_PROGRESS">>
    BY <2>1 DEF Log
  <2> QED BY <1>1, <2>2
<1>2. CASE c = <<9, "IN_PROGRESS", "BLOCKED">>
  <2>1. Items[9].status = "BLOCKED" /\ Items[9].via = <<"PENDING", "IN_PROGRESS", "BLOCKED">>
    BY ItemsFit, HistoriesJoin DEF SupplierItems, Owned, Started
  <2>2. Log(Items[9]) = <<"PENDING", "IN_PROGRESS", "BLOCKED">>
    BY <2>1 DEF Log
  <2> QED BY <1>2, <2>2
<1>3. CASE c = <<25, "PENDING", "BLOCKED">>
  <2>1. Items[25].status = "BLOCKED" /\ Items[25].via = <<"PENDING", "BLOCKED">>
    BY ItemsFit DEF ExpansionItems, Owned
  <2>2. Log(Items[25]) = <<"PENDING", "BLOCKED">>
    BY <2>1 DEF Log
  <2> QED BY <1>3, <2>2
<1>4. CASE c = <<46, "PENDING", "BLOCKED">>
  <2>1. Items[46].status = "BLOCKED" /\ Items[46].via = <<"PENDING", "BLOCKED">>
    BY ItemsFit DEF LateItems, Owned
  <2>2. Log(Items[46]) = <<"PENDING", "BLOCKED">>
    BY <2>1 DEF Log
  <2> QED BY <1>4, <2>2
<1>5. CASE c = <<41, "PENDING", "CANCELLED">>
  <2>1. Items[41].status = "CANCELLED" /\ Items[41].via = <<"PENDING", "CANCELLED">>
    BY ItemsFit DEF LateItems, Owned
  <2>2. Log(Items[41]) = <<"PENDING", "CANCELLED">>
    BY <2>1 DEF Log
  <2> QED BY <1>5, <2>2
<1> QED BY <1>1, <1>2, <1>3, <1>4, <1>5 DEF AuditedChanges

(* What a task quotes is in the transcripts, once they are all stored.      *)
LEMMA QuotesAreFound ==
  ASSUME shown = 15, NEW n \in 1..47, NEW quote \in Items[n].quotes
  PROVE  Quoted(quote)
<1>1. PICK m \in Transcribed : m[1] = quote[1] /\ quote[2] \in 1..m[2]
  BY ItemsFit DEF Fits, CanQuote
<1>2. PICK i \in 1..15 : Meetings[i].key = m[1] /\ Meetings[i].lines = m[2]
  BY MeetingsAre
<1> QED BY <1>1, <1>2 DEF Quoted

SeedRow == [status : Status, log : Seq(Status), later : Seq(Status)]

(* A row written in its turn takes its place.                               *)
Put(after, table, n, entry) ==
  /\ Len(after) = IF n \in DOMAIN table THEN Len(table) ELSE n
  /\ DOMAIN after = DOMAIN table \cup {n}
  /\ after[n] = entry
  /\ \A m \in DOMAIN table : m # n => after[m] = table[m]

LEMMA OverPuts ==
  ASSUME NEW R, NEW table \in Seq(R), NEW entry \in R, NEW n \in 1..47,
         \A m \in 1..47 : m < n => m \in DOMAIN table
  PROVE  Over(table, n, entry) \in Seq(R) /\ Put(Over(table, n, entry), table, n, entry)
<1>1. CASE n \in DOMAIN table
  <2>1. Over(table, n, entry) = [table EXCEPT ![n] = entry]
    BY <1>1 DEF Over
  <2>2. table \in [1..Len(table) -> R] /\ Len(table) \in Nat /\ DOMAIN table = 1..Len(table)
    OBVIOUS
  <2>3. /\ [table EXCEPT ![n] = entry] \in Seq(R)
        /\ Len([table EXCEPT ![n] = entry]) = Len(table)
    BY <1>1, ExceptSeq
  <2> QED BY <1>1, <2>1, <2>2, <2>3 DEF Put
<1>2. CASE n \notin DOMAIN table
  <2>1. Len(table) = n - 1
    <3> DEFINE m == n - 1
    <3>1. DOMAIN table = 1..Len(table) /\ Len(table) \in Nat
      OBVIOUS
    <3>2. Len(table) < n
      BY <1>2, <3>1
    <3>3. n # 1 => m \in 1..47 /\ m < n
      OBVIOUS
    <3>4. n # 1 => m \in DOMAIN table
      <4> HIDE DEF m
      <4> QED BY <3>3
    <3>5. n # 1 => n - 1 \in 1..Len(table)
      BY <3>1, <3>4
    <3>6. n = 1 => Len(table) = n - 1
      BY <3>1, <3>2
    <3> DEFINE len == Len(table)
    <3>7. len \in Nat /\ len < n /\ (n # 1 => n - 1 \in 1..len) /\ (n = 1 => len = n - 1)
      BY <3>1, <3>2, <3>5, <3>6
    <3> HIDE DEF len
    <3>8. len = n - 1
      BY <3>7
    <3> QED BY <3>8 DEF len
  <2>2. Over(table, n, entry) = Append(table, entry)
    BY <1>2 DEF Over
  <2>3. Len(table) + 1 = n /\ DOMAIN table = 1..Len(table) /\ Len(table) \in Nat
    BY <2>1
  <2>4. /\ Append(table, entry) \in Seq(R) /\ Len(Append(table, entry)) = Len(table) + 1
        /\ DOMAIN Append(table, entry) = 1..(Len(table) + 1)
        /\ \A m \in 1..Len(table) : Append(table, entry)[m] = table[m]
        /\ Append(table, entry)[Len(table) + 1] = entry
    OBVIOUS
  <2>5. 1..(Len(table) + 1) = 1..Len(table) \cup {Len(table) + 1}
    BY <2>3
  <2> QED BY <1>2, <2>2, <2>3, <2>4, <2>5 DEF Put
<1> QED BY <1>1, <1>2

LEMMA SeedInvStarts == SeedInit => SeedInv
<1> SUFFICES ASSUME SeedInit PROVE SeedInv
  OBVIOUS
<1> USE SeedNumbers DEF SeedInit
<1>1. SeedTypeOK
  <2>1. rows \in Seq([status : Status, log : Seq(Status), later : Seq(Status)]) /\ Len(rows) = 0
    OBVIOUS
  <2>2. /\ shown \in 0..Len(Meetings) /\ 0 <= Len(Items)
        /\ unanswered \subseteq 1..Len(Items) /\ inReview \subseteq 1..Len(Reviews)
    OBVIOUS
  <2>3. audited \in BOOLEAN /\ whole \in BOOLEAN /\ numbers \subseteq Nat /\ nextNumber \in Nat
    OBVIOUS
  <2>4. seedAt \in 0..StepsOfSeed /\ seeds \in 0..MaxSeeds /\ works \in 0..MaxWorks
    BY SeedAssumption
  <2> HIDE DEF SeedInit
  <2> QED BY <2>1, <2>2, <2>3, <2>4 DEF SeedTypeOK
<1>2. IsFiniteSet(numbers)
  BY FS_EmptySet
<1>3. MeetingsFirst /\ HistoriesInTurn
  BY DEF MeetingsFirst, HistoriesInTurn
<1>4. NumbersStayFree /\ AsWritten /\ WholeIsWhole
  BY DEF NumbersStayFree, AsWritten, WholeIsWhole
<1> QED BY <1>1, <1>2, <1>3, <1>4 DEF SeedInv

(* A task written in its turn: its row is put in its place, with its        *)
(* history, or the run ends.                                                *)
LEMMA ItemIsWritten ==
  ASSUME SeedInv, SeedItem
  PROVE  /\ seedAt \in 16..62
         /\ \/ rows' = rows /\ seedAt' = 0
            \/ \E n \in 1..47, entry \in SeedRow :
                 /\ n = seedAt - 15 /\ rows' = Over(rows, n, entry)
                 /\ entry.status = Items[n].status
                 /\ \/ entry.log = Log(Items[n]) /\ seedAt' = seedAt + 1
                    \/ /\ seedAt' = 0
                       /\ entry.log = IF n \in DOMAIN rows THEN rows[n].log ELSE <<>>
<1> DEFINE n == seedAt - Len(Meetings)
<1>1. seedAt \in 16..62 /\ n = seedAt - 15 /\ n \in 1..47
  BY SeedNumbers DEF SeedItem
<1>2. rows \in Seq(SeedRow)
  BY DEF SeedInv, SeedTypeOK, SeedRow
<1>3. Items[n].status \in Status /\ Log(Items[n]) \in Seq(Status)
  BY <1>1, ItemsTell DEF Telling
<1> DEFINE kept == SeededRow(Items[n], n)
           told == [kept EXCEPT !.log = Log(Items[n])]
<1>4. /\ kept \in SeedRow /\ kept.status = Items[n].status
      /\ kept.log = IF n \in DOMAIN rows THEN rows[n].log ELSE <<>>
  <2> HIDE DEF n
  <2>1. CASE n \in DOMAIN rows
    <3>1. rows[n] \in SeedRow /\ kept = [rows[n] EXCEPT !.status = Items[n].status]
      BY <1>2, <2>1 DEF SeededRow
    <3> QED BY <1>3, <2>1, <3>1 DEF SeedRow
  <2>2. CASE n \notin DOMAIN rows
    BY <1>3, <2>2 DEF SeededRow, SeedRow
  <2> QED BY <2>1, <2>2
<1>5. told \in SeedRow /\ told.status = Items[n].status /\ told.log = Log(Items[n])
  <2> HIDE DEF n, kept
  <2> QED BY <1>3, <1>4 DEF SeedRow
<1>6. \/ rows' = Over(rows, n, told) /\ seedAt' = seedAt + 1
      \/ rows' = Over(rows, n, kept) /\ seedAt' = 0
      \/ rows' = rows /\ seedAt' = 0
  BY DEF SeedItem
<1> HIDE DEF n, kept, told
<1> QED BY <1>1, <1>4, <1>5, <1>6

LEMMA SeedItemKeeps ==
  ASSUME SeedInv, SeedItem
  PROVE  SeedInv'
<1>1. UNCHANGED <<shown, unanswered, inReview, audited, numbers, nextNumber, seeds, works, whole>>
  BY DEF SeedItem
<1>2. /\ SeedTypeOK /\ IsFiniteSet(numbers) /\ MeetingsFirst /\ HistoriesInTurn
      /\ NumbersStayFree /\ AsWritten /\ WholeIsWhole
  BY DEF SeedInv
<1>3. seedAt \in 16..62 /\ ~whole /\ shown = 15
  <2>1. seedAt \in 16..62
    BY ItemIsWritten
  <2>2. ~whole
    BY <1>2, <2>1 DEF WholeIsWhole
  <2>3. shown = 15
    BY <1>2, <2>1, SeedNumbers DEF MeetingsFirst
  <2> QED BY <2>1, <2>2, <2>3
<1>4. CASE rows' = rows /\ seedAt' = 0
  <2>1. SeedTypeOK' /\ MeetingsFirst' /\ WholeIsWhole'
    BY <1>1, <1>2, <1>3, <1>4, SeedNumbers DEF SeedTypeOK, MeetingsFirst, WholeIsWhole
  <2>2. HistoriesInTurn' /\ AsWritten'
    BY <1>1, <1>2, <1>4, SeedNumbers DEF HistoriesInTurn, AsWritten
  <2>3. NumbersStayFree'
    BY <1>1, <1>2, <1>4, SeedNumbers DEF NumbersStayFree, InUse
  <2> QED BY <1>1, <1>2, <2>1, <2>2, <2>3 DEF SeedInv
<1>5. ASSUME NEW n \in 1..47, NEW entry \in SeedRow, n = seedAt - 15, rows' = Over(rows, n, entry),
             entry.status = Items[n].status,
             \/ entry.log = Log(Items[n]) /\ seedAt' = seedAt + 1
             \/ /\ seedAt' = 0
                /\ entry.log = IF n \in DOMAIN rows THEN rows[n].log ELSE <<>>
      PROVE  SeedInv'
  <2>1. rows \in Seq(SeedRow) /\ Len(rows) <= 47
    BY <1>2, SeedNumbers DEF SeedTypeOK, SeedRow
  <2>2. \A m \in 1..47 : m < n => m \in DOMAIN rows
    BY <1>2, <1>5 DEF HistoriesInTurn
  <2>3. /\ rows' \in Seq(SeedRow)
        /\ Len(rows') = IF n \in DOMAIN rows THEN Len(rows) ELSE n
        /\ DOMAIN rows' = DOMAIN rows \cup {n} /\ rows'[n] = entry
        /\ \A m \in DOMAIN rows : m # n => rows'[m] = rows[m]
    <3>1. Over(rows, n, entry) \in Seq(SeedRow) /\ Put(Over(rows, n, entry), rows, n, entry)
      BY <2>1, <2>2, OverPuts
    <3> QED BY <1>5, <3>1 DEF Put
  <2>4. SeedTypeOK'
    <3>1. Len(rows') <= 47
      BY <2>1, <2>3
    <3>2. seedAt' \in 0..66
      <4>1. seedAt' = 0 \/ seedAt' = seedAt + 1
        BY <1>5
      <4> QED BY <1>3, <4>1
    <3>3. rows' \in Seq([status : Status, log : Seq(Status), later : Seq(Status)])
      BY <2>3 DEF SeedRow
    <3> QED BY <1>1, <1>2, <3>1, <3>2, <3>3, SeedNumbers DEF SeedTypeOK
  <2>5. MeetingsFirst' /\ WholeIsWhole'
    BY <1>1, <1>3, <1>5, SeedNumbers DEF MeetingsFirst, WholeIsWhole
  <2>6. \A m \in DOMAIN rows' : rows'[m].log \in {<<>>, Log(Items[m])}
    BY <1>2, <1>5, <2>3 DEF HistoriesInTurn
  <2>7. ASSUME NEW m \in 1..47, m < seedAt' - 15
        PROVE  m \in DOMAIN rows' /\ rows'[m].log = Log(Items[m])
    <3>1. entry.log = Log(Items[n]) /\ seedAt' = seedAt + 1
      BY <1>3, <1>5, <2>7
    <3>2. CASE m = n
      BY <2>3, <3>1, <3>2
    <3>3. CASE m < n
      BY <1>2, <1>5, <2>3, <3>3 DEF HistoriesInTurn
    <3> QED BY <1>3, <1>5, <2>7, <3>1, <3>2, <3>3
  <2>8. NumbersStayFree'
    <3>1. CASE audited
      <4>1. Len(rows) = 47 /\ n \in DOMAIN rows
        BY <1>2, <2>1, <3>1 DEF NumbersStayFree
      <4> QED BY <1>1, <1>2, <2>3, <3>1, <4>1 DEF NumbersStayFree, InUse
    <3>2. CASE ~audited
      BY <1>1, <1>3, <1>5, <3>2, SeedNumbers DEF NumbersStayFree
    <3> QED BY <3>1, <3>2
  <2>9. AsWritten'
    <3>1. works' = 0 => \A m \in DOMAIN rows' : rows'[m].status = Items[m].status
      BY <1>1, <1>2, <1>5, <2>3 DEF AsWritten
    <3>2. ~(seedAt' > Wrap)
      BY <1>3, <1>5, SeedNumbers
    <3>3. ~(seedAt' > Wrap + 1)
      BY <1>3, <1>5, SeedNumbers
    <3>4. works' = 0 => unanswered' \subseteq {Proposed}
      BY <1>1, <1>2 DEF AsWritten
    <3> QED BY <3>1, <3>2, <3>3, <3>4 DEF AsWritten
  <2> QED BY <1>1, <1>2, <2>4, <2>5, <2>6, <2>7, <2>8, <2>9 DEF SeedInv, HistoriesInTurn
<1> QED BY <1>4, <1>5, ItemIsWritten

(* What the types say of the tables.                                        *)
LEMMA SeedTypes ==
  ASSUME SeedInv
  PROVE  /\ rows \in Seq(SeedRow) /\ Len(rows) \in Nat /\ Len(rows) <= 47
         /\ DOMAIN rows = 1..Len(rows)
         /\ seedAt \in 0..66 /\ shown \in 0..15
         /\ unanswered \subseteq 1..47 /\ inReview \subseteq 1..6
         /\ numbers \subseteq Nat /\ nextNumber \in Nat
<1>1. SeedTypeOK
  BY DEF SeedInv
<1>2. rows \in Seq(SeedRow)
  BY <1>1 DEF SeedTypeOK, SeedRow
<1>3. Len(rows) \in Nat /\ DOMAIN rows = 1..Len(rows)
  BY <1>2
<1> QED BY <1>1, <1>2, <1>3, SeedNumbers DEF SeedTypeOK

LEMMA MoveItemKeeps ==
  ASSUME SeedInv, NEW n \in Touchable, NEW to \in Status, MoveItem(n, to)
  PROVE  SeedInv'
<1>1. /\ works' = works + 1 /\ ~whole' /\ works < MaxWorks
      /\ UNCHANGED <<shown, inReview, audited, seedAt, seeds, numbers, nextNumber>>
  BY DEF MoveItem, Works
<1>2. /\ SeedTypeOK /\ IsFiniteSet(numbers) /\ MeetingsFirst /\ HistoriesInTurn
      /\ NumbersStayFree /\ AsWritten /\ WholeIsWhole
  BY DEF SeedInv
<1>3. /\ rows \in Seq(SeedRow) /\ n \in DOMAIN rows /\ n \in 1..Len(rows)
      /\ Len(rows) <= 47 /\ rows # <<>>
  BY SeedTypes DEF MoveItem
<1> DEFINE entry == [rows[n] EXCEPT !.status = to, !.later = Append(@, to)]
<1>4. entry \in SeedRow /\ entry.log = rows[n].log
  <2>1. rows[n] \in SeedRow
    BY <1>3
  <2>2. Append(rows[n].later, to) \in Seq(Status)
    BY <2>1 DEF SeedRow
  <2> QED BY <2>1, <2>2 DEF SeedRow
<1>5. rows' = [rows EXCEPT ![n] = entry]
  BY DEF MoveItem
<1> HIDE DEF entry
<1>6. /\ rows' \in Seq(SeedRow) /\ Len(rows') = Len(rows) /\ DOMAIN rows' = DOMAIN rows
      /\ \A m \in DOMAIN rows : rows'[m].log = rows[m].log
  <2>1. /\ [rows EXCEPT ![n] = entry] \in Seq(SeedRow)
        /\ Len([rows EXCEPT ![n] = entry]) = Len(rows)
    BY <1>3, <1>4, ExceptSeq
  <2> QED BY <1>3, <1>4, <1>5, <2>1
<1>7. unanswered' \subseteq 1..47
  <2>1. unanswered' \subseteq unanswered \cup {n}
    BY DEF MoveItem
  <2> DEFINE len == Len(rows)
  <2>2. n \in 1..len /\ len \in Nat /\ len <= 47
    BY <1>3, SeedTypes
  <2> HIDE DEF len
  <2>3. n \in 1..47
    BY <2>2
  <2> QED BY <2>1, <2>3, SeedTypes
<1>8. works' \in 0..MaxWorks /\ works' # 0
  BY <1>1, <1>2, SeedAssumption DEF SeedTypeOK
<1>9. rows' \in Seq([status : Status, log : Seq(Status), later : Seq(Status)])
  BY <1>6 DEF SeedRow
<1>10. SeedTypeOK'
  <2>1. Len(rows') <= 47
    BY <1>3, <1>6
  <2>2. shown' \in 0..15 /\ inReview' \subseteq 1..6 /\ seedAt' \in 0..66 /\ seeds' \in 0..MaxSeeds
    BY <1>1, <1>2, SeedNumbers DEF SeedTypeOK
  <2>3. audited' \in BOOLEAN /\ whole' \in BOOLEAN /\ numbers' \subseteq Nat /\ nextNumber' \in Nat
    BY <1>1, <1>2 DEF SeedTypeOK, MoveItem, Works
  <2> QED BY <1>7, <1>8, <1>9, <2>1, <2>2, <2>3, SeedNumbers DEF SeedTypeOK
<1>11. MeetingsFirst'
  BY <1>1, <1>2, <1>3 DEF MeetingsFirst
<1>12. HistoriesInTurn'
  BY <1>1, <1>2, <1>6 DEF HistoriesInTurn
<1>13. NumbersStayFree' /\ WholeIsWhole'
  BY <1>1, <1>2, <1>6 DEF NumbersStayFree, InUse, WholeIsWhole
<1>14. AsWritten'
  BY <1>1, <1>2, <1>8 DEF AsWritten
<1> QED BY <1>1, <1>2, <1>10, <1>11, <1>12, <1>13, <1>14 DEF SeedInv

LEMMA CreateTaskKeeps == ASSUME SeedInv, CreateTask PROVE SeedInv'
<1>1. /\ works' = works + 1 /\ ~whole' /\ works < MaxWorks /\ nextNumber' = nextNumber + 1
      /\ numbers' = numbers \/ numbers' = numbers \cup {nextNumber}
      /\ UNCHANGED <<shown, inReview, audited, seedAt, seeds, rows, unanswered>>
  BY DEF CreateTask, Works
<1>2. /\ SeedTypeOK /\ IsFiniteSet(numbers) /\ MeetingsFirst /\ HistoriesInTurn
      /\ NumbersStayFree /\ AsWritten /\ WholeIsWhole
  BY DEF SeedInv
<1>3. works' \in 0..MaxWorks /\ works' # 0 /\ nextNumber' \in Nat /\ numbers' \subseteq Nat
  <2>1. works' \in 0..MaxWorks /\ works' # 0
    BY <1>1, <1>2, SeedAssumption DEF SeedTypeOK
  <2> QED BY <1>1, <2>1, SeedTypes
<1>4. SeedTypeOK'
  <2>1. audited' \in BOOLEAN /\ whole' \in BOOLEAN
    BY <1>2 DEF SeedTypeOK, CreateTask, Works
  <2> QED BY <1>1, <1>2, <1>3, <2>1 DEF SeedTypeOK
<1>5. IsFiniteSet(numbers')
  BY <1>1, <1>2, FS_AddElement
<1>6. MeetingsFirst' /\ HistoriesInTurn' /\ WholeIsWhole'
  BY <1>1, <1>2 DEF MeetingsFirst, HistoriesInTurn, WholeIsWhole
<1>7. NumbersStayFree'
  <2>1. InUse \subseteq Nat /\ nextNumber \in Nat
    BY SeedTypes DEF InUse
  <2>2. InUse' \subseteq InUse \cup {nextNumber}
    BY <1>1 DEF InUse
  <2>3. (\A n \in InUse : n < nextNumber) => \A n \in InUse' : n < nextNumber'
    BY <1>1, <2>1, <2>2
  <2> QED BY <1>1, <1>2, <2>3 DEF NumbersStayFree
<1>8. AsWritten'
  BY <1>1, <1>2, <1>3 DEF AsWritten
<1> QED BY <1>4, <1>5, <1>6, <1>7, <1>8 DEF SeedInv

(* The greatest number in use, and the end of a run.                        *)
LEMMA NumbersAdvance == ASSUME SeedInv, AdvanceNumbers PROVE SeedInv'
<1>1. /\ seedAt = 65 /\ seedAt' = 66 /\ nextNumber' = Top(InUse) + 1
      /\ UNCHANGED <<shown, rows, unanswered, inReview, audited, numbers, seeds, works, whole>>
  BY SeedNumbers DEF AdvanceNumbers
<1>2. /\ SeedTypeOK /\ IsFiniteSet(numbers) /\ MeetingsFirst /\ HistoriesInTurn
      /\ NumbersStayFree /\ AsWritten /\ WholeIsWhole
  BY DEF SeedInv
<1>3. Top(InUse) \in InUse /\ Top(InUse) \in Nat /\ \A n \in InUse : n <= Top(InUse) /\ n \in Nat
  <2>1. DOMAIN rows = 1..Len(rows) /\ Len(rows) \in Nat /\ 1 \in DOMAIN rows /\ numbers \subseteq Nat
    BY <1>1, <1>2, SeedTypes DEF HistoriesInTurn
  <2>2. InUse \in SUBSET Nat /\ InUse # {}
    <3>1. DOMAIN rows \subseteq Nat
      BY <2>1
    <3> QED BY <2>1, <3>1 DEF InUse
  <2>3. IsFiniteSet(DOMAIN rows)
    BY <2>1, FS_Interval
  <2>4. IsFiniteSet(InUse)
    BY <1>2, <2>3, FS_Union DEF InUse
  <2>5. \E n \in InUse : \A m \in InUse : m <= n
    BY <2>2, <2>4, GreatestOfNaturals
  <2> QED BY <2>2, <2>5 DEF Top
<1>4. \A n \in InUse' : n < nextNumber'
  <2>1. InUse' = InUse
    BY <1>1 DEF InUse
  <2> QED BY <1>1, <1>3, <2>1
<1>5. SeedTypeOK'
  BY <1>1, <1>2, <1>3, SeedNumbers DEF SeedTypeOK
<1>6. MeetingsFirst' /\ WholeIsWhole'
  BY <1>1, <1>2, SeedNumbers DEF MeetingsFirst, WholeIsWhole
<1>7. HistoriesInTurn'
  BY <1>1, <1>2 DEF HistoriesInTurn
<1>8. NumbersStayFree'
  BY <1>1, <1>2, <1>4 DEF NumbersStayFree
<1>9. AsWritten'
  BY <1>1, <1>2, SeedNumbers DEF AsWritten
<1> QED BY <1>1, <1>2, <1>5, <1>6, <1>7, <1>8, <1>9 DEF SeedInv

LEMMA SeedSystemKeeps == ASSUME SeedInv, SeedSystem PROVE SeedInv'
<1>1. /\ seedAt = 66 /\ seedAt' = 0 /\ audited' = TRUE /\ whole' = (works = 0)
      /\ UNCHANGED <<shown, rows, unanswered, inReview, numbers, nextNumber, seeds, works>>
  BY SeedNumbers DEF SeedSystem
<1>2. /\ SeedTypeOK /\ IsFiniteSet(numbers) /\ MeetingsFirst /\ HistoriesInTurn
      /\ NumbersStayFree /\ AsWritten /\ WholeIsWhole
  BY DEF SeedInv
<1>3. ASSUME NEW n \in 1..47
      PROVE  n \in DOMAIN rows /\ rows[n].log = Log(Items[n])
  <2>1. n < seedAt - 15
    BY <1>1
  <2> QED BY <1>2, <2>1 DEF HistoriesInTurn
<1>4. Len(rows) = 47
  <2> DEFINE len == Len(rows)
  <2>1. 47 \in 1..len /\ len \in Nat /\ len <= 47
    BY <1>3, SeedTypes
  <2> HIDE DEF len
  <2>2. len = 47
    BY <2>1
  <2> QED BY <2>2 DEF len
<1>5. whole' \in BOOLEAN
  BY <1>1
<1>6. SeedTypeOK'
  BY <1>1, <1>2, <1>5, SeedNumbers DEF SeedTypeOK
<1>7. MeetingsFirst' /\ HistoriesInTurn'
  BY <1>1, <1>2, SeedNumbers DEF MeetingsFirst, HistoriesInTurn
<1>8. NumbersStayFree'
  BY <1>1, <1>2, <1>4, SeedNumbers DEF NumbersStayFree, InUse
<1>9. AsWritten'
  BY <1>1, <1>2, SeedNumbers DEF AsWritten
<1>10. WholeIsWhole'
  <2>1. works = 0 => unanswered = {Proposed}
    BY <1>1, <1>2, SeedNumbers DEF AsWritten
  <2>2. inReview = 1..6
    BY <1>1, <1>2, SeedNumbers DEF AsWritten
  <2> QED BY <1>1, <1>3, <2>1, <2>2 DEF WholeIsWhole
<1> QED BY <1>1, <1>2, <1>6, <1>7, <1>8, <1>9, <1>10 DEF SeedInv

LEMMA SeedInvKept == SeedInv /\ [SeedNext]_seedVars => SeedInv'
<1> SUFFICES ASSUME SeedInv, [SeedNext]_seedVars PROVE SeedInv'
  OBVIOUS
<1> USE SeedNumbers
<1>1. /\ SeedTypeOK /\ IsFiniteSet(numbers) /\ MeetingsFirst /\ HistoriesInTurn
      /\ NumbersStayFree /\ AsWritten /\ WholeIsWhole
  BY DEF SeedInv
<1>2. CASE BeginSeed
  <2>1. SeedTypeOK'
    <3>1. seedAt' \in 0..66 /\ seeds' \in 0..MaxSeeds
      BY <1>1, <1>2, SeedAssumption DEF BeginSeed, SeedTypeOK
    <3>2. whole' \in BOOLEAN
      BY <1>2 DEF BeginSeed
    <3> QED BY <1>1, <1>2, <3>1, <3>2 DEF BeginSeed, SeedTypeOK
  <2>2. IsFiniteSet(numbers') /\ MeetingsFirst' /\ HistoriesInTurn'
    BY <1>1, <1>2, SeedTypes DEF BeginSeed, MeetingsFirst, HistoriesInTurn
  <2>3. NumbersStayFree' /\ AsWritten' /\ WholeIsWhole'
    BY <1>1, <1>2 DEF BeginSeed, NumbersStayFree, AsWritten, WholeIsWhole, InUse
  <2> QED BY <2>1, <2>2, <2>3 DEF SeedInv
<1>3. CASE SeedMeeting
  <2>1. SeedTypeOK'
    BY <1>1, <1>3 DEF SeedMeeting, SeedTypeOK
  <2>2. MeetingsFirst'
    BY <1>1, <1>3 DEF SeedMeeting, MeetingsFirst, SeedTypeOK
  <2>3. IsFiniteSet(numbers') /\ HistoriesInTurn'
    <3>1. \A n \in 1..47 : ~(n < seedAt' - 15)
      BY <1>3 DEF SeedMeeting
    <3> QED BY <1>1, <1>3, <3>1 DEF SeedMeeting, HistoriesInTurn
  <2>4. NumbersStayFree' /\ AsWritten' /\ WholeIsWhole'
    BY <1>1, <1>3 DEF SeedMeeting, NumbersStayFree, AsWritten, WholeIsWhole, InUse
  <2> QED BY <2>1, <2>2, <2>3, <2>4 DEF SeedInv
<1>4. CASE SeedProposal
  <2>1. SeedTypeOK'
    BY <1>1, <1>4 DEF SeedProposal, SeedTypeOK
  <2>2. IsFiniteSet(numbers') /\ MeetingsFirst' /\ HistoriesInTurn'
    BY <1>1, <1>4 DEF SeedProposal, MeetingsFirst, HistoriesInTurn
  <2>3. NumbersStayFree' /\ AsWritten' /\ WholeIsWhole'
    BY <1>1, <1>4 DEF SeedProposal, NumbersStayFree, AsWritten, WholeIsWhole, InUse
  <2> QED BY <2>1, <2>2, <2>3 DEF SeedInv
<1>5. CASE SeedReviews
  <2>1. SeedTypeOK'
    BY <1>1, <1>5 DEF SeedReviews, SeedTypeOK
  <2>2. IsFiniteSet(numbers') /\ MeetingsFirst' /\ HistoriesInTurn'
    BY <1>1, <1>5 DEF SeedReviews, MeetingsFirst, HistoriesInTurn
  <2>3. NumbersStayFree' /\ AsWritten' /\ WholeIsWhole'
    BY <1>1, <1>5 DEF SeedReviews, NumbersStayFree, AsWritten, WholeIsWhole, InUse
  <2> QED BY <2>1, <2>2, <2>3 DEF SeedInv
<1>6. CASE SeedDies
  <2>1. SeedTypeOK'
    BY <1>1, <1>6 DEF SeedDies, SeedTypeOK
  <2>2. IsFiniteSet(numbers') /\ MeetingsFirst' /\ HistoriesInTurn'
    BY <1>1, <1>6 DEF SeedDies, MeetingsFirst, HistoriesInTurn
  <2>3. NumbersStayFree' /\ AsWritten' /\ WholeIsWhole'
    BY <1>1, <1>6 DEF SeedDies, NumbersStayFree, AsWritten, WholeIsWhole, InUse
  <2> QED BY <2>1, <2>2, <2>3 DEF SeedInv
<1>7. CASE UNCHANGED seedVars
  BY <1>1, <1>7 DEF seedVars, SeedInv, SeedTypeOK, MeetingsFirst, HistoriesInTurn, NumbersStayFree,
                    AsWritten, WholeIsWhole, InUse
<1> QED BY <1>2, <1>3, <1>4, <1>5, <1>6, <1>7, SeedItemKeeps, NumbersAdvance, SeedSystemKeeps,
           CreateTaskKeeps, MoveItemKeeps DEF SeedNext

LEMMA SeedInvHolds == SeedSpec => []SeedInv
<1>1. SeedInit => SeedInv
  BY SeedInvStarts
<1> QED BY <1>1, SeedInvKept, PTL DEF SeedSpec

(* Every history in the demonstration is legal and every quote of it found. *)
LEMMA RowsAreTold ==
  ASSUME SeedInv, NEW n \in DOMAIN rows
  PROVE  IsChain(rows[n].log) /\ \A quote \in Items[n].quotes : Quoted(quote)
<1>1. n \in 1..47 /\ rows # <<>>
  <2> DEFINE len == Len(rows)
  <2>1. n \in 1..len /\ len \in Nat /\ len <= 47
    BY SeedTypes
  <2>2. rows # <<>>
    OBVIOUS
  <2> HIDE DEF len
  <2>3. n \in 1..47
    BY <2>1
  <2> QED BY <2>2, <2>3
<1>2. shown = 15
  BY <1>1 DEF SeedInv, MeetingsFirst
<1>3. IsChain(<<>>)
  BY DEF IsChain
<1>4. IsChain(Log(Items[n]))
  BY <1>1, ItemsTell DEF Telling
<1>5. IsChain(rows[n].log)
  BY <1>3, <1>4 DEF SeedInv, HistoriesInTurn
<1> QED BY <1>1, <1>2, <1>5, QuotesAreFound

(* A whole demonstration shows what the platform could have made.           *)
LEMMA WholeIsCoherent ==
  ASSUME SeedInv, whole, NEW n \in 1..47
  PROVE  LET log == rows[n].log IN
         /\ log[Len(log)] = rows[n].status
         /\ rows[n].status = "COMPLETION_PROPOSED" <=> n \in unanswered
         /\ rows[n].status = "PROPOSED" => \E r \in inReview : Reviews[r].about = n
         /\ (rows[n].status = "COMPLETED" /\ ~Items[n].legacy) <=> (audited /\ n \in AuditedApprovals)
         /\ \A c \in AuditedChanges : c[1] = n =>
              \E i \in 1..(Len(log) - 1) : log[i] = c[2] /\ log[i + 1] = c[3]
<1>1. /\ audited /\ unanswered = {Proposed} /\ inReview = 1..6 /\ works = 0
      /\ n \in DOMAIN rows /\ rows[n].log = Log(Items[n])
  BY DEF SeedInv, WholeIsWhole
<1>2. rows[n].status = Items[n].status
  BY <1>1 DEF SeedInv, AsWritten
<1>3. Marked(Items[n], n)
  BY ItemsFit DEF Fits
<1>4. Log(Items[n])[Len(Log(Items[n]))] = Items[n].status
  BY ItemsTell DEF Telling
<1>5. Items[n].status = "COMPLETION_PROPOSED" <=> n \in unanswered
  BY <1>1, <1>3 DEF Marked
<1>6. Items[n].status = "PROPOSED" => \E r \in 1..6 : Reviews[r].about = n
  <2>1. Reviews[2].about = 14 /\ Reviews[3].about = 22 /\ Reviews[4].about = 29
    BY DEF Reviews
  <2> QED BY <1>3, <2>1 DEF Marked
<1>7. (Items[n].status = "COMPLETED" /\ ~Items[n].legacy) <=> n \in AuditedApprovals
  BY <1>3 DEF Marked
<1>8. ASSUME NEW c \in AuditedChanges, c[1] = n
      PROVE  \E i \in 1..(Len(Log(Items[n])) - 1) :
               Log(Items[n])[i] = c[2] /\ Log(Items[n])[i + 1] = c[3]
  BY <1>8, ChangesAreTold
<1> QED BY <1>1, <1>2, <1>4, <1>5, <1>6, <1>7, <1>8

(* The script and the people keep the types.                                *)
THEOREM SeedTypesHold == SeedSpec => []SeedTypeOK
BY SeedInvHolds, PTL DEF SeedInv

(* Whatever died and however often it was run again, over whatever people   *)
(* did: the histories stored are legal chains and quote stored transcripts, *)
(* numbers once free stay free, and what a whole run leaves could have been *)
(* made by the platform.                                                    *)
THEOREM DemoIsAlwaysCoherent == SeedSpec => []DemoIsCoherent
<1>1. ASSUME SeedInv PROVE DemoIsCoherent
  <2>1. NumbersAreFree
    BY <1>1 DEF SeedInv, NumbersStayFree, NumbersAreFree
  <2> QED BY <1>1, <2>1, RowsAreTold, WholeIsCoherent, SeedNumbers DEF DemoIsCoherent
<1> QED BY <1>1, SeedInvHolds, PTL

----------------------------------------------------------------------------
(* Together.                                                                *)

(* Fewer administrators with fewer forms do nothing that all of them could  *)
(* not.                                                                     *)
LEMMA SomeFormsAreForms ==
  ASSUME NEW working \in SUBSET Admins, NEW kinds \in SUBSET FormKinds, AdminNext(working, kinds)
  PROVE  AdminNext(Admins, FormKinds)
<1>1. PICK a \in working :
        \/ "settings" \in kinds /\ OpenSettings(a)
        \/ "user" \in kinds /\ \E u \in People : OpenUser(a, u)
        \/ "area" \in kinds /\ \E k \in AreaIds : OpenArea(a, k)
        \/ "project" \in kinds /\ \E p \in ProjectIds : OpenProject(a, p)
        \/ ChangeSettings(a) \/ ChangeUser(a) \/ ChangeArea(a) \/ ChangeProject(a)
        \/ CloseForm(a) \/ RenderPage(a) \/ SendForm(a)
        \/ ReadPlatform(a) \/ UpdateUser(a) \/ UpdateSettings(a)
        \/ CheckArea(a) \/ WriteArea(a) \/ UpsertProject(a)
        \/ AnswerForm(a) \/ RefuseForm(a)
  BY Zenon DEF AdminNext
<1>2. a \in Admins
  OBVIOUS
<1> QED BY <1>1, <1>2 DEF AdminNext

(* What the bounds of the instance let administrators do is a step of       *)
(* Administration.                                                          *)
LEMMA AdministratorsMove ==
  ASSUME \/ AdminNext(Admins, {"settings", "user"})
         \/ AdminNext(Admins, {"area"})
         \/ \E a \in Admins : Alone(a) /\ AdminNext({a}, {"project"})
  PROVE  AdminNext(Admins, FormKinds)
<1>1. CASE AdminNext(Admins, {"settings", "user"})
  BY <1>1, SomeFormsAreForms DEF FormKinds
<1>2. CASE AdminNext(Admins, {"area"})
  BY <1>2, SomeFormsAreForms DEF FormKinds
<1>3. ASSUME NEW a \in Admins, AdminNext({a}, {"project"})
      PROVE  AdminNext(Admins, FormKinds)
  BY <1>3, SomeFormsAreForms DEF FormKinds
<1> QED BY <1>1, <1>2, <1>3

(* Every behaviour of the office is one of each of its parts, which rests   *)
(* while another is in focus.                                               *)
THEOREM OfficeImplementsItsParts ==
  Spec => /\ ReviewSpec /\ MailSpec /\ ImportSpec /\ SeedSpec /\ ListsSpec /\ PageSpec
          /\ SheetsSpec /\ GeminiSpec /\ DeskSpec /\ AdminSpec
<1>1. Init => /\ ReviewInit /\ MailInit /\ ImportInit /\ SeedInit /\ ListsInit /\ PageInit
              /\ SheetsInit /\ GeminiInit /\ DeskInit /\ AdminInit
  BY DEF Init
<1>2. ASSUME [Next]_AllVars
      PROVE  /\ [ReviewNext]_reviewVars /\ [MailNext]_mailVars /\ [ImportNext]_importVars
             /\ [SeedNext]_seedVars /\ [ListsNext]_listVars /\ [PageNext]_pageVars
             /\ [SheetsNext]_sheetVars /\ [GeminiNext]_geminiVars /\ [DeskNext]_deskVars
             /\ [AdminNext(Admins, FormKinds)]_adminVars
  <2>1. AdminNext(Admins, FormKinds) \/ UNCHANGED adminVars
    BY <1>2, AdministratorsMove DEF Next, AllVars
  <2>2. /\ [ReviewNext]_reviewVars /\ [MailNext]_mailVars /\ [ImportNext]_importVars
        /\ [SeedNext]_seedVars /\ [ListsNext]_listVars
    BY <1>2 DEF Next, AllVars
  <2>3. /\ [PageNext]_pageVars /\ [SheetsNext]_sheetVars /\ [GeminiNext]_geminiVars
        /\ [DeskNext]_deskVars
    BY <1>2 DEF Next, AllVars
  <2> QED BY <2>1, <2>2, <2>3
<1> QED BY <1>1, <1>2, PTL
        DEF Spec, ReviewSpec, MailSpec, ImportSpec, SeedSpec, ListsSpec, PageSpec, SheetsSpec,
            GeminiSpec, DeskSpec, AdminSpec

(* Every part keeps its types in the office.                                *)
THEOREM OfficeTypesHold == Spec => []OfficeTypesOK
<1>1. ASSUME ReviewTypeOK, MailTypeOK, ImportTypeOK, SeedTypeOK, ListsTypeOK, PageTypeOK,
             SheetsTypeOK, GeminiTypeOK, DeskTypeOK, AdminTypeOK
      PROVE  OfficeTypesOK
  BY <1>1 DEF OfficeTypesOK
<1> QED BY <1>1, OfficeImplementsItsParts, ReviewTypesHold, MailTypesHold, ImportTypesHold,
           SeedTypesHold, ListsTypesHold, PageTypesHold, SheetsTypesHold, GeminiTypesHold,
           DeskTypesHold, AdminTypesHold, PTL

(* What the parts promise holds of the office as it is run: of the review,  *)
(* the mails, the lists, the pages, the spreadsheet, the model adapter, the *)
(* screens and the demonstration, and of imports run one at a time.         *)
THEOREM OfficeIsSafe ==
  ASSUME OneOperator
  PROVE  Spec => [](/\ NothingUnvettedIsActive /\ ProposedCanBeAnswered
                    /\ ApprovedIsAccepted /\ CompletedHasNothingOpen
                    /\ SentWasDelivered /\ RetriesMailOnce
                    /\ ImportedOnce /\ CountsAgree /\ ListsAreExact /\ OwnWorkIsShown
                    /\ SyncedIsCurrent /\ DecisionsAreMeant /\ SavesAreKept /\ DemoIsCoherent
                    /\ HeardWhole)
<1>1. ImportSpec => []ImportedOnce
  BY ImportsOnlyOnce
<1> QED BY <1>1, SyncedIsAlwaysCurrent, OfficeImplementsItsParts, UnvettedStayProposals,
           ProposalsCanBeAnswered,
           ApprovalsAreKept, CompletedIsQuiet, SentDigestsWereDelivered, RetriesDeliverOnce,
           CountsAlwaysAgree, ListsAreAlwaysExact, OwnWorkIsAlwaysShown,
           DecisionsAreAlwaysMeant, SavesAreAlwaysKept, DemoIsAlwaysCoherent, AllIsAlwaysHeard,
           PTL

(* And what no step of the office does.                                     *)
THEOREM OfficeStepsAreSafe ==
  Spec => AnalysisNeverDecides /\ WorkIsKept /\ FreshOffersStand
BY OfficeImplementsItsParts, AnalysesNeverDecide, WorkIsAlwaysKept, FreshOffersAlwaysStand, PTL

=============================================================================
