----------------------- MODULE ActionItemStateMachine -----------------------
(***************************************************************************)
(* The transition rules of a task (ActionItem), as the domain package      *)
(* states them in rules/action-item-state-machine.ts.  Pure operators: the *)
(* modules that own state decide when to consult them.                     *)
(***************************************************************************)

Status == {"PROPOSED", "PENDING", "IN_PROGRESS", "BLOCKED", "WAITING",
           "COMPLETION_PROPOSED", "COMPLETED", "CANCELLED"}

Actors == {"USER", "AI", "SYSTEM", "IMPORT"}

(* The statuses a closure can be proposed from: OPEN_FOR_PROPOSAL.          *)
OpenForProposal == {"PENDING", "IN_PROGRESS", "BLOCKED", "WAITING"}

(* A human or the system moves freely between the open statuses, proposes a *)
(* closure or cancels; the remaining rows are listed one by one.            *)
HumanTransitions ==
  [s \in Status |->
     CASE s \in OpenForProposal ->
            (OpenForProposal \cup {"COMPLETION_PROPOSED", "CANCELLED"}) \ {s}
       [] s = "PROPOSED" -> {"PENDING", "IN_PROGRESS", "CANCELLED"}
       [] s = "COMPLETION_PROPOSED" ->
            {"COMPLETED", "PENDING", "IN_PROGRESS", "CANCELLED"}
       [] s = "COMPLETED" -> {"IN_PROGRESS"}
       [] s = "CANCELLED" -> {"PENDING"}]

(* The AI only ever proposes the closure of an open task.                   *)
AiTransitions ==
  [s \in Status |->
     IF s \in OpenForProposal THEN {"COMPLETION_PROPOSED"} ELSE {}]

CanProposeCompletion(s) == s \in OpenForProposal

(* Mutant: the approval that COMPLETED requires is not asked for.           *)
CanTransitionUnapproved(from, to, actor, viaApprovedProposal) ==
  /\ from # to
  /\ \/ to = "COMPLETED" /\ from = "COMPLETION_PROPOSED" /\ actor = "USER"
     \/ /\ to # "COMPLETED"
        /\ \/ actor = "AI" /\ to \in AiTransitions[from]
           \/ actor \in {"USER", "SYSTEM"} /\ to \in HumanTransitions[from]

(* canTransition: COMPLETED has a rule of its own that the tables do not    *)
(* override; the importer has no transitions at all.                        *)
CanTransition(from, to, actor, viaApprovedProposal) ==
  /\ from # to
  /\ \/ /\ to = "COMPLETED"
        /\ from = "COMPLETION_PROPOSED"
        /\ viaApprovedProposal
        /\ actor = "USER"
     \/ /\ to # "COMPLETED"
        /\ \/ actor = "AI" /\ to \in AiTransitions[from]
           \/ actor \in {"USER", "SYSTEM"} /\ to \in HumanTransitions[from]
=============================================================================
