------------------------- MODULE ActionItemsContract -------------------------
(***************************************************************************)
(* The task commands seen through CompletionContract: the phase of a task  *)
(* is read off its status, a review is granted when its proposal is        *)
(* APPROVED.                                                               *)
(***************************************************************************)
EXTENDS ActionItems

PhaseOf(i) ==
  IF ~Exists(i) THEN "absent"
  ELSE CASE items[i].status = "COMPLETED" -> "closed"
         [] items[i].status = "CANCELLED" -> "dropped"
         [] items[i].status = "COMPLETION_PROPOSED" -> "awaiting"
         [] OTHER -> "open"

Phase == [i \in Items |-> PhaseOf(i)]

Granted == {p \in Proposals : proposals[p] # None /\ proposals[p].status = "APPROVED"}

Contract == INSTANCE CompletionContract
              WITH Tasks <- Items, Reviews <- Proposals,
                   phase <- Phase, granted <- Granted

(* Closing a task takes an approval of its own and nothing else closes it   *)
(* (approveCompletion and the COMPLETED rule of canTransition).             *)
KeepsContract == Contract!ContractSpec
=============================================================================
