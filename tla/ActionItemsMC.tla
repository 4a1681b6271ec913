---------------------------- MODULE ActionItemsMC ----------------------------
(***************************************************************************)
(* ActionItems with the set TLC needs to fold interchangeable members.     *)
(***************************************************************************)
EXTENDS ActionItems, TLC

(* Proposals are interchangeable, and no property tells two of them apart.  *)
SymmetricProposals == Permutations(Proposals)
=============================================================================
