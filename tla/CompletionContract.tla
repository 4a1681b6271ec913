-------------------------- MODULE CompletionContract --------------------------
(***************************************************************************)
(* What the platform promises about closing tasks, free of rows, sessions  *)
(* and permissions (ADR-010): a task is closed only while it waits for     *)
(* review, each closure uses up one review of its own, the next instance   *)
(* of a recurring task opens in the very step that closes the one before,  *)
(* and what is closed comes back only by reopening.                        *)
(***************************************************************************)
CONSTANTS
  Tasks,    \* tasks
  Reviews   \* the reviews that can be granted

VARIABLES
  phase,    \* where each task stands
  granted   \* the reviews that closed something

contract == <<phase, granted>>

Phases == {"absent", "open", "awaiting", "closed", "dropped"}

ContractInit ==
  /\ phase = [t \in Tasks |-> "absent"]
  /\ granted = {}

(* Every move of a task except closing it.                                  *)
Moves ==
  {<<"absent", "open">>, <<"open", "awaiting">>, <<"awaiting", "open">>,
   <<"open", "dropped">>, <<"awaiting", "dropped">>, <<"dropped", "open">>,
   <<"closed", "open">>}

Move(t) ==
  /\ \E m \in Moves : phase[t] = m[1] /\ phase' = [phase EXCEPT ![t] = m[2]]
  /\ UNCHANGED granted

Close(t) ==
  /\ phase[t] = "awaiting"
  /\ \E v \in Reviews \ granted : granted' = granted \cup {v}
  /\ \/ phase' = [phase EXCEPT ![t] = "closed"]
     \/ \E next \in Tasks :
          /\ phase[next] = "absent"
          /\ phase' = [phase EXCEPT ![t] = "closed", ![next] = "open"]

ContractNext == \E t \in Tasks : Move(t) \/ Close(t)

ContractSpec == ContractInit /\ [][ContractNext]_contract
=============================================================================
