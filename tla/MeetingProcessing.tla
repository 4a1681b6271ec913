-------------------------- MODULE MeetingProcessing --------------------------
(***************************************************************************)
(* The processing status of a meeting and its transition table, as the     *)
(* domain package states them in rules/meeting-processing.ts.              *)
(***************************************************************************)

ProcessingStatus ==
  {"DISCOVERED", "WAITING_FOR_ARTIFACTS", "ARTIFACTS_AVAILABLE", "INGESTING",
   "INGESTED", "ANALYZING", "ANALYZED", "REVIEW_REQUIRED", "COMPLETED",
   "FAILED", "EXCLUDED"}

Transitions ==
  [s \in ProcessingStatus |->
     CASE s = "DISCOVERED" ->
            {"WAITING_FOR_ARTIFACTS", "ARTIFACTS_AVAILABLE", "EXCLUDED", "FAILED"}
       [] s = "WAITING_FOR_ARTIFACTS" ->
            {"ARTIFACTS_AVAILABLE", "EXCLUDED", "FAILED", "COMPLETED"}
       [] s = "ARTIFACTS_AVAILABLE" -> {"INGESTING", "EXCLUDED", "FAILED"}
       [] s = "INGESTING" -> {"INGESTED", "FAILED"}
       [] s = "INGESTED" -> {"ANALYZING", "EXCLUDED", "COMPLETED", "FAILED"}
       [] s = "ANALYZING" -> {"ANALYZED", "FAILED"}
       [] s = "ANALYZED" -> {"REVIEW_REQUIRED", "COMPLETED", "ANALYZING"}
       [] s = "REVIEW_REQUIRED" -> {"COMPLETED", "ANALYZING"}
       [] s = "COMPLETED" -> {"ANALYZING", "EXCLUDED"}
       [] s = "FAILED" ->
            {"ARTIFACTS_AVAILABLE", "INGESTING", "ANALYZING", "EXCLUDED",
             "WAITING_FOR_ARTIFACTS"}
       [] s = "EXCLUDED" -> {"DISCOVERED"}]

CanTransitionProcessing(from, to) == from # to /\ to \in Transitions[from]

(* setProcessingStatus: a row already there is no error.                    *)
CanSetProcessing(from, to) == from = to \/ CanTransitionProcessing(from, to)
=============================================================================
