-------------------------- MODULE MeetingPipelineMC --------------------------
(***************************************************************************)
(* MeetingPipeline with the sets TLC needs to fold interchangeable jobs.   *)
(***************************************************************************)
EXTENDS MeetingPipeline, TLC

(* The jobs of a queue are interchangeable, and no property names one.      *)
SymmetricJobs == Permutations(Fetches) \cup Permutations(Analyses)
=============================================================================
