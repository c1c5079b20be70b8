------------------------- MODULE MCAssessmentResults -------------------------
(* A small assessment: two automated checks, a requirement the user judges      *)
(* instance by instance, one the user decides, and one with tab stops.         *)
EXTENDS AssessmentResults, TLC

CONSTANTS check1, check2, assisted, manual, tracked

MCOutcome ==
  [r \in Requirement |-> CASE r = check1 -> {"FAIL"} [] r \in {check2, tracked} -> {} [] OTHER -> {"UNKNOWN"}]

\* Saved when one of the automated checks had been scanned and the manual
\* requirement had failed.
MCFile ==
  {[target |-> TRUE,
    reqs |-> [r \in Requirement |->
      CASE r = check1 -> [Default EXCEPT !.scanned = TRUE, !.final = "PASS"]
        [] r = manual -> [Default EXCEPT !.status = "FAIL", !.failures = 1, !.final = "FAIL"]
        [] OTHER -> Default]]}

MCSymmetry == Permutations(Instance)
=============================================================================
