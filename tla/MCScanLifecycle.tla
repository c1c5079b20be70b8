--------------------------- MODULE MCScanLifecycle ---------------------------
(* Small instances of the scan life cycle of a page.                       *)
EXTENDS ScanLifecycle

CONSTANT headings

MCAssessmentOf == [r \in Requirement |-> headings]

=============================================================================
