------------------------- MODULE MCVisualizationStore -------------------------
(* A small instance of the visualization store on its own.                 *)
EXTENDS VisualizationStore, TLC

CONSTANTS headings, landmarks, h1, h2, l1

MCAssessmentOf == (h1 :> headings) @@ (h2 :> headings) @@ (l1 :> landmarks)

=============================================================================
