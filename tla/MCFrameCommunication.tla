------------------------- MODULE MCFrameCommunication -------------------------
(* A page with one frame, and the requests its windows send: top asks the  *)
(* frame, the frame asks top, and axe-core in top sends the frame a        *)
(* request for one answer.                                                 *)
EXTENDS FrameCommunication

CONSTANTS top, frame, down, up, one, find, dialog

MCMessage == Request \X (0..MaxResponses)
MCSender == [r \in Request |-> IF r = up THEN frame ELSE top]
MCTarget == [r \in Request |-> IF r = up THEN top ELSE frame]
MCDestination == [m \in MCMessage |-> IF m[2] = 0 THEN MCTarget[m[1]] ELSE MCSender[m[1]]]
MCCommandOf == [r \in Request |-> CASE r = down -> find
                                    [] r = up -> dialog
                                    [] OTHER -> PostCommand]
MCKind == [r \in Request |-> IF r = one THEN "single" ELSE "promise"]
MCParent == [w \in Window |-> IF w = top THEN Null ELSE top]
\* Nothing in top has registered for dialogs yet.
MCListener == {<<top, find>>, <<frame, find>>}
MCContent == {"request", "value", "nothing", "error"}

=============================================================================
