----------------------------- MODULE RemoteCalls -----------------------------
(***************************************************************************)
(* What communication between the windows of a page promises to a caller:  *)
(* a request is served at most once, by a listener of the window it was    *)
(* sent to; it is answered only after it was served, at most once unless   *)
(* the caller expects several answers; and once the caller has given up,   *)
(* or its document is gone, an answer no longer reaches it.                *)
(***************************************************************************)
EXTENDS Naturals

CONSTANTS
  Request,    \* identifiers of requests
  Patient,    \* the requests whose caller expects several answers
  Deadlined   \* the requests whose caller gives up after a while

VARIABLES
  phase,    \* "unsent", "waiting", "answered", "timedOut" or "abandoned"
  served,   \* the requests that a window has received
  answers   \* how many answers each caller has been given

vars == <<phase, served, answers>>

Init ==
  /\ phase = [r \in Request |-> "unsent"]
  /\ served = {}
  /\ answers = [r \in Request |-> 0]

Call(r) ==
  /\ phase[r] = "unsent"
  /\ phase' = [phase EXCEPT ![r] = "waiting"]
  /\ UNCHANGED <<served, answers>>

Serve(r) ==
  /\ phase[r] # "unsent"
  /\ r \notin served
  /\ served' = served \cup {r}
  /\ UNCHANGED <<phase, answers>>

Answer(r) ==
  /\ r \in served
  /\ phase[r] = "waiting"
  /\ answers' = [answers EXCEPT ![r] = @ + 1]
  /\ phase' = IF r \in Patient THEN phase ELSE [phase EXCEPT ![r] = "answered"]
  /\ UNCHANGED served

GiveUp(r) ==
  /\ r \in Deadlined
  /\ phase[r] = "waiting"
  /\ phase' = [phase EXCEPT ![r] = "timedOut"]
  /\ UNCHANGED <<served, answers>>

\* The documents of some callers are gone.
Abandon ==
  /\ phase' \in [Request -> {"unsent", "waiting", "answered", "timedOut", "abandoned"}]
  /\ \A r \in Request :
       \/ phase'[r] = phase[r]
       \/ phase[r] = "waiting" /\ phase'[r] = "abandoned"
  /\ UNCHANGED <<served, answers>>

Next ==
  \/ \E r \in Request : Call(r) \/ Serve(r) \/ Answer(r) \/ GiveUp(r)
  \/ Abandon

Spec == Init /\ [][Next]_vars

=============================================================================
