----------------------------- MODULE ScanSession -----------------------------
(***************************************************************************)
(* What the visualization store of one target page promises to the rest of *)
(* the extension: a set of visualizations that are switched on, at most    *)
(* one of which is being scanned, and which nobody may change while that   *)
(* scan runs, except by ending it or by leaving the page.                  *)
(***************************************************************************)

CONSTANTS
  Key,    \* identifiers of scans: ad hoc tests and assessment requirements
  Null    \* "no scan is running"

VARIABLES
  on,        \* the keys whose visualization is switched on
  scanning   \* the key being scanned, or Null

vars == <<on, scanning>>

Init ==
  /\ on = {}
  /\ scanning = Null

\* A scan of k begins: k is switched on, and others may be switched off for it.
Begin(k) ==
  /\ scanning = Null
  /\ scanning' = k
  /\ on' \in SUBSET (on \cup {k})
  /\ k \in on'

\* Visualizations are switched without a scan; at most one of them on.
Adjust(k) ==
  /\ scanning = Null
  /\ on' \in SUBSET (on \cup {k})
  /\ UNCHANGED scanning

Finish ==
  /\ scanning # Null
  /\ scanning' = Null
  /\ UNCHANGED on

\* The target page was left: nothing is on and nothing is scanned.
Leave ==
  /\ on' = {}
  /\ scanning' = Null

Next ==
  \/ \E k \in Key : Begin(k) \/ Adjust(k)
  \/ Finish
  \/ Leave

Spec == Init /\ [][Next]_vars

=============================================================================
