-------------------------- MODULE VisualizationStore --------------------------
(***************************************************************************)
(* The visualization store of one target page                              *)
(* (background/stores/visualization-store.ts) and the message handlers of  *)
(* the action creator that drive it (background/actions/action-creator.ts).*)
(*                                                                         *)
(* The background page is single threaded and an action cannot be invoked  *)
(* from a listener of another one, so a handler is one atomic step.  It is *)
(* an operator on the store's state that returns the next state and the    *)
(* sequence of states the store emits to its listeners on the way: a       *)
(* handler that invokes two actions may emit twice, one that is ignored    *)
(* emits nothing.                                                          *)
(***************************************************************************)
EXTENDS Naturals, Sequences

CONSTANTS
  AdhocTest,      \* VisualizationTypes whose test mode is Adhoc
  Assessment,     \* VisualizationTypes whose test mode is Assessments
  Requirement,    \* keys of the steps of the assessments
  AssessmentOf,   \* the assessment each requirement belongs to
  Issues,         \* the two ad hoc tests that exclude one another
  NeedsReview,
  TabStops,       \* the ad hoc test that opening the details view leaves alone
  DetailsView,    \* the ad hoc tests the details view can select
  Pivot,          \* DetailsViewPivotType
  FastPass,       \* the pivot whose selected view the store remembers
  Target,         \* selectors a view may focus
  Null

\* What an ad hoc scan is called is the test's key; what an assessment's scan is
\* called is the requirement's.
Key == AdhocTest \cup Requirement
Test == AdhocTest \cup Assessment

ASSUME StoreAssumption ==
  /\ AdhocTest \cap Requirement = {}
  /\ AdhocTest \cap Assessment = {}
  /\ AssessmentOf \in [Requirement -> Assessment]
  /\ {Issues, NeedsReview, TabStops} \subseteq AdhocTest
  /\ Issues \in DetailsView /\ DetailsView \subseteq AdhocTest
  /\ Issues # NeedsReview
  /\ FastPass \in Pivot
  /\ Null \notin Key \cup Test \cup Pivot \cup Target

\* A requirement's stepStatus entry: not in the object, or false, or true.
StepStatus == {"unset", "off", "on"}

State ==
  [adhoc : [AdhocTest -> BOOLEAN],
   assessment : [Assessment -> BOOLEAN],
   step : [Requirement -> StepStatus],
   scanning : Key \cup {Null},
   injectingRequested : BOOLEAN,
   injectingStarted : BOOLEAN,
   pivot : Pivot,
   fastPassView : DetailsView,
   focusedTarget : Target \cup {Null}]

DefaultState ==
  [adhoc |-> [t \in AdhocTest |-> FALSE],
   assessment |-> [a \in Assessment |-> FALSE],
   step |-> [r \in Requirement |-> "unset"],
   scanning |-> Null,
   injectingRequested |-> FALSE,
   injectingStarted |-> FALSE,
   pivot |-> FastPass,
   fastPassView |-> Issues,
   focusedTarget |-> Null]

\* getTestStatus of a key's configuration.
IsOn(s, k) == IF k \in AdhocTest THEN s.adhoc[k] ELSE s.step[k] = "on"

-----------------------------------------------------------------------------
(* How a handler ends, and how a handler invokes two actions in a row.     *)

Emit(s) == [state |-> s, emitted |-> <<s>>]
Silent(s) == [state |-> s, emitted |-> <<>>]
Then(first, second) ==
  [state |-> second.state, emitted |-> first.emitted \o second.emitted]

-----------------------------------------------------------------------------
(* The handlers of the store's actions.                                    *)

\* A fault: a running scan does not hold the toggles.
TurnOffDuringScan(s, tests) ==
  [s EXCEPT
     !.adhoc = [t \in AdhocTest |-> s.adhoc[t] /\ t \notin tests],
     !.assessment = [a \in Assessment |-> s.assessment[a] /\ a \notin tests],
     !.step = [r \in Requirement |->
                 IF AssessmentOf[r] \in tests /\ s.step[r] = "on" THEN "off" ELSE s.step[r]]]

\* A fault: the assessment's flag is cleared and its steps are forgotten.
TurnOffKeepingSteps(s, tests) ==
  IF s.scanning # Null
  THEN s
  ELSE [s EXCEPT
         !.adhoc = [t \in AdhocTest |-> s.adhoc[t] /\ t \notin tests],
         !.assessment = [a \in Assessment |-> s.assessment[a] /\ a \notin tests]]

\* toggleTestOff for each test of a set: nothing while a scan runs.
TurnOff(s, tests) ==
  IF s.scanning # Null
  THEN s
  ELSE [s EXCEPT
         !.adhoc = [t \in AdhocTest |-> s.adhoc[t] /\ t \notin tests],
         !.assessment = [a \in Assessment |-> s.assessment[a] /\ a \notin tests],
         !.step = [r \in Requirement |->
                     IF /\ AssessmentOf[r] \in tests
                        /\ s.assessment[AssessmentOf[r]]
                        /\ s.step[r] # "unset"
                     THEN "off"
                     ELSE s.step[r]]]

OnDisableVisualization(s, test) ==
  IF s.scanning = Null /\ (test \in Assessment \/ s.adhoc[test])
  THEN Emit(TurnOff(s, {test}))
  ELSE Silent(s)

OnDisableAssessmentVisualizations(s) == Emit(TurnOff(s, Assessment))

\* A fault: an ad hoc test leaves the one it excludes on.
SwitchOnBoth(s, k) ==
  IF k \in AdhocTest
  THEN [s EXCEPT !.adhoc[k] = TRUE]
  ELSE [s EXCEPT !.assessment[AssessmentOf[k]] = TRUE, !.step[k] = "on"]

\* enableTest of a key's configuration.
SwitchOn(s, k) ==
  IF k \in AdhocTest
  THEN [s EXCEPT !.adhoc =
         [t \in AdhocTest |->
            \/ t = k
            \/ s.adhoc[t] /\ ~({t, k} = {Issues, NeedsReview})]]
  ELSE [s EXCEPT !.assessment[AssessmentOf[k]] = TRUE, !.step[k] = "on"]

\* A fault: the assessments are not turned off first.
EnableTestKeepingOthers(s, k, skipScanning) ==
  IF s.scanning # Null
  THEN Silent(s)
  ELSE Emit(SwitchOn([s EXCEPT !.scanning = IF skipScanning THEN Null ELSE k,
                               !.injectingRequested = TRUE], k))

\* A fault: a scan may start while another one runs.
EnableTestDuringScan(s, k, skipScanning) ==
  Emit(SwitchOn([TurnOff(s, Assessment) EXCEPT
                   !.scanning = IF skipScanning THEN Null ELSE k,
                   !.injectingRequested = TRUE], k))

EnableTest(s, k, skipScanning) ==
  IF s.scanning # Null
  THEN Silent(s)
  ELSE Emit(SwitchOn([TurnOff(s, Assessment) EXCEPT
                        !.scanning = IF skipScanning THEN Null ELSE k,
                        !.injectingRequested = TRUE],
                     k))

OnEnableVisualization(s, k) == EnableTest(s, k, FALSE)
OnEnableVisualizationWithoutScan(s, k) == EnableTest(s, k, TRUE)

\* A fault: the pivot changes and the tests stay on.
OnUpdateSelectedPivotKeeping(s, pivot) ==
  IF s.pivot # pivot THEN Emit([s EXCEPT !.pivot = pivot]) ELSE Silent(s)

OnUpdateSelectedPivot(s, pivot) ==
  IF s.pivot # pivot
  THEN Emit(TurnOff([s EXCEPT !.pivot = pivot], Test))
  ELSE Silent(s)

\* A fault: an absent pivot is taken for one.
OnUpdateSelectedPivotChildUnchecked(s, view, pivot) ==
  LET newView == IF view # Null /\ pivot = FastPass THEN view ELSE s.fastPassView
  IN  IF newView # s.fastPassView \/ pivot # s.pivot
      THEN Emit(TurnOff([s EXCEPT !.fastPassView = newView, !.pivot = pivot], Test))
      ELSE Silent(s)

OnUpdateSelectedPivotChild(s, view, pivot) ==
  LET newView == IF view # Null /\ pivot = FastPass THEN view ELSE s.fastPassView
      newPivot == IF pivot # Null THEN pivot ELSE s.pivot
  IN  IF newView # s.fastPassView \/ newPivot # s.pivot
      THEN Emit(TurnOff([s EXCEPT !.fastPassView = newView, !.pivot = newPivot], Test))
      ELSE Silent(s)

OnScanCompleted(s) == Emit([s EXCEPT !.scanning = Null])

OnScrollRequested(s) == Emit([s EXCEPT !.focusedTarget = Null])

OnUpdateFocusedInstance(s, target) == Emit([s EXCEPT !.focusedTarget = target])

\* A fault: the listeners do not hear of the start.
OnInjectionStartedSilent(s) ==
  Silent([s EXCEPT !.injectingRequested = TRUE, !.injectingStarted = TRUE])

OnInjectionStarted(s) ==
  IF s.injectingStarted
  THEN Silent(s)
  ELSE Emit([s EXCEPT !.injectingRequested = TRUE, !.injectingStarted = TRUE])

\* Two faults: only one of the two flags is cleared.
OnInjectionCompletedStillStarted(s) == Emit([s EXCEPT !.injectingRequested = FALSE])
OnInjectionCompletedStillRequested(s) == Emit([s EXCEPT !.injectingStarted = FALSE])

OnInjectionCompleted(s) ==
  Emit([s EXCEPT !.injectingRequested = FALSE, !.injectingStarted = FALSE])

OnExistingTabUpdated(s) ==
  Emit([DefaultState EXCEPT !.pivot = s.pivot, !.fastPassView = s.fastPassView])

OnGetCurrentState(s) == Emit(s)

-----------------------------------------------------------------------------
(* The handlers of the messages that the views send.                       *)

OnVisualizationToggle(s, test, enabled) ==
  IF enabled THEN OnEnableVisualization(s, test) ELSE OnDisableVisualization(s, test)

OnRescanVisualization(s, test) ==
  LET disabled == OnDisableVisualization(s, test)
  IN  Then(disabled, OnEnableVisualization(disabled.state, test))

\* Opening the details view on an ad hoc test other than TabStops switches it on.
OnDetailsViewOpen(s, view, pivot) ==
  LET toggled == IF view \in AdhocTest \ {TabStops}
                 THEN OnVisualizationToggle(s, view, TRUE)
                 ELSE Silent(s)
  IN  Then(toggled, OnUpdateSelectedPivotChild(toggled.state, view, pivot))

View == DetailsView \cup {Null}
PivotChoice == Pivot \cup {Null}

\* The outcomes of every message a view can send about visualizations.
ToggleOutcomes(s) ==
  {OnVisualizationToggle(s, t, on) : t \in AdhocTest, on \in BOOLEAN}
    \cup {OnRescanVisualization(s, t) : t \in AdhocTest}
AssessmentOutcomes(s) ==
  {OnEnableVisualization(s, r) : r \in Requirement}
    \cup {OnEnableVisualizationWithoutScan(s, r) : r \in Requirement}
    \cup {OnDisableVisualization(s, a) : a \in Assessment}
    \cup {OnDisableAssessmentVisualizations(s)}
NavigationOutcomes(s) ==
  {OnDetailsViewOpen(s, v, p) : v \in View, p \in PivotChoice}
    \cup {OnUpdateSelectedPivotChild(s, v, p) : v \in View, p \in PivotChoice}
    \cup {OnUpdateSelectedPivot(s, p) : p \in Pivot}
FocusOutcomes(s) ==
  {OnUpdateFocusedInstance(s, t) : t \in Target} \cup {OnScrollRequested(s)}

-----------------------------------------------------------------------------
(* The store on its own: its handlers run in any order.                    *)

VARIABLE vis

StoreInit == vis = DefaultState

Toggle == \E o \in ToggleOutcomes(vis) : vis' = o.state
UseAssessment == \E o \in AssessmentOutcomes(vis) : vis' = o.state
NavigateView == \E o \in NavigationOutcomes(vis) : vis' = o.state
Focus == \E o \in FocusOutcomes(vis) : vis' = o.state
CompleteScan == vis' = OnScanCompleted(vis).state
StartInjection == vis' = OnInjectionStarted(vis).state
CompleteInjection == vis' = OnInjectionCompleted(vis).state
UpdateTab == vis' = OnExistingTabUpdated(vis).state

StoreNext ==
  \/ Toggle
  \/ UseAssessment
  \/ NavigateView
  \/ Focus
  \/ CompleteScan
  \/ StartInjection
  \/ CompleteInjection
  \/ UpdateTab

StoreSpec == StoreInit /\ [][StoreNext]_vis

-----------------------------------------------------------------------------
(* Properties.                                                             *)

\* The store's state is of the declared shape.
TypeOK == vis \in State

\* A test that is being scanned is switched on: enableTest sets both in one go,
\* and no handler takes one back without the other while the scan runs.
ScanningIsOn == vis.scanning # Null => IsOn(vis, vis.scanning)

\* Automated checks and needs-review share the unified results, so they are
\* never on together, whichever of them was enabled last.
ExclusiveTests == ~(vis.adhoc[Issues] /\ vis.adhoc[NeedsReview])

\* Of all requirements of all assessments at most one has its visualization on:
\* enableTest turns the others off before it turns one on.
OneRequirement ==
  \A r1, r2 \in Requirement :
    vis.step[r1] = "on" /\ vis.step[r2] = "on" => r1 = r2

\* An assessment is enabled exactly when one of its requirements is; toggleTestOff
\* only looks at the steps of an assessment whose flag is set.
AssessmentFlag ==
  \A a \in Assessment :
    vis.assessment[a] <=> \E r \in Requirement : AssessmentOf[r] = a /\ vis.step[r] = "on"

\* An injection that has started is one that is requested: a view that waits
\* for injectingRequested to clear also waits for the script to be there.
StartedIsRequested == vis.injectingStarted => vis.injectingRequested

\* Switching the details view to another pivot leaves no visualization of the old
\* one on, unless a scan holds the toggles.
PivotSwitchClears ==
  [][vis'.pivot # vis.pivot /\ vis'.scanning = Null
       => \A k \in Key : ~IsOn(vis', k)]_vis

\* The store implements the scan session: while a scan runs nothing is
\* switched and no other scan takes its place.
Session == INSTANCE ScanSession
             WITH on <- {k \in Key : IsOn(vis, k)}, scanning <- vis.scanning
SessionSpec == Session!Spec

=============================================================================
