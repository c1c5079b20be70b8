-------------------------- MODULE ElectronApp_proofs ---------------------------
(***************************************************************************)
(* Proofs about the desktop application: the wizard keeps what is proved of  *)
(* it alone, and the scans agree with it.                                   *)
(***************************************************************************)
EXTENDS ElectronApp, AndroidSetup_proofs

\* While the user connects a device nothing is scanned.  While results are shown, and
\* unless an installation was abandoned, the wizard rests and whatever is fetched, or
\* was at last, is of its device.
RouteLinked ==
  /\ route = "deviceConnectView" => scan # "Scanning"
  /\ ~abandoned /\ route = "resultsView" =>
       /\ step = "prompt-connect-to-device"
       /\ setup.selected # Null
       /\ \A f \in Fetch : fetches[f] # Null => fetches[f] = setup.selected
       /\ scan = "Completed" => results = setup.selected

AppInv == SetupInv /\ AppTypeOK /\ ScanIsFetched /\ RouteLinked

-----------------------------------------------------------------------------
(* The wizard in the application.                                           *)

LEMMA StepOfWizard == [AppNext]_appVars => [SetupNext]_setupVars
<1> SUFFICES ASSUME [AppNext]_appVars PROVE SetupNext \/ UNCHANGED setupVars
  OBVIOUS
<1>1. CASE UNCHANGED appVars
  BY <1>1 DEF appVars
<1>2. CASE WizardStep
  BY <1>2 DEF WizardStep, SetupNext
<1>3. CASE OpenResultsView
  BY <1>3 DEF OpenResultsView, SetupNext
<1>4. CASE StartOver \/ RedetectDevice \/ ScanStep
  BY <1>4 DEF StartOver, RedetectDevice, ScanStep
<1> QED BY <1>1, <1>2, <1>3, <1>4 DEF AppNext

\* The application is a wizard with something beside it: no step of the views or the
\* scans takes the state machine or its store where the wizard would not go.
THEOREM AppRunsTheWizard == AppSpec => SetupSpec
<1>1. AppInit => SetupInit
  BY DEF AppInit
<1>2. [AppNext]_appVars => [SetupNext]_setupVars
  BY StepOfWizard
<1> QED BY <1>1, <1>2, PTL DEF AppSpec, SetupSpec

-----------------------------------------------------------------------------
(* The scans.                                                               *)

ScanInv == ScanTypeOK /\ ScanIsFetched

\* A scan of a selected device begins when none is under way.
LEMMA ScanKeepsInv ==
  ASSUME ScanInv, Scan, scan # "Scanning", setup.selected \in Device
  PROVE  /\ ScanInv' /\ scan' = "Scanning"
         /\ \A f \in Fetch : fetches'[f] # Null => fetches'[f] = setup.selected
<1>1. PICK f \in Fetch : fetches[f] = Null /\ fetches' = [fetches EXCEPT ![f] = setup.selected]
  BY DEF Scan
<1>2. /\ fetches \in [Fetch -> Device \cup {Null}] /\ fetches' \in [Fetch -> Device \cup {Null}]
      /\ \A g \in Fetch : fetches[g] = Null
      /\ setup.selected # Null
  BY <1>1, SetupAssumption DEF ScanInv, ScanTypeOK, ScanIsFetched
<1>3. \A g \in Fetch : fetches'[g] # Null <=> g = f
  BY <1>1, <1>2
<1>4. ScanTypeOK'
  BY <1>2 DEF ScanInv, ScanTypeOK, Scan
<1>5. ScanIsFetched'
  BY <1>3 DEF ScanIsFetched, Scan
<1> QED BY <1>1, <1>2, <1>3, <1>4, <1>5 DEF ScanInv, Scan

\* A fetch ends, and with it the only scan.
LEMMA FetchEndsFacts ==
  ASSUME ScanInv, NEW f \in Fetch, FetchEnds(f)
  PROVE  /\ ScanInv' /\ scan = "Scanning" /\ fetches[f] # Null
         /\ scan' \in {"Completed", "Failed"}
         /\ scan' = "Completed" => results' = fetches[f]
         /\ \A g \in Fetch : fetches'[g] = Null
<1>1. /\ fetches[f] # Null /\ fetches' = [fetches EXCEPT ![f] = Null]
      /\ connection' \in {"Connected", "Disconnected"}
  BY DEF FetchEnds, ScanCompleted, ScanFailed, ReportThrows
<1>2. scan = "Scanning"
  BY <1>1 DEF ScanInv, ScanIsFetched
<1>3. /\ scan' \in {"Completed", "Failed"}
      /\ scan' = "Completed" => results' = fetches[f]
      /\ results' \in {results, fetches[f]}
  BY <1>2 DEF FetchEnds, ScanCompleted, ScanFailed, ReportThrows, OnScanFinished
<1>4. \A g \in Fetch : fetches'[g] = Null
  BY <1>1 DEF ScanInv, ScanTypeOK, ScanIsFetched
<1>5. ScanTypeOK'
  BY <1>1, <1>3 DEF ScanInv, ScanTypeOK
<1>6. ScanIsFetched'
  BY <1>1, <1>3, <1>4 DEF ScanIsFetched
<1> QED BY <1>1, <1>2, <1>3, <1>4, <1>5, <1>6 DEF ScanInv

-----------------------------------------------------------------------------
(* The invariant is inductive.                                              *)

THEOREM AppInitEstablishesInv == AppInit => AppInv
<1> SUFFICES ASSUME AppInit PROVE AppInv
  OBVIOUS
<1>1. SetupInv
  BY SetupInitEstablishesInv DEF AppInit
<1>2. ScanTypeOK /\ ScanIsFetched
  BY DEF AppInit, ScanInit, ScanTypeOK, ScanIsFetched
<1>3. AppTypeOK /\ RouteLinked
  BY <1>1, <1>2 DEF AppTypeOK, RouteLinked, SetupInv, AppInit, ScanInit
<1> QED BY <1>1, <1>2, <1>3 DEF AppInv

LEMMA AppInvStep == AppInv /\ [AppNext]_appVars => AppInv'
<1> SUFFICES ASSUME AppInv, [AppNext]_appVars PROVE AppInv'
  OBVIOUS
<1>1. SetupInv'
  BY StepOfWizard, SetupInvStep DEF AppInv
<1>2. ScanInv /\ route \in {"deviceConnectView", "resultsView"} /\ RouteLinked /\ SetupInv
  BY DEF AppInv, AppTypeOK, ScanInv
<1>3. setup.selected \in Device \cup {Null} /\ abandoned \in BOOLEAN
  BY <1>2 DEF SetupInv, SetupTypeOK
<1> SUFFICES ScanInv' /\ route' \in {"deviceConnectView", "resultsView"} /\ RouteLinked'
  BY <1>1 DEF AppInv, AppTypeOK, ScanInv, SetupInv
<1>4. CASE UNCHANGED appVars
  BY <1>2, <1>4 DEF appVars, setupVars, scanVars, ScanInv, ScanTypeOK, ScanIsFetched, RouteLinked
<1>5. CASE WizardStep
  <2>1. /\ UNCHANGED <<scanVars, route>>
        /\ route' = "deviceConnectView" => scan' # "Scanning"
    BY <1>2, <1>5 DEF WizardStep, scanVars, RouteLinked
  <2>2. ScanInv' /\ route' \in {"deviceConnectView", "resultsView"}
    BY <1>2, <2>1 DEF scanVars, ScanInv, ScanTypeOK, ScanIsFetched
  <2>3. CASE route = "deviceConnectView"
    <3>1. route' # "resultsView"
      BY <2>1, <2>3
    <3> QED BY <2>1, <2>2, <3>1, Zenon DEF RouteLinked
  <2>4. CASE abandoned'
    BY <2>1, <2>2, <2>4, Zenon DEF RouteLinked
  <2>5. CASE route = "resultsView" /\ ~abandoned'
    \* Nothing is awaited in the step where the wizard rests, so that no answer moves it.
    <3>1. ~abandoned
      <4>1. InitializeStartListener \/ \E q \in Slot : QuestionEnds(q)
        BY <1>5, <2>5 DEF WizardStep
      <4>2. abandoned' = abandoned
        BY <4>1 DEF InitializeStartListener, QuestionEnds, Answer, AnswerDevices
      <4> QED BY <2>5, <4>2
    <3>2. step = "prompt-connect-to-device"
      BY <1>2, <2>5, <3>1 DEF RouteLinked
    <3>3. \A q \in Slot : questions[q] = Null
      BY <1>2, <3>1, <3>2, NoQuestion DEF Prompting
    <3>4. listener # "absent"
      BY <1>2, <3>2 DEF SetupInv, NothingBefore
    <3> QED BY <1>5, <2>5, <3>3, <3>4
            DEF WizardStep, InitializeStartListener, QuestionEnds, Answer, AnswerDevices
  <2> QED BY <1>2, <2>2, <2>3, <2>4, <2>5
<1>6. CASE OpenResultsView
  <2>1. /\ StartTesting /\ route = "deviceConnectView" /\ route' = "resultsView"
        /\ scan # "Scanning"
    BY <1>2, <1>6 DEF OpenResultsView, RouteLinked
  <2>2. /\ step' = "prompt-connect-to-device"
        /\ setup'.selected = setup.selected
        /\ abandoned' = abandoned
    <3>1. /\ step = "prompt-connected-start-testing"
          /\ step \in StepId
          /\ Press("readyToStart")
      BY <2>1 DEF StartTesting, StepId, Prompting
    <3>2. PICK next \in AfterAction(step, "readyToStart") :
            StepTransition(next, setup, questions, configured)
      BY <3>1 DEF Press
    <3>3. next = "prompt-connect-to-device"
      BY <3>1 DEF AfterAction, allAndroidSetupStepConfigs, promptConnectedStartTesting
    <3>4. abandoned' = abandoned
      BY <1>3, <3>1 DEF Press
    <3>5. step' = next /\ setup' = OnEnter(next, setup) /\ setup \in Data
      BY <1>2, <3>2 DEF StepTransition, SetupInv, SetupTypeOK, Data
    <3> QED BY <3>3, <3>4, <3>5 DEF OnEnter, Data
  <2>3. CASE setup.selected # Null
    <3>1. Scan /\ setup.selected \in Device
      BY <1>3, <1>6, <2>3 DEF OpenResultsView
    <3>2. /\ ScanInv' /\ scan' = "Scanning"
          /\ \A f \in Fetch : fetches'[f] # Null => fetches'[f] = setup.selected
      BY <1>2, <2>1, <3>1, ScanKeepsInv
    <3> QED BY <2>1, <2>2, <2>3, <3>2 DEF RouteLinked
  <2>4. CASE setup.selected = Null
    <3>1. UNCHANGED scanVars
      BY <1>6, <2>4 DEF OpenResultsView
    <3>2. ScanInv'
      BY <1>2, <3>1 DEF scanVars, ScanInv, ScanTypeOK, ScanIsFetched
    <3>3. abandoned
      BY <1>2, <2>1, <2>4 DEF StartTesting, SetupInv, ConnectedIsSelected
    <3> QED BY <2>1, <2>2, <3>2, <3>3 DEF RouteLinked
  <2> QED BY <2>3, <2>4
<1>7. CASE StartOver
  <2>1. /\ Scan /\ scan # "Scanning" /\ setup.selected \in Device
        /\ route = "resultsView" /\ UNCHANGED <<setupVars, route>>
    BY <1>3, <1>7 DEF StartOver
  <2>2. /\ ScanInv' /\ scan' = "Scanning"
        /\ \A f \in Fetch : fetches'[f] # Null => fetches'[f] = setup.selected
    BY <1>2, <2>1, ScanKeepsInv
  <2> QED BY <1>2, <2>1, <2>2 DEF RouteLinked, setupVars
<1>8. CASE RedetectDevice
  <2>1. /\ connection = "Disconnected" /\ route' = "deviceConnectView"
        /\ UNCHANGED <<setupVars, scanVars>>
    BY <1>8 DEF RedetectDevice
  <2>2. scan # "Scanning"
    BY <1>2, <2>1 DEF ScanInv, ScanIsFetched
  <2> QED BY <1>2, <2>1, <2>2 DEF RouteLinked, scanVars, ScanInv, ScanTypeOK, ScanIsFetched
<1>9. CASE ScanStep
  <2>1. PICK f \in Fetch : FetchEnds(f)
    BY <1>9 DEF ScanStep
  <2>2. UNCHANGED <<setupVars, route>>
    BY <1>9 DEF ScanStep
  <2>3. /\ ScanInv' /\ fetches[f] # Null
        /\ scan' \in {"Completed", "Failed"}
        /\ scan' = "Completed" => results' = fetches[f]
        /\ \A g \in Fetch : fetches'[g] = Null
    BY <1>2, <2>1, FetchEndsFacts
  <2> QED BY <1>2, <2>2, <2>3 DEF RouteLinked, setupVars
<1> QED BY <1>4, <1>5, <1>6, <1>7, <1>8, <1>9 DEF AppNext

LEMMA AppInvariance == AppSpec => []AppInv
<1>1. AppInit => AppInv
  BY AppInitEstablishesInv
<1>2. AppInv /\ [AppNext]_appVars => AppInv'
  BY AppInvStep
<1> QED BY <1>1, <1>2, PTL DEF AppSpec

-----------------------------------------------------------------------------
(* Theorems.                                                                *)

\* Type correctness of the desktop application.
THEOREM AppTypes == AppSpec => []AppTypeOK
<1>1. AppInv => AppTypeOK
  BY DEF AppInv
<1> QED BY <1>1, AppInvariance, PTL

\* Scans do not overlap, though the controller would start as many as it is told to:
\* the views offer a scan only when the store knows the end of the last one.
THEOREM AppScanIsFetched == AppSpec => []ScanIsFetched
<1>1. AppInv => ScanIsFetched
  BY DEF AppInv
<1> QED BY <1>1, AppInvariance, PTL

\* As long as no installation is abandoned the results view has a device, and the
\* results of a completed scan are that device's.
THEOREM AppResultsOfSelected == AppSpec => []ResultsOfSelected
<1>1. AppInv => ResultsOfSelected
  BY DEF AppInv, RouteLinked, ResultsOfSelected
<1> QED BY <1>1, AppInvariance, PTL
=============================================================================
