------------------------------ MODULE ElectronApp -------------------------------
(***************************************************************************)
(* The desktop application: the wizard of AndroidSetup in one view and the  *)
(* scans of DeviceScan in the other, which take their device from the       *)
(* wizard's store.  The answers of adb come in whatever view is shown.      *)
(***************************************************************************)
EXTENDS DeviceScan

VARIABLE route      \* routeId of the window state store

appVars == <<setupVars, scanVars, route>>

AppInit ==
  /\ SetupInit
  /\ ScanInit
  /\ route = "deviceConnectView"

\* The user in the view of the wizard, and the answers, wherever the user is.
WizardStep ==
  /\ \/ InitializeStartListener
     \/ /\ route = "deviceConnectView"
        /\ \/ SetTelemetryState
           \/ \E a \in {"saveAdbPath", "next", "cancel", "rescan"} : Press(a)
           \/ \E d \in Device : SetSelectedDevice(d)
     \/ \E q \in Slot : QuestionEnds(q)
  /\ UNCHANGED <<scanVars, route>>

\* startTestingAndResetState: the route changes, the wizard goes back to its prompt
\* and the results view, once it is there, scans.  Without a selected device
\* rendering that view throws, and it never gets there.
OpenResultsView ==
  /\ route = "deviceConnectView"
  /\ StartTesting
  /\ route' = "resultsView"
  /\ IF setup.selected # Null THEN Scan ELSE UNCHANGED scanVars

\* A bug to be caught: the button is there while a scan runs.
StartOverAnytime ==
  /\ route = "resultsView" /\ setup.selected # Null
  /\ connection # "Disconnected"
  /\ Scan
  /\ UNCHANGED <<setupVars, route>>

\* The start-over button of the results view, which the dialog for a device that is
\* disconnected covers.
StartOver ==
  /\ route = "resultsView" /\ setup.selected # Null
  /\ scan # "Scanning" /\ connection # "Disconnected"
  /\ Scan
  /\ UNCHANGED <<setupVars, route>>

\* The button of that dialog.
RedetectDevice ==
  /\ route = "resultsView" /\ setup.selected # Null
  /\ connection = "Disconnected"
  /\ route' = "deviceConnectView"
  /\ UNCHANGED <<setupVars, scanVars>>

ScanStep ==
  /\ \E f \in Fetch : FetchEnds(f)
  /\ UNCHANGED <<setupVars, route>>

AppNext == WizardStep \/ OpenResultsView \/ StartOver \/ RedetectDevice \/ ScanStep

AppSpec == AppInit /\ [][AppNext]_appVars

\* What adb is asked, it answers or fails to within its own time limit.
FairAppSpec ==
  /\ AppSpec
  /\ \A q \in Slot : WF_appVars(QuestionEnds(q) /\ UNCHANGED <<scanVars, route>>)
  /\ \A f \in Fetch : WF_appVars(FetchEnds(f) /\ UNCHANGED <<setupVars, route>>)

-----------------------------------------------------------------------------
\* The state of the application keeps its declared shape.
AppTypeOK == SetupTypeOK /\ ScanTypeOK /\ route \in {"deviceConnectView", "resultsView"}

\* The results view, which reads the id of the selected device without looking, is
\* shown only while a device is selected.
ResultsHaveADevice == route = "resultsView" => setup.selected # Null

\* Unless an installation was abandoned, the same, and the results of a completed scan
\* are those of the device that is selected, not of one that was tested before.
ResultsOfSelected ==
  ~abandoned /\ route = "resultsView" =>
    setup.selected # Null /\ (scan = "Completed" => results = setup.selected)

\* No step of the wizard but a prompt lasts, whatever answers come besides.
WizardSettles == step \in Asking ~> step \in Prompting

\* Every scan ends, and the button to start over comes back or the dialog appears.
ScanSettles == scan = "Scanning" ~> scan # "Scanning"
=============================================================================
