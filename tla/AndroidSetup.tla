------------------------------ MODULE AndroidSetup ------------------------------
(***************************************************************************)
(* The wizard that connects the desktop application to an Android device: a *)
(* state machine whose steps either wait for the user or ask something of   *)
(* adb when they are entered and move on when the answer comes.  What       *)
(* becomes of an answer does not depend on the step the machine is in by    *)
(* then, and one step, installing-service, may be left before its answer.   *)
(***************************************************************************)
EXTENDS Naturals, FiniteSets

CONSTANTS
  Device,       \* the ids of the devices adb may report
  Slot,         \* questions under way at a time, a bound
  Null

ASSUME SetupAssumption == Null \notin Device

VARIABLES
  step,         \* currentStep of the machine, currentStepId of the store
  setup,        \* the rest of the store: the devices and the application
  configured,   \* selectedDeviceId of the device configurator
  questions,    \* the steps whose onEnter awaits adb, with the device they are about
  firstTime,    \* isFirstTime of the user configuration store
  listener,     \* the start listener: "absent", "listening", "removed"
  abandoned     \* history: an installation was cancelled before its answer

setupVars == <<step, setup, configured, questions, firstTime, listener, abandoned>>

-----------------------------------------------------------------------------
\* The steps: what an action of the user leads to, and what the answer to the
\* question of onEnter does.  The answer of detect-devices is no yes or no, see below;
\* the overlay permission is granted or not, and the wizard goes on.
waitToStart == [actions |-> {<<"readyToStart", "detect-adb">>}, answers |-> {}]
detectAdb == [actions |-> {}, answers |-> {<<TRUE, "detect-devices">>, <<FALSE, "prompt-locate-adb">>}]
promptLocateAdb == [actions |-> {<<"saveAdbPath", "detect-adb">>}, answers |-> {}]
promptConnectToDevice == [actions |-> {<<"next", "detect-devices">>}, answers |-> {}]
detectDevices == [actions |-> {}, answers |-> {}]
promptChooseDevice == [actions |-> {<<"rescan", "detect-devices">>}, answers |-> {}]
\* A bug to be caught: looking for the service can be cancelled as well.
detectServiceCancelling ==
  [actions |-> {<<"cancel", "prompt-choose-device">>},
   answers |-> {<<TRUE, "detect-permissions">>, <<FALSE, "prompt-install-service">>}]

detectService ==
  [actions |-> {}, answers |-> {<<TRUE, "detect-permissions">>, <<FALSE, "prompt-install-service">>}]
promptInstallService ==
  [actions |-> {<<"cancel", "prompt-choose-device">>, <<"next", "installing-service">>}, answers |-> {}]
installingService ==
  [actions |-> {<<"cancel", "prompt-install-service">>},
   answers |-> {<<TRUE, "prompt-grant-permissions">>, <<FALSE, "prompt-install-failed">>}]
\* A bug to be caught: the permissions are asked for until they are there.
detectPermissionsRetrying ==
  [actions |-> {}, answers |-> {<<TRUE, "grant-overlay-permission">>, <<FALSE, "detect-permissions">>}]

detectPermissions ==
  [actions |-> {}, answers |-> {<<TRUE, "grant-overlay-permission">>, <<FALSE, "prompt-grant-permissions">>}]
promptGrantPermissions ==
  [actions |-> {<<"cancel", "prompt-choose-device">>, <<"next", "detect-permissions">>}, answers |-> {}]
grantOverlayPermission == [actions |-> {}, answers |-> {<<TRUE, "establish-connection">>}]
establishingConnection ==
  [actions |-> {}, answers |-> {<<TRUE, "prompt-connected-start-testing">>,
                                <<FALSE, "prompt-establishing-connection-failed">>}]
promptEstablishingConnectionFailed ==
  [actions |-> {<<"cancel", "prompt-choose-device">>, <<"next", "detect-service">>}, answers |-> {}]
promptConnectedStartTesting ==
  [actions |-> {<<"cancel", "prompt-choose-device">>, <<"rescan", "detect-devices">>,
                <<"readyToStart", "prompt-connect-to-device">>}, answers |-> {}]

allAndroidSetupStepConfigs(s) ==
  CASE s = "wait-to-start" -> waitToStart
    [] s = "detect-adb" -> detectAdb
    [] s = "prompt-locate-adb" -> promptLocateAdb
    [] s = "prompt-connect-to-device" -> promptConnectToDevice
    [] s = "detect-devices" -> detectDevices
    [] s = "prompt-choose-device" -> promptChooseDevice
    [] s = "detect-service" -> detectService
    [] s = "prompt-install-service" -> promptInstallService
    [] s = "installing-service" -> installingService
    [] s = "prompt-install-failed" -> promptInstallService
    [] s = "detect-permissions" -> detectPermissions
    [] s = "prompt-grant-permissions" -> promptGrantPermissions
    [] s = "grant-overlay-permission" -> grantOverlayPermission
    [] s = "establish-connection" -> establishingConnection
    [] s = "prompt-establishing-connection-failed" -> promptEstablishingConnectionFailed
    [] s = "prompt-connected-start-testing" -> promptConnectedStartTesting

\* StateMachine.invokeAction: the step an action of the user leads to, if any.
AfterAction(from, action) ==
  {t[2] : t \in {u \in allAndroidSetupStepConfigs(from).actions : u[1] = action}}

\* The step the answer to a step's question leads to.
AfterAnswer(from, yes) ==
  {t[2] : t \in {u \in allAndroidSetupStepConfigs(from).answers : u[1] = yes}}

Asking == {"detect-adb", "detect-devices", "detect-service", "installing-service",
           "detect-permissions", "grant-overlay-permission", "establish-connection"}
Prompting == {"wait-to-start", "prompt-locate-adb", "prompt-connect-to-device",
              "prompt-choose-device", "prompt-install-service", "prompt-install-failed",
              "prompt-grant-permissions", "prompt-establishing-connection-failed",
              "prompt-connected-start-testing"}
StepId == Asking \cup Prompting
Question == [step : Asking, device : Device \cup {Null}]

-----------------------------------------------------------------------------
SetupInit ==
  /\ step = "wait-to-start"
  /\ setup = [selected |-> Null, available |-> {}, application |-> Null]
  /\ configured = Null
  /\ questions = [q \in Slot |-> Null]
  /\ firstTime \in BOOLEAN
  /\ listener = "absent"
  /\ abandoned = FALSE

\* A bug to be caught: an application with an empty name takes the place of none.
OnEnterUnnamed(next, data) ==
  [data EXCEPT !.selected = IF next = "detect-devices" THEN Null ELSE @,
               !.available = IF next = "detect-devices" THEN {} ELSE @,
               !.application = IF next = "establish-connection" THEN "" ELSE @]

\* What onEnter does to the store before its first await: detect-devices forgets
\* the devices and establish-connection the application.
OnEnter(next, data) ==
  [data EXCEPT !.selected = IF next = "detect-devices" THEN Null ELSE @,
               !.available = IF next = "detect-devices" THEN {} ELSE @,
               !.application = IF next = "establish-connection" THEN Null ELSE @]

\* StateMachine.stepTransition from a store with "data" and a machine that awaits
\* "pending", when the configurator is set to "device".
StepTransition(next, data, pending, device) ==
  /\ step' = next
  /\ setup' = OnEnter(next, data)
  /\ configured' = device
  /\ IF next \in Asking
     THEN \E q \in Slot : /\ pending[q] = Null
                          /\ questions' = [pending EXCEPT ![q] = [step |-> next, device |-> device]]
     ELSE questions' = pending

-----------------------------------------------------------------------------
\* A button of the wizard, on a step that has the action; elsewhere it is ignored.
Press(action) ==
  /\ \E next \in AfterAction(step, action) : StepTransition(next, setup, questions, configured)
  /\ abandoned' = (abandoned \/ step = "installing-service")
  /\ UNCHANGED <<firstTime, listener>>

\* The button of prompt-connected-start-testing; no view has one for wait-to-start.
StartTesting ==
  /\ step = "prompt-connected-start-testing"
  /\ Press("readyToStart")

\* A bug to be caught: only the store is told.
UseDeviceInStoreOnly(d, devices, pending) ==
  StepTransition("detect-service",
    [setup EXCEPT !.selected = d, !.available = devices], pending, configured)

\* A bug to be caught: only the configurator is told.
UseDeviceInConfiguratorOnly(d, devices, pending) ==
  StepTransition("detect-service", [setup EXCEPT !.available = devices], pending, d)

\* Both the configurator and the store are told of the device, then the wizard
\* looks for the service on it.
UseDevice(d, devices, pending) ==
  StepTransition("detect-service",
    [setup EXCEPT !.selected = d, !.available = devices], pending, d)

\* prompt-choose-device: one of the devices on the list.
SetSelectedDevice(d) ==
  /\ step = "prompt-choose-device"
  /\ d \in setup.available
  /\ UseDevice(d, setup.available, questions)
  /\ UNCHANGED <<firstTime, listener, abandoned>>

\* A bug to be caught: the listener waits for the first change.
StoreChangedLater(decided) ==
  /\ listener' = "listening"
  /\ UNCHANGED <<step, setup, configured, questions>>

\* AndroidSetupStartListener.storeChanged, which starts the wizard once the user
\* has decided about telemetry and then stops listening.
StoreChanged(decided) ==
  IF decided /\ step = "wait-to-start"
  THEN /\ StepTransition("detect-adb", setup, questions, configured)
       /\ listener' = "removed"
  ELSE /\ listener' = "listening"
       /\ UNCHANGED <<step, setup, configured, questions>>

InitializeStartListener ==
  /\ listener = "absent"
  /\ StoreChanged(~firstTime)
  /\ UNCHANGED <<firstTime, abandoned>>

\* The telemetry dialog, which is there on the first start only.
SetTelemetryState ==
  /\ firstTime /\ listener = "listening"
  /\ firstTime' = FALSE
  /\ StoreChanged(TRUE)
  /\ UNCHANGED abandoned

\* The answer to a question of a step, whatever the step by then.  A valid path of
\* adb makes a new configurator; the application is that of the device asked.
Answer(q, yes) ==
  /\ questions[q] # Null
  /\ \E next \in AfterAnswer(questions[q].step, yes) :
       StepTransition(next,
         IF next = "prompt-connected-start-testing"
           THEN [setup EXCEPT !.application = questions[q].device] ELSE setup,
         [questions EXCEPT ![q] = Null],
         IF questions[q].step = "detect-adb" /\ yes THEN Null ELSE configured)
  /\ UNCHANGED <<firstTime, listener, abandoned>>

\* The answer of detect-devices; an error counts as no device.
AnswerDevices(q, devices) ==
  /\ questions[q] # Null /\ questions[q].step = "detect-devices"
  /\ LET pending == [questions EXCEPT ![q] = Null]
     IN \/ /\ devices = {}
           /\ StepTransition("prompt-connect-to-device", setup, pending, configured)
        \/ \E d \in devices :
             devices = {d} /\ UseDevice(d, devices, pending)
        \/ /\ Cardinality(devices) > 1
           /\ StepTransition("prompt-choose-device",
                [setup EXCEPT !.available = devices], pending, configured)
  /\ UNCHANGED <<firstTime, listener, abandoned>>


QuestionEnds(q) ==
  \/ \E yes \in BOOLEAN : Answer(q, yes)
  \/ \E devices \in SUBSET Device : AnswerDevices(q, devices)

SetupNext ==
  \/ InitializeStartListener
  \/ SetTelemetryState
  \/ \E a \in {"saveAdbPath", "next", "cancel", "rescan"} : Press(a)
  \/ StartTesting
  \/ \E d \in Device : SetSelectedDevice(d)
  \/ \E q \in Slot : QuestionEnds(q)

SetupSpec == SetupInit /\ [][SetupNext]_setupVars

-----------------------------------------------------------------------------
\* The state of the wizard keeps its declared shape.
SetupTypeOK ==
  /\ step \in StepId
  /\ setup \in [selected : Device \cup {Null}, available : SUBSET Device,
                application : Device \cup {Null}]
  /\ configured \in Device \cup {Null}
  /\ questions \in [Slot -> Question \cup {Null}]
  /\ firstTime \in BOOLEAN
  /\ listener \in {"absent", "listening", "removed"}

\* The device the store shows as selected and the one the configurator sends its
\* commands to, which the wizard sets apart, are the same.
ConfiguredIsSelected == setup.selected # Null => configured = setup.selected

\* The listener neither starts the wizard before the decision nor misses it, be it
\* made before the listener was there or after.
StartsOnDecision ==
  listener # "absent" =>
    (step = "wait-to-start" <=> firstTime) /\ (listener = "removed" <=> ~firstTime)

\* Unless an installation was abandoned, the wizard awaits the answer to the question
\* of the step it is in, and no other: no answer moves it from where the user is.
OneQuestion ==
  ~abandoned =>
    /\ \A q \in Slot : questions[q] # Null => questions[q].step = step
    /\ \A p, q \in Slot : questions[p] # Null /\ questions[q] # Null => p = q

\* Unless an installation was abandoned, testing is offered for a device that is
\* selected, and with the application that was found on it.
ConnectedIsSelected ==
  ~abandoned /\ step = "prompt-connected-start-testing" =>
    setup.selected # Null /\ setup.application = setup.selected
=============================================================================
