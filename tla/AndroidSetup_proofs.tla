-------------------------- MODULE AndroidSetup_proofs --------------------------
(***************************************************************************)
(* Proofs about the wizard that connects to a device, for any devices and   *)
(* any number of questions under way at a time.                             *)
(***************************************************************************)
EXTENDS AndroidSetup, TLAPS

\* The steps from the choice of a device on.
OfDevice == {"detect-service", "prompt-install-service", "installing-service",
             "prompt-install-failed", "detect-permissions", "prompt-grant-permissions",
             "grant-overlay-permission", "establish-connection",
             "prompt-establishing-connection-failed", "prompt-connected-start-testing"}

\* Before the wizard starts nothing is under way.
NothingBefore ==
  /\ listener = "absent" => step = "wait-to-start"
  /\ step = "wait-to-start" => ~abandoned /\ \A q \in Slot : questions[q] = Null

\* Unless an installation was abandoned, what is asked is asked of the device that is
\* configured, and a device is selected from its choice on.
AskedOfDevice ==
  ~abandoned =>
    /\ \A q \in Slot : questions[q] # Null => questions[q].device = configured
    /\ step \in OfDevice => setup.selected # Null

SetupInv ==
  /\ SetupTypeOK
  /\ abandoned \in BOOLEAN
  /\ ConfiguredIsSelected
  /\ StartsOnDecision
  /\ OneQuestion
  /\ ConnectedIsSelected
  /\ NothingBefore
  /\ AskedOfDevice

-----------------------------------------------------------------------------
(* The table of the steps.                                                  *)

\* The steps an action of the user can lead to; it abandons an installation only.
LEMMA ActionTable ==
  ASSUME NEW from \in StepId, NEW action, NEW next \in AfterAction(from, action)
  PROVE  /\ from \in {"wait-to-start", "installing-service"} \cup (Prompting \ {"wait-to-start"})
         /\ action = "readyToStart" \/ from # "wait-to-start"
         /\ next \in StepId \ {"wait-to-start", "prompt-connected-start-testing"}
         /\ next \in OfDevice => from \in OfDevice
<1> USE DEF AfterAction, StepId, Asking, Prompting, OfDevice
<1>1. PICK t \in allAndroidSetupStepConfigs(from).actions : next = t[2] /\ action = t[1]
  OBVIOUS
<1> QED
  BY <1>1 DEF allAndroidSetupStepConfigs, waitToStart, detectAdb, promptLocateAdb,
     promptConnectToDevice, detectDevices, promptChooseDevice, detectService,
     promptInstallService, installingService, detectPermissions, promptGrantPermissions,
     grantOverlayPermission, establishingConnection, promptEstablishingConnectionFailed,
     promptConnectedStartTesting

\* What an answer is in the table.
LEMMA AnswerPairs ==
  ASSUME NEW from, NEW yes \in BOOLEAN, NEW next \in AfterAnswer(from, yes),
         NEW one, NEW other,
         allAndroidSetupStepConfigs(from).answers = {<<TRUE, one>>, <<FALSE, other>>}
  PROVE  (yes => next = one) /\ (~yes => next = other)
<1>1. PICK t \in {<<TRUE, one>>, <<FALSE, other>>} : next = t[2] /\ t[1] = yes
  BY DEF AfterAnswer
<1>2. CASE t = <<TRUE, one>>
  <2>1. t[1] = TRUE /\ t[2] = one
    BY <1>2
  <2> QED BY <1>1, <2>1, Zenon
<1>3. CASE t = <<FALSE, other>>
  <2>1. t[1] = FALSE /\ t[2] = other
    BY <1>3
  <2> QED BY <1>1, <2>1, Zenon
<1> QED BY <1>2, <1>3

\* The steps the answer to a step's question can lead to.
LEMMA AnswerTable ==
  ASSUME NEW from \in Asking, NEW yes \in BOOLEAN, NEW next \in AfterAnswer(from, yes)
  PROVE  /\ next \in StepId \ {"wait-to-start", "detect-service", "prompt-choose-device"}
         /\ next \in OfDevice => from \in OfDevice
         /\ next = "prompt-connected-start-testing" => from = "establish-connection"
         /\ from = "detect-adb" /\ yes => next = "detect-devices"
<1> USE DEF StepId, Asking, Prompting, OfDevice
<1>1. CASE from = "detect-adb"
  <2>1. allAndroidSetupStepConfigs(from).answers = {<<TRUE, "detect-devices">>, <<FALSE, "prompt-locate-adb">>}
    BY <1>1 DEF allAndroidSetupStepConfigs, detectAdb
  <2>2. (yes => next = "detect-devices") /\ (~yes => next = "prompt-locate-adb")
    BY <2>1, AnswerPairs, Zenon
  <2> QED BY <1>1, <2>2
<1>2. CASE from = "detect-service"
  <2>1. allAndroidSetupStepConfigs(from).answers = {<<TRUE, "detect-permissions">>, <<FALSE, "prompt-install-service">>}
    BY <1>2 DEF allAndroidSetupStepConfigs, detectService
  <2>2. (yes => next = "detect-permissions") /\ (~yes => next = "prompt-install-service")
    BY <2>1, AnswerPairs, Zenon
  <2> QED BY <1>2, <2>2
<1>3. CASE from = "installing-service"
  <2>1. allAndroidSetupStepConfigs(from).answers = {<<TRUE, "prompt-grant-permissions">>, <<FALSE, "prompt-install-failed">>}
    BY <1>3 DEF allAndroidSetupStepConfigs, installingService
  <2>2. (yes => next = "prompt-grant-permissions") /\ (~yes => next = "prompt-install-failed")
    BY <2>1, AnswerPairs, Zenon
  <2> QED BY <1>3, <2>2
<1>4. CASE from = "detect-permissions"
  <2>1. allAndroidSetupStepConfigs(from).answers = {<<TRUE, "grant-overlay-permission">>, <<FALSE, "prompt-grant-permissions">>}
    BY <1>4 DEF allAndroidSetupStepConfigs, detectPermissions
  <2>2. (yes => next = "grant-overlay-permission") /\ (~yes => next = "prompt-grant-permissions")
    BY <2>1, AnswerPairs, Zenon
  <2> QED BY <1>4, <2>2
<1>5. CASE from = "establish-connection"
  <2>1. allAndroidSetupStepConfigs(from).answers = {<<TRUE, "prompt-connected-start-testing">>, <<FALSE, "prompt-establishing-connection-failed">>}
    BY <1>5 DEF allAndroidSetupStepConfigs, establishingConnection
  <2>2. (yes => next = "prompt-connected-start-testing") /\ (~yes => next = "prompt-establishing-connection-failed")
    BY <2>1, AnswerPairs, Zenon
  <2> QED BY <1>5, <2>2
<1>6. CASE from = "detect-devices"
  BY <1>6 DEF AfterAnswer, allAndroidSetupStepConfigs, detectDevices
<1>7. CASE from = "grant-overlay-permission"
  <2>1. next = "establish-connection"
    <3>1. PICK t : t = <<TRUE, "establish-connection">> /\ next = t[2]
      BY <1>7 DEF AfterAnswer, allAndroidSetupStepConfigs, grantOverlayPermission
    <3> QED BY <3>1
  <2> QED BY <1>7, <2>1
<1> QED BY <1>1, <1>2, <1>3, <1>4, <1>5, <1>6, <1>7

-----------------------------------------------------------------------------
(* A transition of the state machine.                                       *)

Data == [selected : Device \cup {Null}, available : SUBSET Device,
         application : Device \cup {Null}]

\* What a transition does, from whatever store and with whatever it awaits besides.
LEMMA TransitionFacts ==
  ASSUME NEW next \in StepId, NEW data \in Data, NEW device \in Device \cup {Null},
         NEW pending \in [Slot -> Question \cup {Null}],
         StepTransition(next, data, pending, device)
  PROVE  /\ step' = next /\ configured' = device
         /\ setup' \in Data
         /\ setup'.selected = IF next = "detect-devices" THEN Null ELSE data.selected
         /\ next = "prompt-connected-start-testing" => setup'.application = data.application
         /\ questions' \in [Slot -> Question \cup {Null}]
         /\ next \notin Asking => questions' = pending
<1> USE DEF StepTransition, OnEnter, Data
<1>1. /\ step' = next /\ configured' = device
      /\ setup' \in Data
      /\ setup'.selected = IF next = "detect-devices" THEN Null ELSE data.selected
      /\ next = "prompt-connected-start-testing" => setup'.application = data.application
      /\ next \notin Asking => questions' = pending
  OBVIOUS
<1>2. questions' \in [Slot -> Question \cup {Null}]
  <2>1. CASE next \in Asking
    <3>1. PICK q \in Slot : questions' = [pending EXCEPT ![q] = [step |-> next, device |-> device]]
      BY <2>1
    <3>2. [step |-> next, device |-> device] \in Question
      BY <2>1 DEF Question
    <3> HIDE DEF Data
    <3> QED BY <3>1, <3>2
  <2>2. CASE next \notin Asking
    BY <2>2
  <2> QED BY <2>1, <2>2
<1> QED BY <1>1, <1>2

\* When nothing else is awaited, a transition leaves one question at most, that of the
\* step it leads to, about the device that is configured then.
LEMMA FreshTransition ==
  ASSUME NEW next \in StepId, NEW data \in Data, NEW device \in Device \cup {Null},
         NEW pending \in [Slot -> Question \cup {Null}],
         \A q \in Slot : pending[q] = Null,
         StepTransition(next, data, pending, device)
  PROVE  /\ OneQuestion'
         /\ \A q \in Slot : questions'[q] # Null => questions'[q].device = configured'
<1>1. step' = next /\ configured' = device
  BY DEF StepTransition
<1>2. CASE next \in Asking
  <2>1. PICK q \in Slot : questions' = [pending EXCEPT ![q] = [step |-> next, device |-> device]]
    BY <1>2 DEF StepTransition
  <2>2. \A p \in Slot : questions'[p] # Null => p = q /\ questions'[p] = [step |-> next, device |-> device]
    BY <2>1
  <2> QED BY <1>1, <2>2 DEF OneQuestion
<1>3. CASE next \notin Asking
  <2>1. \A q \in Slot : questions'[q] = Null
    BY <1>3 DEF StepTransition
  <2> QED BY <2>1 DEF OneQuestion
<1> QED BY <1>2, <1>3

\* A transition to a step other than the first, of a wizard that has started, keeps the
\* invariant, if the device the store shows afterwards is the one configured, and if
\* nothing else is awaited unless an installation was abandoned.
LEMMA TransitionKeepsInv ==
  ASSUME SetupInv,
         NEW next \in StepId \ {"wait-to-start"}, NEW data \in Data,
         NEW device \in Device \cup {Null},
         NEW pending \in [Slot -> Question \cup {Null}],
         StepTransition(next, data, pending, device),
         abandoned' \in BOOLEAN, listener' = "removed", firstTime' = FALSE,
         next # "detect-devices" /\ data.selected # Null => device = data.selected,
         ~abandoned' =>
           /\ \A q \in Slot : pending[q] = Null
           /\ next \in OfDevice => data.selected # Null
           /\ next = "prompt-connected-start-testing" => data.application = data.selected
  PROVE  SetupInv'
<1>1. /\ step' = next /\ configured' = device
      /\ setup' \in Data
      /\ setup'.selected = IF next = "detect-devices" THEN Null ELSE data.selected
      /\ next = "prompt-connected-start-testing" => setup'.application = data.application
      /\ questions' \in [Slot -> Question \cup {Null}]
  BY TransitionFacts
<1>2. SetupTypeOK'
  BY <1>1 DEF SetupTypeOK, Data
<1>3. ConfiguredIsSelected' /\ StartsOnDecision' /\ NothingBefore'
  BY <1>1 DEF ConfiguredIsSelected, StartsOnDecision, NothingBefore
<1>4. CASE abandoned'
  BY <1>2, <1>3, <1>4 DEF SetupInv, OneQuestion, ConnectedIsSelected, AskedOfDevice
<1>5. CASE ~abandoned'
  <2>1. OneQuestion' /\ \A q \in Slot : questions'[q] # Null => questions'[q].device = configured'
    BY <1>5, FreshTransition
  <2>2. ConnectedIsSelected'
    BY <1>1, <1>5 DEF ConnectedIsSelected, OfDevice
  <2>3. AskedOfDevice'
    BY <1>1, <1>5, <2>1 DEF AskedOfDevice, OfDevice
  <2> QED BY <1>2, <1>3, <2>1, <2>2, <2>3 DEF SetupInv
<1> QED BY <1>4, <1>5

-----------------------------------------------------------------------------
(* The invariant is inductive.                                              *)

THEOREM SetupInitEstablishesInv == SetupInit => SetupInv
<1> SUFFICES ASSUME SetupInit PROVE SetupInv
  OBVIOUS
<1> USE DEF SetupInit
<1>1. SetupTypeOK
  BY DEF SetupTypeOK, StepId, Prompting
<1>2. ConfiguredIsSelected /\ StartsOnDecision /\ OneQuestion /\ ConnectedIsSelected
  BY DEF ConfiguredIsSelected, StartsOnDecision, OneQuestion, ConnectedIsSelected
<1>3. NothingBefore /\ AskedOfDevice
  BY DEF NothingBefore, AskedOfDevice, OfDevice
<1> QED BY <1>1, <1>2, <1>3 DEF SetupInv

\* Once the wizard has left its first step it has been started, and stays so.
LEMMA Started ==
  ASSUME SetupInv, step # "wait-to-start"
  PROVE  listener = "removed" /\ firstTime = FALSE
BY DEF SetupInv, NothingBefore, StartsOnDecision, SetupTypeOK

\* While a question is awaited, and no installation was abandoned, it is the only one.
LEMMA OnlyQuestion ==
  ASSUME SetupInv, NEW q \in Slot, questions[q] # Null
  PROVE  /\ questions[q] \in Question
         /\ step # "wait-to-start"
         /\ ~abandoned =>
              /\ questions[q].step = step /\ questions[q].device = configured
              /\ \A p \in Slot : [questions EXCEPT ![q] = Null][p] = Null
<1>1. questions \in [Slot -> Question \cup {Null}] /\ questions[q] \in Question
  BY DEF SetupInv, SetupTypeOK
<1>2. step # "wait-to-start"
  BY DEF SetupInv, NothingBefore
<1>3. ASSUME ~abandoned
      PROVE  /\ questions[q].step = step /\ questions[q].device = configured
             /\ \A p \in Slot : questions[p] # Null => p = q
  BY <1>3 DEF SetupInv, OneQuestion, AskedOfDevice
<1> QED BY <1>1, <1>2, <1>3

\* In a step that waits for the user nothing is awaited from adb.
LEMMA NoQuestion ==
  ASSUME SetupInv, ~abandoned, step \in Prompting
  PROVE  \A q \in Slot : questions[q] = Null
<1> SUFFICES ASSUME NEW q \in Slot, questions[q] # Null PROVE FALSE
  OBVIOUS
<1>1. questions[q].step \in Asking /\ questions[q].step = step
  BY OnlyQuestion DEF Question
<1> QED BY <1>1 DEF Asking, Prompting

\* The wizard is started by the listener or left alone.
LEMMA StoreChangedKeepsInv ==
  ASSUME SetupInv, NEW decided \in BOOLEAN, StoreChanged(decided),
         step = "wait-to-start", listener # "removed",
         firstTime' = ~decided, UNCHANGED abandoned
  PROVE  SetupInv'
<1>1. /\ setup \in Data /\ configured \in Device \cup {Null}
      /\ questions \in [Slot -> Question \cup {Null}]
      /\ abandoned = FALSE
      /\ \A q \in Slot : questions[q] = Null
  BY DEF SetupInv, SetupTypeOK, Data, NothingBefore
<1>2. CASE decided
  <2>1. StepTransition("detect-adb", setup, questions, configured) /\ listener' = "removed"
    BY <1>2 DEF StoreChanged
  <2>2. setup.selected # Null => configured = setup.selected
    BY DEF SetupInv, ConfiguredIsSelected
  <2> QED BY <1>1, <1>2, <2>1, <2>2, TransitionKeepsInv DEF StepId, Asking, OfDevice
<1>3. CASE ~decided
  <2>1. /\ listener' = "listening" /\ firstTime' = TRUE
        /\ UNCHANGED <<step, setup, configured, questions, abandoned>>
    BY <1>3 DEF StoreChanged
  <2> QED
    BY <1>1, <2>1 DEF SetupInv, SetupTypeOK, ConfiguredIsSelected, StartsOnDecision,
       OneQuestion, ConnectedIsSelected, NothingBefore, AskedOfDevice
<1> QED BY <1>2, <1>3

\* A button of the wizard, other than the one no view has.
LEMMA PressKeepsInv ==
  ASSUME SetupInv, NEW action, Press(action),
         action # "readyToStart" \/ step # "wait-to-start"
  PROVE  SetupInv'
<1>1. PICK next \in AfterAction(step, action) : StepTransition(next, setup, questions, configured)
  BY DEF Press
<1>2. /\ setup \in Data /\ configured \in Device \cup {Null}
      /\ questions \in [Slot -> Question \cup {Null}]
      /\ step \in StepId /\ abandoned \in BOOLEAN
      /\ setup.selected # Null => configured = setup.selected
      /\ ~abandoned /\ step \in OfDevice => setup.selected # Null
  BY DEF SetupInv, SetupTypeOK, Data, ConfiguredIsSelected, AskedOfDevice
<1>3. /\ step # "wait-to-start"
      /\ step = "installing-service" \/ step \in Prompting
      /\ next \in StepId \ {"wait-to-start", "prompt-connected-start-testing"}
      /\ next \in OfDevice => step \in OfDevice
  BY <1>2, ActionTable
<1>4. listener' = "removed" /\ firstTime' = FALSE
  BY <1>3, Started DEF Press
<1>5. abandoned' \in BOOLEAN /\ (~abandoned' => ~abandoned /\ step # "installing-service")
  BY <1>2 DEF Press
<1>6. ~abandoned' => \A q \in Slot : questions[q] = Null
  BY <1>3, <1>5, NoQuestion
<1> QED BY <1>1, <1>2, <1>3, <1>4, <1>5, <1>6, TransitionKeepsInv

\* A device is chosen, by the user or since it is the only one.
LEMMA UseDeviceKeepsInv ==
  ASSUME SetupInv, NEW d \in Device, NEW devices \in SUBSET Device,
         NEW pending \in [Slot -> Question \cup {Null}],
         UseDevice(d, devices, pending), step # "wait-to-start",
         ~abandoned => \A q \in Slot : pending[q] = Null,
         UNCHANGED <<firstTime, listener, abandoned>>
  PROVE  SetupInv'
<1> DEFINE data == [setup EXCEPT !.selected = d, !.available = devices]
<1>1. data \in Data /\ data.selected = d
  BY DEF SetupInv, SetupTypeOK, Data
<1>2. StepTransition("detect-service", data, pending, d)
  BY DEF UseDevice
<1>3. abandoned \in BOOLEAN /\ d # Null
  BY SetupAssumption DEF SetupInv
<1>4. listener' = "removed" /\ firstTime' = FALSE
  BY Started
<1>5. "detect-service" \in StepId \ {"wait-to-start"}
  BY DEF StepId, Asking
<1> HIDE DEF data
<1> QED BY <1>1, <1>2, <1>3, <1>4, <1>5, TransitionKeepsInv

\* The answer to a question of a step, whatever the step by then.
LEMMA AnswerKeepsInv ==
  ASSUME SetupInv, NEW q \in Slot, NEW yes \in BOOLEAN, Answer(q, yes)
  PROVE  SetupInv'
<1> DEFINE asked == questions[q].step
           pending == [questions EXCEPT ![q] = Null]
           device == IF asked = "detect-adb" /\ yes THEN Null ELSE configured
<1>1. PICK next \in AfterAnswer(asked, yes) :
        StepTransition(next,
          IF next = "prompt-connected-start-testing"
            THEN [setup EXCEPT !.application = questions[q].device] ELSE setup,
          pending, device)
  BY DEF Answer
<1> DEFINE data == IF next = "prompt-connected-start-testing"
                   THEN [setup EXCEPT !.application = questions[q].device] ELSE setup
<1>2. /\ questions[q] # Null
      /\ UNCHANGED <<firstTime, listener, abandoned>>
  BY DEF Answer
<1>3. /\ questions[q] \in Question /\ asked \in Asking
      /\ step # "wait-to-start"
      /\ ~abandoned => /\ asked = step /\ questions[q].device = configured
                       /\ \A p \in Slot : pending[p] = Null
  BY <1>2, OnlyQuestion DEF Question
<1>4. /\ next \in StepId \ {"wait-to-start", "detect-service", "prompt-choose-device"}
      /\ next \in OfDevice => asked \in OfDevice
      /\ next = "prompt-connected-start-testing" => asked = "establish-connection"
      /\ asked = "detect-adb" /\ yes => next = "detect-devices"
  BY <1>3, AnswerTable
<1>5. /\ setup \in Data /\ configured \in Device \cup {Null}
      /\ questions \in [Slot -> Question \cup {Null}]
      /\ abandoned \in BOOLEAN
      /\ setup.selected # Null => configured = setup.selected
      /\ ~abandoned /\ step \in OfDevice => setup.selected # Null
  BY DEF SetupInv, SetupTypeOK, Data, ConfiguredIsSelected, AskedOfDevice
<1>6. /\ pending \in [Slot -> Question \cup {Null}]
      /\ device \in Device \cup {Null}
  BY <1>5
<1>7. data \in Data /\ data.selected = setup.selected
  BY <1>3, <1>5 DEF Data, Question
<1>8. next # "detect-devices" /\ data.selected # Null => device = data.selected
  BY <1>4, <1>5, <1>7
<1>9. ASSUME ~abandoned
      PROVE  /\ next \in OfDevice => data.selected # Null
             /\ next = "prompt-connected-start-testing" => data.application = data.selected
  <2>1. next \in OfDevice => data.selected # Null
    BY <1>3, <1>4, <1>5, <1>7, <1>9
  <2>2. ASSUME next = "prompt-connected-start-testing" PROVE data.application = data.selected
    <3>1. data.application = configured
      BY <1>3, <1>5, <1>9, <2>2 DEF Data
    <3>2. data.selected # Null
      BY <2>1, <2>2 DEF OfDevice
    <3> QED BY <1>5, <1>7, <3>1, <3>2
  <2> QED BY <2>1, <2>2
<1>10. listener' = "removed" /\ firstTime' = FALSE
  BY <1>2, <1>3, Started
<1>11. StepTransition(next, data, pending, device)
  BY <1>1
<1> HIDE DEF asked, pending, device, data
<1> QED BY <1>2, <1>3, <1>4, <1>5, <1>6, <1>7, <1>8, <1>9, <1>10, <1>11, TransitionKeepsInv

\* The answer of detect-devices.
LEMMA AnswerDevicesKeepsInv ==
  ASSUME SetupInv, NEW q \in Slot, NEW devices \in SUBSET Device, AnswerDevices(q, devices)
  PROVE  SetupInv'
<1> DEFINE pending == [questions EXCEPT ![q] = Null]
<1>1. questions[q] # Null /\ UNCHANGED <<firstTime, listener, abandoned>>
  BY DEF AnswerDevices
<1>2. /\ step # "wait-to-start"
      /\ ~abandoned => \A p \in Slot : pending[p] = Null
  BY <1>1, OnlyQuestion
<1>3. /\ setup \in Data /\ configured \in Device \cup {Null}
      /\ pending \in [Slot -> Question \cup {Null}]
      /\ abandoned \in BOOLEAN
      /\ setup.selected # Null => configured = setup.selected
  BY DEF SetupInv, SetupTypeOK, Data, ConfiguredIsSelected
<1>4. listener' = "removed" /\ firstTime' = FALSE
  BY <1>1, <1>2, Started
<1> HIDE DEF pending
<1>5. CASE StepTransition("prompt-connect-to-device", setup, pending, configured)
  <2>1. "prompt-connect-to-device" \in StepId \ {"wait-to-start"} /\ "prompt-connect-to-device" \notin OfDevice
    BY DEF StepId, Prompting, OfDevice
  <2> QED BY <1>1, <1>2, <1>3, <1>4, <1>5, <2>1, TransitionKeepsInv
<1>6. ASSUME NEW d \in devices, UseDevice(d, devices, pending)
      PROVE  SetupInv'
  BY <1>1, <1>2, <1>3, <1>6, UseDeviceKeepsInv
<1>7. CASE StepTransition("prompt-choose-device", [setup EXCEPT !.available = devices], pending, configured)
  <2> DEFINE data == [setup EXCEPT !.available = devices]
  <2>1. data \in Data /\ data.selected = setup.selected
    BY <1>3 DEF Data
  <2>2. "prompt-choose-device" \in StepId \ {"wait-to-start"} /\ "prompt-choose-device" \notin OfDevice
    BY DEF StepId, Prompting, OfDevice
  <2>3. StepTransition("prompt-choose-device", data, pending, configured)
    BY <1>7
  <2> HIDE DEF data
  <2> QED BY <1>1, <1>2, <1>3, <1>4, <2>1, <2>2, <2>3, TransitionKeepsInv
<1> QED BY <1>5, <1>6, <1>7 DEF AnswerDevices, pending

LEMMA SetupInvStep == SetupInv /\ [SetupNext]_setupVars => SetupInv'
<1> SUFFICES ASSUME SetupInv, [SetupNext]_setupVars PROVE SetupInv'
  OBVIOUS
<1>1. CASE UNCHANGED setupVars
  BY <1>1 DEF SetupInv, SetupTypeOK, ConfiguredIsSelected, StartsOnDecision, OneQuestion,
     ConnectedIsSelected, NothingBefore, AskedOfDevice, setupVars
<1>2. CASE InitializeStartListener
  <2>1. /\ listener = "absent" /\ StoreChanged(~firstTime)
        /\ UNCHANGED <<firstTime, abandoned>>
    BY <1>2 DEF InitializeStartListener
  <2>2. firstTime \in BOOLEAN /\ step = "wait-to-start"
    BY <2>1 DEF SetupInv, SetupTypeOK, NothingBefore
  <2>3. PICK decided \in BOOLEAN : decided = ~firstTime
    BY <2>2
  <2>4. StoreChanged(decided) /\ firstTime' = ~decided
    BY <2>1, <2>2, <2>3
  <2> QED BY <2>1, <2>2, <2>4, StoreChangedKeepsInv
<1>3. CASE SetTelemetryState
  <2>1. /\ firstTime /\ listener = "listening" /\ firstTime' = FALSE
        /\ StoreChanged(TRUE) /\ UNCHANGED abandoned
    BY <1>3 DEF SetTelemetryState
  <2>2. step = "wait-to-start"
    BY <2>1 DEF SetupInv, StartsOnDecision
  <2> QED BY <2>1, <2>2, StoreChangedKeepsInv
<1>4. ASSUME NEW a \in {"saveAdbPath", "next", "cancel", "rescan"}, Press(a)
      PROVE  SetupInv'
  BY <1>4, PressKeepsInv
<1>5. CASE StartTesting
  BY <1>5, PressKeepsInv DEF StartTesting
<1>6. ASSUME NEW d \in Device, SetSelectedDevice(d)
      PROVE  SetupInv'
  <2>1. /\ step = "prompt-choose-device" /\ UseDevice(d, setup.available, questions)
        /\ UNCHANGED <<firstTime, listener, abandoned>>
    BY <1>6 DEF SetSelectedDevice
  <2>2. setup.available \in SUBSET Device /\ questions \in [Slot -> Question \cup {Null}]
    BY DEF SetupInv, SetupTypeOK
  <2>3. ~abandoned => \A q \in Slot : questions[q] = Null
    BY <2>1, NoQuestion DEF Prompting
  <2> QED BY <2>1, <2>2, <2>3, UseDeviceKeepsInv
<1>7. ASSUME NEW q \in Slot, QuestionEnds(q)
      PROVE  SetupInv'
  BY <1>7, AnswerKeepsInv, AnswerDevicesKeepsInv DEF QuestionEnds
<1> QED BY <1>1, <1>2, <1>3, <1>4, <1>5, <1>6, <1>7 DEF SetupNext

LEMMA SetupInvariance == SetupSpec => []SetupInv
<1>1. SetupInit => SetupInv
  BY SetupInitEstablishesInv
<1>2. SetupInv /\ [SetupNext]_setupVars => SetupInv'
  BY SetupInvStep
<1> QED BY <1>1, <1>2, PTL DEF SetupSpec

-----------------------------------------------------------------------------
(* Theorems.                                                                *)

\* The device of the store is the one commands are sent to: every handler that tells
\* one of the two tells the other, or forgets the device.
THEOREM SetupConfiguredIsSelected == SetupSpec => []ConfiguredIsSelected
<1>1. SetupInv => ConfiguredIsSelected
  BY DEF SetupInv
<1> QED BY <1>1, SetupInvariance, PTL

\* The start listener starts the wizard at the decision about telemetry, neither
\* before nor never, whenever it was registered.
THEOREM SetupStartsOnDecision == SetupSpec => []StartsOnDecision
<1>1. SetupInv => StartsOnDecision
  BY DEF SetupInv
<1> QED BY <1>1, SetupInvariance, PTL

\* As long as no installation is abandoned the wizard awaits one answer at most, that
\* to the question of its step.
THEOREM SetupOneQuestion == SetupSpec => []OneQuestion
<1>1. SetupInv => OneQuestion
  BY DEF SetupInv
<1> QED BY <1>1, SetupInvariance, PTL

\* As long as no installation is abandoned testing is offered for the selected device
\* and with the application found on that device.
THEOREM SetupConnectedIsSelected == SetupSpec => []ConnectedIsSelected
<1>1. SetupInv => ConnectedIsSelected
  BY DEF SetupInv
<1> QED BY <1>1, SetupInvariance, PTL
=============================================================================
