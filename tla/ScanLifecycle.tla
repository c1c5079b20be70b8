---------------------------- MODULE ScanLifecycle ----------------------------
(***************************************************************************)
(* One target page and the part of the extension that scans it: the        *)
(* visualization store and the inspect store of its tab context, the       *)
(* injector controller that listens to both, the content script it loads   *)
(* into the page with its store proxy and analyzers, and the two message   *)
(* channels between them.                                                  *)
(*                                                                         *)
(* A view toggles a test; the store marks it as scanning and asks for an   *)
(* injection; the injector loads the content script; once no injection is  *)
(* wanted any more the content script starts the analyzer; its completion  *)
(* clears the scan.  Meanwhile the page may be left, its URL may change    *)
(* under a living content script, and messages take their time.            *)
(***************************************************************************)
EXTENDS VisualizationStore, FiniteSets

CONSTANTS
  FocusTracking,   \* keys whose analyzer records tab stops until it is torn down
  Batched,         \* keys whose analyzers share one scan and all report it
  InspectMode,     \* the inspect modes other than off
  Off,
  Event,           \* what may happen to the page and what may go wrong
  ViewMessage,     \* the kinds of messages the views send
  MaxInjections,   \* bound: injections and their timers under way at a time
  MaxMessages,     \* bound: the views and the page wait while a channel holds more
  MaxScans,        \* bound: they wait while that many scans of a key run
  MaxTabUpdates    \* bound: tab updates the browser has yet to report

\* "leave": another document is loaded.  "url": the URL changes but the document
\* stays.  "injectionFails": executeScript rejects or times out.  "timerLags": the
\* ten millisecond timer of an injection is still to fire when the injection
\* completes or its page is left.  "scanFails": an analyzer ends without a result.
AllEvents == {"leave", "url", "injectionFails", "timerLags", "scanFails"}
AllViewMessages == {"toggle", "assess", "navigate", "connect"}

ASSUME LifecycleAssumption ==
  /\ FocusTracking \subseteq Key
  /\ Batched \subseteq Requirement /\ IsFiniteSet(Batched)
  /\ Off \notin InspectMode
  /\ Null \notin State
  /\ Event \subseteq AllEvents
  /\ ViewMessage \subseteq AllViewMessages
  /\ {MaxInjections, MaxMessages, MaxScans, MaxTabUpdates} \subseteq Nat \ {0}

VARIABLES
  inspectMode,       \* inspect store
  oldInspectType,    \* injector controller: the mode it saw last
  injection,         \* injector controller: the injections under way
  script,            \* the page's content script
  proxy,             \* content script: state of the visualization store proxy
  prevState,         \* content script: the state the analyzers last acted on
  running,           \* content script: how many scans of each key run
  listening,         \* content script: the tab stops listener is recording
  toScript,          \* store updates on their way to the page
  toBackground,      \* messages on their way to the background page
  tabUpdates         \* tab updates the browser has yet to report

background == <<vis, inspectMode, oldInspectType, injection>>
page == <<script, proxy, prevState, running, listening>>
channels == <<toScript, toBackground>>
vars == <<background, page, channels, tabUpdates>>

Slot == 1..MaxInjections
InjectionState == [phase : {"none", "loading", "loaded", "timedOut"}, timer : BOOLEAN]
NoInjection == [phase |-> "none", timer |-> FALSE]
FreshInjection == [phase |-> "loading", timer |-> TRUE]
InFlight(i) == injection[i].phase \in {"loading", "loaded"}

LifecycleInit ==
  /\ StoreInit
  /\ inspectMode = Off
  /\ oldInspectType = Off
  /\ injection = [i \in Slot |-> NoInjection]
  /\ script = "absent"
  /\ proxy = Null
  /\ prevState = Null
  /\ running = [k \in Key |-> 0]
  /\ listening = FALSE
  /\ toScript = <<>>
  /\ toBackground = <<>>
  /\ tabUpdates = 0

\* These bounds hold back the user and the page only, so that they delay nothing
\* that is already under way.
Room ==
  /\ Len(toScript) < MaxMessages
  /\ Len(toBackground) < MaxMessages
  /\ \A k \in Key : running[k] < MaxScans

-----------------------------------------------------------------------------
(* The background page.                                                    *)

\* The injector controller's listener, run for one emission of a store.
WantsInjection(s, mode, oldMode) ==
  /\ s.injectingRequested \/ (mode # oldMode /\ mode # Off)
  /\ ~s.injectingStarted

FreeSlots(inj) == {i \in Slot : inj[i] = NoInjection}

\* n injections are launched, each with its own timer, into whichever slots.
CanLaunch(inj, n) == \E slots \in SUBSET FreeSlots(inj) : Cardinality(slots) = n

Launch(inj, n) ==
  LET slots == CHOOSE S \in SUBSET FreeSlots(inj) : Cardinality(S) = n
  IN  [i \in Slot |-> IF i \in slots THEN FreshInjection ELSE inj[i]]

\* The state dispatcher broadcasts what a store emits to the page.
Broadcast(states) == toScript' = toScript \o states

\* The store takes the outcome of a handler: every state it emits is broadcast to
\* the page and seen by the injector controller.  inj is what else the step made
\* of the injections.
Launches(outcome) ==
  Cardinality({j \in DOMAIN outcome.emitted :
                 WantsInjection(outcome.emitted[j], inspectMode, oldInspectType)})

Take(outcome, inj) ==
  /\ CanLaunch(inj, Launches(outcome))
  /\ vis' = outcome.state
  /\ Broadcast(outcome.emitted)
  /\ injection' = Launch(inj, Launches(outcome))

\* What a view's message can make of the store.  A view that connects asks for
\* the current state, which the store emits to everybody.
ViewOutcomes ==
  (IF "toggle" \in ViewMessage THEN ToggleOutcomes(vis) ELSE {})
    \cup (IF "assess" \in ViewMessage THEN AssessmentOutcomes(vis) ELSE {})
    \cup (IF "navigate" \in ViewMessage THEN NavigationOutcomes(vis) ELSE {})
    \cup (IF "connect" \in ViewMessage THEN {OnGetCurrentState(vis)} ELSE {})

ReceiveViewMessage ==
  /\ Room
  /\ \E o \in ViewOutcomes : Take(o, injection)
  /\ UNCHANGED <<inspectMode, oldInspectType, page, toBackground, tabUpdates>>

\* onChangeInspectMode of the inspect store and the injector's reaction to it.
\* The same mode again stands for what else the inspect store emits: its state when
\* somebody asks for it, a selector that is hovered over.  Its broadcasts do not
\* reach the analyzers.
ChangeInspectMode(mode) ==
  LET n == IF WantsInjection(vis, mode, oldInspectType) THEN 1 ELSE 0
  IN  /\ mode = inspectMode \/ Room
      /\ CanLaunch(injection, n)
      /\ inspectMode' = mode
      /\ oldInspectType' = mode
      /\ injection' = Launch(injection, n)
      /\ UNCHANGED <<vis, page, channels, tabUpdates>>

\* The ten milliseconds of an injection are over: InjectionStarted.
FireTimer(i) ==
  /\ injection[i].timer
  /\ Take(OnInjectionStarted(vis), [injection EXCEPT ![i].timer = FALSE])
  /\ UNCHANGED <<inspectMode, oldInspectType, page, toBackground, tabUpdates>>

\* The injection's promise resolves: InjectionCompleted.
ResolveInjection(i) ==
  /\ injection[i].phase = "loaded"
  /\ injection[i].timer => "timerLags" \in Event
  /\ Take(OnInjectionCompleted(vis), [injection EXCEPT ![i].phase = "none"])
  /\ UNCHANGED <<inspectMode, oldInspectType, page, toBackground, tabUpdates>>

\* The injection's promise rejects, which is logged and nothing else; when it is
\* the time limit that rejects, the browser may still run the script later.
RejectInjection(i) ==
  /\ "injectionFails" \in Event
  /\ injection[i].phase = "loading"
  /\ \E phase \in {"none", "timedOut"} :
       injection' = [injection EXCEPT ![i].phase = phase]
  /\ UNCHANGED <<vis, inspectMode, oldInspectType, page, channels, tabUpdates>>

\* The browser reports that the tab was updated.
UpdateTargetTab ==
  /\ tabUpdates > 0
  /\ tabUpdates' = tabUpdates - 1
  /\ Take(OnExistingTabUpdated(vis), injection)
  /\ inspectMode' = Off
  /\ oldInspectType' = Off
  /\ UNCHANGED <<page, toBackground>>

\* A message from the page: a request for the store's state, or a completed scan.
\* The completion says which scan it is of; the store does not look.
ReceiveScriptMessage ==
  /\ toBackground # <<>>
  /\ toBackground' = Tail(toBackground)
  /\ Take(IF Head(toBackground) = "getState" THEN OnGetCurrentState(vis)
                                             ELSE OnScanCompleted(vis),
          injection)
  /\ UNCHANGED <<inspectMode, oldInspectType, page, tabUpdates>>

-----------------------------------------------------------------------------
(* The page.                                                               *)

Send(messages) == toBackground' = toBackground \o messages

\* An injected script runs.  The first one in a document registers the store
\* proxies and asks for their states; a later one finds the first one there.
RunScript(i) ==
  /\ injection[i].phase \in {"loading", "timedOut"}
  /\ injection' = [injection EXCEPT ![i].phase = IF @ = "loading" THEN "loaded" ELSE "none"]
  /\ IF script = "absent"
     THEN /\ script' = "waiting"
          /\ Send(<<"getState">>)
     ELSE UNCHANGED <<script, toBackground>>
  /\ UNCHANGED <<vis, inspectMode, oldInspectType, proxy, prevState, running, listening,
                 toScript, tabUpdates>>

\* A fault: the states are compared the wrong way round.
TerminatedSwapped(prev, curr) ==
  {k \in Key : prev # Null /\ ~IsOn(prev, k) /\ IsOn(curr, k)}

\* A test was on and is off: an assessment's requirement counts only if the new
\* state still has an entry for it.
Terminated(prev, curr) ==
  {k \in Key : /\ prev # Null
               /\ IsOn(prev, k)
               /\ ~IsOn(curr, k)
               /\ k \in Requirement => curr.step[k] # "unset"}

\* A fault: that the injection is over is not taken for a reason to start.
StartsScanOnNewOnly(prev, curr) ==
  /\ curr.scanning # Null
  /\ ~curr.injectingRequested
  /\ prev = Null \/ prev.scanning # curr.scanning

StartsScan(prev, curr) ==
  /\ curr.scanning # Null
  /\ ~curr.injectingRequested
  /\ \/ prev = Null
     \/ prev.scanning # curr.scanning
     \/ prev.injectingRequested # curr.injectingRequested

\* handleUpdate: tear down the analyzers of the tests that went off, then start
\* the one of the scan that is due.  All tab stop analyzers share one listener.
HandleUpdate(curr) ==
  LET starts == StartsScan(prevState, curr)
      stillListening == listening /\ Terminated(prevState, curr) \cap FocusTracking = {}
  IN  /\ running' = IF starts THEN [running EXCEPT ![curr.scanning] = @ + 1] ELSE running
      /\ listening' = (stillListening \/ (starts /\ curr.scanning \in FocusTracking))
      /\ prevState' = curr

\* A store update arrives at the page.  Without a content script it is lost; one
\* that equals the proxy's state is ignored; the analyzers act on the others once
\* all the stores they need have arrived.
ReceiveUpdate ==
  /\ toScript # <<>>
  /\ toScript' = Tail(toScript)
  /\ IF script = "absent" \/ Head(toScript) = proxy
     THEN UNCHANGED <<proxy, prevState, running, listening>>
     ELSE /\ proxy' = Head(toScript)
          /\ IF script = "ready"
             THEN HandleUpdate(Head(toScript))
             ELSE UNCHANGED <<prevState, running, listening>>
  /\ UNCHANGED <<background, script, toBackground, tabUpdates>>

\* The feature flags and the scoping state have arrived as well.
ReceiveOtherStores ==
  /\ script = "waiting"
  /\ script' = "ready"
  /\ IF proxy = Null
     THEN UNCHANGED <<prevState, running, listening>>
     ELSE HandleUpdate(proxy)
  /\ UNCHANGED <<background, proxy, channels, tabUpdates>>

\* A scan ends; a batched one reports for every analyzer of the batch.
CompleteAnalysis(k) ==
  /\ running[k] > 0
  /\ running' = [running EXCEPT ![k] = @ - 1]
  /\ Send([i \in 1..(IF k \in Batched THEN Cardinality(Batched) ELSE 1) |-> "scanCompleted"])
  /\ UNCHANGED <<background, script, proxy, prevState, listening, toScript, tabUpdates>>

\* The scanner reports an error, which is logged and nothing else.
FailAnalysis(k) ==
  /\ "scanFails" \in Event
  /\ running[k] > 0
  /\ running' = [running EXCEPT ![k] = @ - 1]
  /\ UNCHANGED <<background, script, proxy, prevState, listening, channels, tabUpdates>>

-----------------------------------------------------------------------------
(* The user and the browser.                                               *)

\* The document is replaced and its content script with it.  The browser reports
\* the new URL, the end of the loading, or both.
LeavePage ==
  /\ "leave" \in Event
  /\ Room
  /\ (\E i \in Slot : injection[i].timer) => "timerLags" \in Event
  /\ \E n \in 1..2 : /\ tabUpdates + n <= MaxTabUpdates
                     /\ tabUpdates' = tabUpdates + n
  /\ script' = "absent"
  /\ proxy' = Null
  /\ prevState' = Null
  /\ running' = [k \in Key |-> 0]
  /\ listening' = FALSE
  /\ UNCHANGED <<background, channels>>

\* The URL changes and the document stays, its content script with it.
ChangeUrl ==
  /\ "url" \in Event
  /\ Room
  /\ tabUpdates < MaxTabUpdates
  /\ tabUpdates' = tabUpdates + 1
  /\ UNCHANGED <<background, page, channels>>

Environment ==
  \/ ReceiveViewMessage
  \/ \E mode \in InspectMode \cup {Off} : ChangeInspectMode(mode)
  \/ \E i \in Slot : RejectInjection(i)
  \/ \E k \in Key : FailAnalysis(k)
  \/ LeavePage
  \/ ChangeUrl

LifecycleNext ==
  \/ Environment
  \/ \E i \in Slot : FireTimer(i) \/ ResolveInjection(i) \/ RunScript(i)
  \/ UpdateTargetTab
  \/ ReceiveScriptMessage
  \/ ReceiveUpdate
  \/ ReceiveOtherStores
  \/ \E k \in Key : CompleteAnalysis(k)

LifecycleSpec == LifecycleInit /\ [][LifecycleNext]_vars

\* The browser runs timers and scripts and delivers messages; scans end.  Nobody
\* makes the user act or the page change.
Fairness ==
  /\ \A i \in Slot : /\ WF_vars(FireTimer(i))
                     /\ WF_vars(ResolveInjection(i))
                     /\ WF_vars(RunScript(i))
  /\ WF_vars(UpdateTargetTab)
  /\ WF_vars(ReceiveScriptMessage)
  /\ WF_vars(ReceiveUpdate)
  /\ WF_vars(ReceiveOtherStores)
  /\ \A k \in Key : WF_vars(CompleteAnalysis(k))

FairLifecycleSpec == LifecycleSpec /\ Fairness

-----------------------------------------------------------------------------
(* Properties.                                                             *)

LifecycleTypeOK ==
  /\ TypeOK
  /\ inspectMode \in InspectMode \cup {Off}
  /\ oldInspectType \in InspectMode \cup {Off}
  /\ injection \in [Slot -> InjectionState]
  /\ script \in {"absent", "waiting", "ready"}
  /\ proxy \in State \cup {Null}
  /\ prevState \in State \cup {Null}
  /\ running \in [Key -> Nat]
  /\ listening \in BOOLEAN
  /\ toScript \in Seq(State)
  /\ toBackground \in Seq({"getState", "scanCompleted"})
  /\ tabUpdates \in Nat

StateRequested == \E i \in DOMAIN toBackground : toBackground[i] = "getState"

\* Nothing is on its way that could still change what the page knows.
Settled == toScript = <<>> /\ ~StateRequested

\* However late the content script was loaded and whatever it missed before, once
\* nothing is on its way to it its proxy holds the store's state: every change is
\* emitted, updates arrive in order, and a new script asks for the state.
ProxyAgrees == script # "absent" /\ Settled => proxy = vis

\* While an injection is requested one is under way, so somebody will clear the
\* request.  It rests on injections that succeed and outlast their timers: the
\* store has no other way out of injectingRequested than a tab update.
RequestIsServed == vis.injectingRequested => \E i \in Slot : InFlight(i)

\* While the store is scanning something is under way that will end the scan.
\* If nothing were, every toggle would be ignored from then on.
ScanIsServed ==
  vis.scanning # Null =>
    \/ \E i \in Slot : InFlight(i)
    \/ toScript # <<>> \/ toBackground # <<>>
    \/ script = "waiting"
    \/ \E k \in Key : running[k] > 0
    \/ tabUpdates > 0

\* Once the page has heard of it, tab stops are recorded only while a test that
\* records them is on: the analyzer of a test that goes off is torn down.
RecordingOnlyWhileOn ==
  script = "ready" /\ Settled /\ listening
    => \E k \in FocusTracking : IsOn(vis, k)

\* Every scan ends, and with it the time in which toggles are ignored.
ScanEnds == vis.scanning # Null ~> vis.scanning = Null

\* Every injection request is cleared again.
InjectionEnds == vis.injectingRequested ~> ~vis.injectingRequested

=============================================================================
