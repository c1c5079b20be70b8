# Verification of Accessibility Insights for Web

This directory holds TLA+ models of the parts of the extension (and of the
Electron application built from the same code) whose behaviour depends on the
order in which things happen, the TLC configurations that check them on small
instances, and proofs about them that the TLA+ proof system checks for every
instance.

Paths are relative to the repository. `TLC` stands for the model checker,
`TLAPS` for the proof system.

## The system

The extension has a background page, a content script in every frame of every
page it is asked to scan, and views (popup, details view, Devtools panel). The
background page keeps one *tab context* per tab: flux stores, the action creators
that turn messages into actions, and the controllers that listen to stores.
Every store's change is broadcast to the tab and to the views, where a *store
proxy* mirrors it. Views and content scripts never change a store: they send
messages. The Electron application reuses stores, actions and views, without a
background page; it talks to a device over adb.

| Component | State | Operations | Interacts with | What is hard |
|---|---|---|---|---|
| Visualization store | which tests and assessment requirements are on, what is being scanned, injection flags, selected pivot and view, focused target | enable, disable, rescan, pivot changes, scan and injection events, tab updates | action creator, injector controller, proxies | ignored while scanning; flag and steps of assessments; two tests exclude one another |
| Injector controller, content script injector | last inspect mode; injections under way | react to each emission of two stores; timer, success, failure | visualization store, inspect store, browser | overlapping injections, late timers, failures that are only logged |
| Inspect store | inspect mode | change, reset on tab update | injector controller | shares the injector |
| Content script: proxies, analyzer controller, analyzers | proxy state, previous state, running scans, tab stops listener | start and tear down analyzers on state edges | broadcasts, scan messages | missed and duplicate broadcasts, edges, page changes |
| State dispatcher, broadcaster | none | broadcast each emission | stores, proxies | lost when no script listens |
| Frame communication, backchannel | pending callbacks, listeners, stored contents, messages under way | request, respond, time out, store, pop | content scripts of frames, background page | late and lost answers, replay, un-awaited promises, reloads |
| Tab contexts, details view windows | contexts by tab, details view by target tab, visibility | navigation, activation, removal, open | browser events with awaited queries | answers out of order, check-then-act over an await |
| Scan results, card selection | results per test, tab stops in order, cards per rule | scan completed, toggles, tab updates | action creator, visualization store | results against toggles, stale results |
| Assessment store | instances, statuses, original statuses, final results, navigation | set, undo, pass unmarked, rescan, load, reset | IndexedDB | undo, final result consistent with instances, persistence races |
| Drawing | previous visualization state per step, drawers | enable, disable, redraw | proxies of several stores | edges over several stores |
| Tab stops recording | listeners and debounced batches per frame | start, stop, report | frame communication | batches after the stop |
| Actions, interpreter, permissions | executing scopes, permission state | invoke, ask the browser | all stores | nested actions, answers out of order |
| Android setup wizard (Electron) | current step, devices, pending answers, the device of the configurator | user actions, answers of adb | user configuration store, results view | answers that come after a cancel, a device kept in two places |
| Device scans (Electron) | scan status, connection status, unified results | start, complete, fail | device | overlapping scans |
| Global stores, shortcuts, views, test definitions, scanner, reports, telemetry, windows | | | | not modelled, see the end |

What makes each component correct is in `PROJECT.json`: the properties, and under
`hazards` the lines of code they watch over.

## What is modelled

`ScanLifecycle` extends `VisualizationStore` and composes it with its
surroundings; `VisualizationStore` implements `ScanSession`. `FrameCommunication` extends
`WindowMessages` and implements `RemoteCalls`. `ElectronApp` composes `AndroidSetup` and
`DeviceScan`. `TabContexts` and `AssessmentResults` stand alone: the first has of the
visualization store only whether an assessment is visualized and whether a test is being scanned, the
second what arrives from the scans that `ScanLifecycle` models. Each detailed module has a module of
instances for TLC (`MC...`) and one of proofs (`..._proofs`).

### VisualizationStore

Every action listener of `background/stores/visualization-store.ts` is an operator
that takes the store's state and returns the next state with the sequence of
states it emits. The sequence matters: `emitChanged` calls the injector
controller and the broadcaster synchronously, so a handler that emits twice
(a rescan, opening the details view) is seen twice. The handlers of
`background/actions/action-creator.ts` that drive the store are compositions
(`Then`) of those operators. A handler is one atomic step because the background
page is single threaded and an action cannot be invoked from inside another of
its scope.

| Code | Model |
|---|---|
| `tests.adhoc[k].enabled` | `adhoc[k]` |
| `tests.assessments[a].enabled`, `.stepStatus[r]` | `assessment[a]`, `step[r]` with `"unset"` for a missing entry |
| `scanning`, `injectingRequested`, `injectingStarted` | same names |
| `selectedDetailsViewPivot`, `selectedFastPassDetailsView` | `pivot`, `fastPassView` |
| `focusedTarget` | `focusedTarget` |
| `selectedAdhocDetailsView` | left out: nothing ever changes it |

### ScanSession

The abstract specification: a set of visualizations that are on, and at most
one scan, during which nobody can switch anything. `SessionSpec` is
`ScanSession`'s specification under the refinement mapping `on <- {k : IsOn(vis, k)}`.

### ScanLifecycle

| Code | Model |
|---|---|
| `injector-controller.ts` `inject`, run on every emission of both stores | `WantsInjection`, `Launches`, `Take`, `ChangeInspectMode` |
| its timer, `InjectionStarted` | `FireTimer` |
| the injector's promise: resolved, rejected or timed out | `ResolveInjection`, `RejectInjection` |
| the browser running the script; `client-init.ts`, `main-window-initializer.ts` | `RunScript` |
| `target-page-controller.ts`, `ExistingTabUpdated` | `LeavePage`, `ChangeUrl` (the browser), `UpdateTargetTab` (the report) |
| store updates to the page, `store-proxy.ts` | `toScript`, `ReceiveUpdate` |
| `analyzer-controller.ts`, `analyzer-state-update-handler.ts` | `HandleUpdate`, `Terminated`, `StartsScan`, `ReceiveOtherStores` |
| analyzers and `ScanCompleted` messages, a batch reporting for each of its rules | `CompleteAnalysis`, `FailAnalysis` |
| the action creator's handlers of messages from the page | `ReceiveScriptMessage` |

An injection is a slot with a phase and its own timer; several may be under way.
A script that is injected into a document that already has one does nothing.
Each channel delivers in order. An update that arrives while the page has no
content script is lost. The feature flag and scoping stores matter to the
analyzers only in that they have to arrive once (`ReceiveOtherStores`); a later
change of theirs calls `handleUpdate` with an equal state, which does nothing. All
analyzers that track focus share one tab stops listener, so `listening` is one
flag. A teardown's own message only reaches the scan result store and is left
out. The inspect store's other emissions (its state when asked for, a selector
that is hovered over) make the injector look again without changing the mode:
`ChangeInspectMode` with the current mode.

### WindowMessages

How messages travel between the windows of a page, for whoever sends them. A window
posts an opaque identifier, which the page can read and repeat, and sends the content to the
background page, which hands it out once.

| Code | Model |
|---|---|
| `browser-backchannel-window-message-poster.ts` `postMessage` | `Post`: the content is `storing`, the identifier one of `copies` |
| `post-message-content-handler.ts`, storing | `StoreContent` |
| the poster's `onWindowMessageEvent`, up to the request for the content | `ReceiveIdentifier` |
| `post-message-content-repository.ts` `popContent` | `PopContent`; `stale` holds the records older than a minute |
| `onWindowMessageEvent` after the awaited answer | `Receive`, part of the handler the message is for |
| the page repeating what it has seen | `Replay` |

A message is its identifier: the handlers generate a new one for each. Messages that are not
the extension's own do not parse and are left out.

### RemoteCalls

The abstract specification: a request is unsent, waiting, answered, timed out or abandoned;
it is served once, answered only after that and only while it waits.
`RemoteCallSpec` is its specification under the refinement mapping that reads the caller's outcome
as the phase, the requests given to listeners as served and the responses that
got past the callback as answers.

### FrameCommunication

| Code | Model |
|---|---|
| `respondable-command-message-communicator.ts` `sendCallbackCommandMessage`, with `sendPromiseCommandMessage` on top | `SendRequest`, `callbacks`, `outcome` |
| its thirty second limit | `TimeOut` (the callback stays) |
| `onResponseMessage` with the recorded callback | `HandleResponse`, `Reaches`, `given` |
| `onRequestMessage`: no listener, promise listener, callback listener | `RefuseRequest`, `ServePromise` and `FinishListener`, `ServeCallback` |
| `makeSendResponseCallback` | `Respond`, `RespondLater` |
| `axe-frame-messenger.ts` `post` and `onMessage` | `Kind` `"single"` or `"multiple"`; `ServeCallback`, the case `"nothing"` of `Reaches` |
| `window-initializer.ts` | `Initialize` |

A message is a pair of a request and a number, 0 for the request itself and `n` for the
`n`-th response. Of a payload the model knows whether it is a value, an error or
empty: an empty one settles a promise but makes axe-core's callback throw. `atWork`
holds the requests whose listener is not done: a promise listener that has not
settled (its result is dropped), or axe-core, which may call its responder at any time.
All listeners of a window are registered while its content script initializes, in one turn,
so `Listener` is a constant; what a window does not register is refused. axe-core answers only
its parent's requests. A reload forgets what the document registered and what was
addressed to it, except contents and identifiers that are still on their way. The
identifiers go on to the next document in that window, which may not have a content script
yet.

### AndroidSetup, DeviceScan, ElectronApp

`AndroidSetup` has the wizard's steps as data: which action of the user, and which answer to the
question that `onEnter` awaits, leads to which step. `QuestionEnds` is the rest of `onEnter` after its
await. It does not ask which step the machine is in by then, just as the code does not; what keeps
the wizard straight is that all steps but one cannot be left before their answer.

| Code | Model |
|---|---|
| `state-machine.ts`, `allAndroidSetupStepConfigs` | `AfterAction`, `AfterAnswer`, `allAndroidSetupStepConfigs` |
| a step's `onEnter` up to its await, and after it | `OnEnter`; `Answer`, `QuestionEnds` |
| `android-setup-store.ts` | `step`, `setup` |
| the device configurator's selected device | `configured` |
| `android-setup-start-listener.ts`, `isFirstTime` | `InitializeStartListener`, `SetTelemetryState`, `listener` |
| `scan-action-creator.ts`, both listeners of `scanStarted` | `Scan` |
| `scan-controller.ts` `scanCompleted`, `scanFailed` | `FetchEnds` |
| `results-view.tsx`, window state store | `OpenResultsView`, `StartOver`, `RedetectDevice`, `route` |

A rejected question leaves the step as the code does (`detect-devices` takes a failing adb
for no devices). A scan's report is turned into results by code that may throw after the device has
answered: `scanFailed` then follows. `abandoned` is a history variable: an installation was
cancelled before its answer, which is the condition of the finding. The adb wrapper's own copy of
the device id, which each of its operations sets first, is left out; an operation of two commands
(`grantPermission`) could run its second one on another device only if two questions race.

### TabContexts

The background page hears of tabs as things happen, but asks the browser for more
(`getTab`, `getAllWindows`, `getSelectedTabInWindow`) and goes on when the answer comes. `requests` is what
has been asked. Answers come in the order asked, and each describes the browser at that moment.

| Code | Model |
|---|---|
| `target-page-controller.ts` | `OpenTab`, `ActivateTab`, `ToggleWindow`, `LoadTab`, `RemoveTab`, and the `Answer...` actions after its awaits |
| `extension-details-view-controller.ts` `showDetailsView` | `ShowDetailsView`, `AnswerNewWindow`, `AnswerSwitchTo` |
| its `onUpdateTab`, `onRemoveTab` | `Navigate`, `ClosedBy` |
| `tab-store.ts` | `store[t]`, `OnVisibilityChange`, `OnNewTabCreated`, `OnExistingTabUpdated` |
| `message-distributor.ts`: messages for a tab without context | `Interpret` |
| `target-tab-finder.ts`, `popup-action-creator.ts` | `OpenPopup`, `PopupInitialized` |
| `visualization-store.ts` `enableTest`, `toggleTestOff` of every assessment, `scanCompleted` | `OnEnableTest`, `OnDisableAssessmentVisualizations`, `OnScanCompleted` on the fields `assessing` and `scanning` |
| `action-creator.ts`: visual helpers, toggles and rescans, starting over | `EnableAssessment`, `EnableAdhocTest`, `DisableAssessments` |
| its handlers of completed scans, with `target-tab-controller.ts` | `CompleteScan` |
| its `onDetailsViewOpen`, `onPivotChildSelected` | `ShowDetailsView`, which may turn a test on, or the tests off |

Three history variables mark what the code does not provide for: `strayed`, tabs for which two
details views were opened at once, or which went back in the history of a window to a details view
that was left; `misled`, tabs whose popup announced a page they had left since; and `held`, tabs
whose details view was closed while one of their assessments was being scanned. `toggleTestOff` changes nothing during a scan
and the end of the scan does not make up for it, so that such an assessment stays visualized
until it is turned off from a new details view, another test is turned on, or the page
changes. The properties say what holds without them. A scan may go on for as long as it likes; what
goes on inside is in `ScanLifecycle`. `isChanged`, a hint for the views, and the Devtools
connection are left out. Each URL stands for an origin of its own. A tab that is duplicated
together with the details view it shows is left out, and so is that `hasUrlChange` compares a prefix of
the URL, by which the details view of tab 12 passes for that of tab 1.

### AssessmentResults

| Code | Model |
|---|---|
| `assessment-store.ts`, handlers of results and statuses | an action of the same name each |
| `testStepResults`, `manualTestStepResultMap`, `testStepStatus` of a requirement | `assessment.reqs[r]`: `instances`, `status` and `failures`, `final` and `scanned` |
| `updateManualTestStepStatus`, `getGroupResult`, `applyInitialManualTestStatus` | `WithManualResult`, `GroupResult`, `WithInitialStatus` |
| `assessment-data-converter.ts`, `assessment-data-remover.ts` | `WithInstances`, `TrackingCompleted` |
| `emitChanged`, which persists without waiting | `Emit`, `writes`, `WriteLands` |
| `updateTargetTabWithId` and its awaited tab | `lookups`, `TabFound`, `TabNotFound` |
| `initial-assessment-store-data-generator.ts`, `create-initial-assessment-test-data.ts` | `InitialState`, `Restart`, `LoadAssessment` |

`Math.max` in `getGroupResult` takes the `null` that a second undo leaves for PASS, and makes `NaN` of the
`undefined` that an undo leaves when a scan has replaced the result it was meant for. Both
are in the model (`"null"`, `"undefined"`, `"NaN"`), and so is how they come about: the
details view offers what a state offered that the store has left since (`shown`). `found` is
history, the status the last scan gave. A handler that throws, because what it is
about is gone, changes nothing. A write that fails is not modelled: `setItem` returns `false`,
nobody looks, and the copy stays behind until the next change.

## Runs

| Run | Question | Instance |
|---|---|---|
| `visualization_store` | does the store keep its invariants and implement the session, whatever the order of its actions? | three ad hoc tests, two of which exclude one another, two assessments, three requirements, both pivots |
| `scan_faults` | do page and store agree in the end, and is recording torn down, when anything may go wrong? | three ad hoc tests and an assessment without requirements, all five events, two injections, one message per channel |
| `scan_served` | is an injection under way whenever one is requested, and something whenever a scan runs? | all ad hoc tests, an inspect mode, two injections, page changes, no failures |
| `scan_live` | does every scan end and every request clear? | an assessment with a batch whose two requirements both report, one injection, fairness |
| `teardown_on_reset` | is a recording requirement torn down on a URL change? (it is not) | one requirement that records tab stops |
| `frame_faults` | is a request served once and answered only by its answers, when anything may go wrong? | one request of axe-core for one answer, whose listener may answer twice, all six events, two copies of an identifier |
| `frame_served` | is a callback or a content left behind, or a promise not answered, although no message is lost? | a promise of the top window that the frame listens to and one of the frame for which nothing is registered, replays, slow listeners, one copy of an identifier, under fairness of delivery |
| `slow_listener` | is the answer what the listener resolved with? (it is not) | one promise, one listener that takes its time |
| `electron_app` | does the wizard come to a prompt, with one question at a time and one idea of the device, and do scans end with results of the selected device? | two devices, two questions and two fetches at a time, fairness of the answers |
| `late_install` | is a device selected when the results view is shown? (it is not, after an abandoned installation) | the same |
| `tab_contexts` | do contexts, visibility and details views follow the tabs, whenever the browser answers? | one tested tab and two more, three windows, two pages, tests with and without a scan, the user acts with up to one question open, and uses tests and popups with none |
| `assessment_results` | do results agree with what they are made of, can judgements be taken back, and does a restart go on where the store was? | two automated checks, an assisted and two manual requirements, two instances, one lookup of a tab, which changes may overlap |

What no run covers, and only the theorem `FrameImplementsCalls` does: requests for several answers (`Kind` `"multiple"`), and
a promise's `TimeOut` on a page that loses messages; in `frame_served` promises time out on one that loses none.

Each property of a passing run has a *mutant* in `PROJECT.json`: an operator of
the modules, marked "A fault" or "A bug to be caught" where it is defined, that stands for a plausible bug
and under which TLC finds the property violated.

### Bounds

* `MaxInjections` (1 or 2): two overlapping injections are the case the code does
  not expect; a third adds no new kind of overlap, since each slot is independent.
  The injector is only delayed, never skipped: `CanLaunch` holds a message back until a slot is free.
* `MaxMessages`, `MaxScans`, `MaxTabUpdates`: `Room` and the guards of `LeavePage` and
  `ChangeUrl` hold back only the user and the page, so that nothing that is already
  under way is delayed or lost.
* `MaxCopies` (1 or 2): copies of an identifier and requests for its content under way at a time; two
  race for a content, and only the page's replays are held back.
* `MaxResponses` (2): a listener of axe-core that could respond three times does nothing it could
  not do with two. No guard on a promise's answer depends on it.
* One or two requests: two requests share nothing but the windows they run in, which are
  reloaded together.
* `Slot`, `Fetch` (2): the wizard has one question under way unless an installation was abandoned, and then two
  race; scans do not overlap by the user's hand, and the second fetch is there for a button that would let them.
* `MaxRequests` (1): the user acts only with that few questions open, but one act asks up to three, so up
  to four answers are late at a time. `MaxTestRequests` (0): the user turns tests on and off and opens popups only with that few
  open, and a scan that ends by switching to its page does so with as few; what follows may come between. Nothing else that
  happens on its own is held back.
* One tested tab (`Target`), two spare tabs and two spare windows: a details view, a second one, or another
  page next to it.
* `MaxTouched` (2 requirements with results at a time) and `MaxNoted` (2 instances and failures among them): requirements
  share only the restoring of the automated checks, which are two, and the reset.
* The next change of an assessment waits for the write of the last one, and the details
  view is one change behind at most. Writes of the database land in order, so more of them would
  only make the copy older; one change is enough for a second undo and for an undo after a scan.
* `MaxLookups` (1): lookups of tabs under way. A change that begins no lookup may overlap the one that an earlier reset, load
  or continuation has begun; a change that begins another waits for it.
* Two of everything that is compared with its like: two exclusive tests, two
  requirements of one assessment and one of another.

### Assumptions

Events are chosen with the constant `Event`. In `ScanLifecycle`:

* `"leave"`, `"url"`: the page changes document or only URL.
* `"injectionFails"`: `injectScripts` rejects or takes longer than its limit. The code
  logs that and nothing else, so a request stays pending until the tab is updated.
* `"timerLags"`: the ten millisecond timer fires after the injection it announces has
  completed, or after its page was left. The store then waits for an injection
  nobody performs.
* `"scanFails"`: an analyzer ends without a result; the code logs it and the store
  goes on scanning.

`ProxyAgrees` and `RecordingOnlyWhileOn` hold with all of them. `RequestIsServed`,
`ScanIsServed` and the liveness properties are claimed, and true, only without the
last three; their counterexamples are short, and no comment or test of the
repository promises otherwise.

In `WindowMessages` and `FrameCommunication`:

* `"replay"`: the page posts an identifier again.
* `"overtaken"`: the request for a content reaches the background page before the content. The two
  come from different processes; the window gets an error and the message is lost.
* `"stale"`: a content is asked for after more than a minute, and is lost.
* `"reload"`: a window loads another document.
* `"unready"`: a request is sent to a window that has no content script yet.
* `"slow"`: a promise listener has not settled when it returns.

`HandledOnce` and `RemoteCallSpec` hold with all of them. `CallbackIsAwaited`, `ContentIsAwaited` and
`CallbackReleased` are claimed, and true, only if no message is lost (`"replay"` and `"slow"`): otherwise a
callback, or a content nobody asks for, stays for as long as the document or the background page
lives, because nothing else removes it. Callers that expect several answers keep their
callback in any case; the code says so.

In `ElectronApp`, adb may fail to answer any question and a device any fetch. In `TabContexts`, the browser may fail to
open a window and a tab may be gone when it is asked for. In `AssessmentResults`, the background page may end at any
moment and loses the writes that have not landed, and the tab of a reset or loaded assessment
may be gone: such an assessment lives in memory only, until the next change is emitted (`unsaved`), and a restart brings
the old one back.

### Fairness

`FairLifecycleSpec` assumes weak fairness of what the browser does on its own:
timers fire, scripts that were injected run, promises resolve, messages are
delivered, running scans end. Nothing is assumed of the user or of the page.
`DeliverySpec` assumes that the browser carries every message and runs the handlers of messages that
have arrived, and nothing of listeners or callers. `FairAppSpec` assumes that what adb or the device is asked is answered
or fails, which the time limits of the commands see to, and nothing of the user.
`TabContexts` and `AssessmentResults` have no liveness properties: nothing in them waits for anything but the browser and the database.

### The findings

`getTestKeysFromConfiguration` (`injected/analyzer-state-update-handler.ts`) lists the
steps to compare from the *new* state. `onExistingTabUpdated` resets `stepStatus` to
`{}`, and on a URL change without a new document the content script lives on, so a
requirement that was on is not among the keys and its analyzer is never torn
down: the tab stops listener keeps recording. `teardown_on_reset` shows the steps,
and `LifecycleRecording` proves that with ad hoc tests alone it cannot happen.

`logErrors` (`injected/frameCommunicators/respondable-command-message-communicator.ts:262`) calls its operation without
awaiting it. The operation of a promise listener is asynchronous, so `onRequestMessage` goes on before
a listener that takes any time has settled: it answers with an empty payload and
drops the result, although the comment on `addPromiseCommandMessageListener` says that the caller's promise
resolves with what the listener resolves with. `slow_listener` shows it.

`installing-service.ts:14` makes its transition whenever the installation ends, also when the user has cancelled it
and has gone on to `prompt-choose-device`, where no device is selected. From there the checks run on the device the configurator
still has, up to the button that opens the results view, and the code behind it takes a selected device for
granted. `late_install` shows the steps.

## Proofs

`VisualizationStore_proofs` proves every invariant of the store, `PivotSwitchClears` and
the refinement for all sets of tests, assessments and requirements. The
inductive invariant `Inv` strengthens the checked invariants: `AssessmentFlag` alone
is not inductive, because `toggleTestOff` looks at the steps only of an assessment
whose flag is set, and `OneRequirement` depends on `EnableTest` clearing all
assessments first, which works only because the flags are right. The proof has one lemma per handler
(`GoodOutcome`), which says that every state it emits and the state it ends
in satisfy `Inv` and that the step is one the session allows.

`ScanLifecycle_proofs` starts from `LifecycleImplementsStore`: every step of the
composition is a step of the store alone or leaves it unchanged, so all of the
above holds in it. `LInv` then adds the shape of the other variables (`Shape`), what the
page knows (`Informed`: the last update on its way, or else the proxy, is the store's
state, unless a request for the state is on its way) and what the analyzers have acted on
(`Acted`). From it follow `LifecycleTypes`, `LifecycleProxyAgrees`, `LifecycleRecording`
(under `FocusTracking \subseteq AdhocTest`, the hypothesis whose absence is the finding) and
`LifecycleRequestIsServed` (under `Event` without `"injectionFails"` and `"timerLags"`).

`LifecycleScanIsServed` (under `Event` without these two and `"scanFails"`) needs more, because `ScanIsServed` is about the moment
when everything is at rest and says nothing of how the scan got there. `Reached` is for a page without a content
script: what the store wants of it, a scan or an injection, is asked for by an injection whose script has yet to run, or is about
to be forgotten with a tab update. An injection that is under way is not enough, since it may have run its script in the page that
was left. That a new scan always comes with a request is `ViewAsks`. `Answered` is for a page with one: if the state the
analyzers acted on has a scan due (scanning, and no injection requested), a scan is running, or its completion is on its way, or an
update is on its way in which the scan is not due. The analyzers start a scan on an edge between two states, and every
passage from a state without a due scan to one with it is such an edge; so it is the last disjunct that keeps the edge
of the next scan from being missed.

Assumptions: `StoreAssumption` and `LifecycleAssumption`, which TLC evaluates on every run.

`FrameCommunication_proofs` proves `FrameTypeOK`, `HandledOnce` and the refinement of `RemoteCalls` for all windows,
requests, listeners and numbers of responses, whatever events may happen. `HandledOnce` says nothing
about where a content is; its strengthening `Tracked` does: a message that was not posted is
nowhere, a content that is stored has not been answered with yet, and what was handled
and what is about to be together make at most one. `Linked` ties a request to its responses: responses
are numbered without gaps (so that a fresh response really is fresh, which the code gets from its
generator of identifiers), they are posted only after the request was handled, and a callback that is not
a promise's belongs to a caller that waits. From `Linked` follow the two facts the refinement needs: a
response is an answer to something served, and it gets past the callback only if
its caller still waits.

`FrameContentsAreAwaited` and `FrameCallbacksAreAwaited` are about pages that lose no message (`Event` without `"overtaken"`, `"stale"`,
`"reload"` and `"unready"`; the page may replay and listeners may be slow). Their invariant `Lossless` says that requests are sent
between windows that listen, so that nothing is addressed to a window without a content script (`Listening`); that what was posted is
stored, on its way, or has been handed out (`Kept`); and that a promise's request is responded to when it is handled and its response removes
the callback (`PromisesKept`).

`AndroidSetup_proofs` proves the wizard's four invariants, which are inductive only together and with two more:
before the wizard starts nothing is asked (`NothingBefore`), and unless an installation was abandoned what is asked is asked of the device
that is configured, and a device is selected from its choice on (`AskedOfDevice`). The latter is what makes an answer, which nothing
ties to a device, one about the selected device. The table of steps enters in two lemmas (`ActionTable`, `AnswerTable`), so that no other
step of the proof looks into it.

`ElectronApp_proofs` shows that every step of the application is a step of the wizard or leaves it alone (`AppRunsTheWizard`).
`RouteLinked` relates the views to the scans: nothing is scanned while a device is being connected, and while results are shown the wizard
rests, and what is fetched, or was at last, is of its device. `AppScanIsFetched` and `AppResultsOfSelected` follow.

`AssessmentResults_proofs` proves all four invariants from `Consistent`, which says of a whole assessment what `FinalResultAgrees`
and `JudgementCanBeUndone` say of the store's, and which is kept for the database and the writes under way as well, since a restart
makes any of them the store's. `RestartResumes` rests on `EmittedResumes`: a start from what was emitted last gives what a start from
the store's own state gives, unless a lookup is under way or failed. A start is idempotent (`Dropped`: it drops
the automated checks if one of them was not scanned, and after that finds none to keep), so an assessment that was persisted by its own start resumes as well. `FileAssumption` says that a saved file that is loaded is consistent, and `StoreIsConsistent` that this
is so of whatever the store could have saved.

`TabContexts_proofs` proves all five invariants and `OriginChangeIsKept`, for all sets of tabs, windows and pages. `TabInv` has a part
for each concern. `Shape` relates tabs, windows and contexts: the active tab of an open window is one of its own, and exactly the open tabs have a
context. `Views` says that a tab that shows a details view was opened for it, and that a tab the map leads to, like one no user has had, has
never been tested itself; otherwise the navigation of a details view could take another one with it. From it follows
`AssessedWithDetailsView`, inductive by itself: only a details view turns an assessment on, and when it goes the assessment
goes or is `held`; every step that turns no assessment on keeps it (`NoMoreAssessed`). `Follows` says that a store whose URL is not
its page's will hear of it. `Visibility` orders the questions: one whose answer hides the tabs of a window is followed, in the
order of the answers, by one whose answer shows the active tab. Without the order a late
answer could have the last word.

Assumptions: `CommunicationAssumption` and `MessageAssumption`; `SetupAssumption`; `RequirementAssumption`, `BoundAssumption` (the bounds are
numbers) and `FileAssumption`; `FirstAssumption` (some tab is open at first, of finitely many: the questions about them are
a sequence) and `IdAssumption` (the browser's identifiers of tabs are not URLs, and nothing is `Null`).

So every invariant and action property that a run checks, and every refinement, is a theorem. Model-checked only: `ScanEnds`, `InjectionEnds`,
`CallbackReleased`, `WizardSettles` and `ScanSettles`. They are liveness under fairness, which is beyond the proof system; `ScanIsServed`,
`CallbackIsAwaited`, `OneQuestion` and `ScanIsFetched` are their safety halves, proved for every instance: what is waited for is under way.

The theorems are about the models as they stand, bounds included: a bound such as `MaxMessages` or `MaxInjections` is a constant with any value, so that
no theorem depends on how small it is.

## Plan

The models are complete as far as they are going to be. What is left:

1. Abstract specifications for the components that have none, with the refinement proved: of a tab's context as the browser sees it, of the
   wizard as what the user is told, of an instance's status as the last judgement or else the last scan.
2. Action properties of `ScanLifecycle`: which step may end a scan that is not its own, and that analyzers start no scan the store did not
   have due in a state it emitted.

## Not modelled

* Views, test definitions, scanner and rules, reports, issue filing, telemetry, Electron
  windows, build and pipelines: they render, format or hold content, and keep no state
  whose order of changes matters. They are most of the repository, so the models map a small share
  of its lines.
* Scan results and card selection: what a scan found, and which of it is selected for display. `ScanLifecycle` models when it
  is delivered; nothing else decides on it.
* Drawing: follows the stores, and nothing returns from it to the modelled state.
* Tab stops recording: that it is on or off is in `ScanLifecycle`, the batches that arrive are in `AssessmentResults`; the debounced
  collection over several frames is left out.
* The scopes of actions: that a handler is atomic, which they enforce, is built into the models.
* The permissions tracker: its only state is the last answer of the browser, which is shown.
* The global stores assign a field per handler. Keyboard shortcuts send the messages the views send. Style sheet
  injection is fire-and-forget.
* Of the assessment store: the choice of what the details view shows, and which instances are visualized. Both are in
  `EmitUnchanged`, as changes that are persisted with the rest.
