------------------------------ MODULE TabContexts ------------------------------
(***************************************************************************)
(* The tabs of the browser as the background page of the extension follows   *)
(* them: a context with a tab store for every tab that has shown a page, and  *)
(* the details view that belongs to a tab.  The background page hears of what *)
(* happens as it happens, but what it asks the browser is answered later, in   *)
(* the order asked, and each answer describes the browser at that moment.      *)
(***************************************************************************)
EXTENDS Naturals, FiniteSets, Sequences, SequencesExt

CONSTANTS
  Tab,          \* ids of tabs, which the browser never uses again
  Window,       \* windows of the browser
  Url,          \* web pages, each of an origin of its own
  FirstTab,     \* tabs that are open when the extension starts,
  FirstWindow,  \* all of them in this window
  Target,       \* tabs whose page the user tests, a bound
  MaxRequests,  \* requests to the browser under way when the user acts, a bound
  MaxTestRequests, \* the same for tests and popups
  Null

ASSUME FirstAssumption == /\ FirstTab \subseteq Tab /\ FirstTab # {} /\ Target \subseteq Tab
                          /\ IsFiniteSet(FirstTab) /\ FirstWindow \in Window

\* What a tab store may hold.
TabState ==
  [url : Url \cup Tab \cup {Null}, hidden : BOOLEAN, originChanged : BOOLEAN,
   assessing : BOOLEAN, scanning : BOOLEAN]

ASSUME IdAssumption == Tab \cap Url = {} /\ Null \notin Tab \cup Url \cup Window \cup TabState

VARIABLES
  spare,        \* ids no tab has had
  madeFor,      \* the tab whose details view a tab was opened for, or Null
  place,        \* window of a tab, Null if the tab is not open
  page,         \* what a tab shows: a web page, or the details view of some tab
  active,       \* the active tab of a window, Null if the window is not open
  minimized,    \* is the window minimized?
  popup,        \* the popup that is loading and the tab it has read, or Null
  store,        \* tab store in the context of a tab, Null if there is no context
  detailsView,  \* tabIdToDetailsViewMap: the details view of a tab, or Null
  requests,     \* what the browser has been asked and has not answered
  strayed,      \* history: tabs of which a details view was shown that the map did not have
  misled,       \* history: tabs whose popup read a page they had left by then
  held          \* history: tabs still assessed since their details view was closed during a scan

browserVars == <<spare, madeFor, place, page, active, minimized, popup>>
contextVars == <<store, detailsView, requests>>
tabVars == <<browserVars, contextVars, strayed, misled, held>>

Open == {t \in Tab : place[t] # Null}
TabsOf(w) == {t \in Tab : place[t] = w}
OpenWindow == {w \in Window : active[w] # Null}
DetailsViewsOf(t) == {d \in Open : page[d] = t}

-----------------------------------------------------------------------------
(* The tab store and the map of details views.                              *)

\* TabStore.getDefaultState without isChanged, a hint for the views; whether an
\* assessment is visualized and whether a test is being scanned are the visualization
\* store's, next to it in the context.
DefaultState ==
  [url |-> Null, hidden |-> FALSE, originChanged |-> FALSE, assessing |-> FALSE, scanning |-> FALSE]

\* A bug to be caught: a message for a tab without context makes one.
InterpretReviving(s, t, r) == [s EXCEPT ![t] = IF @ = Null THEN DefaultState ELSE r]

\* The store of tab t becomes r; a message for a tab without context is lost.
Interpret(s, t, r) == IF s[t] = Null THEN s ELSE [s EXCEPT ![t] = r]

OnVisibilityChange(s, t, hidden) == Interpret(s, t, [s[t] EXCEPT !.hidden = hidden])

\* A bug to be caught: the payload is stored where its URL belongs.
OnNewTabCreatedWhole(s, t, url) ==
  Interpret(s, t, [s[t] EXCEPT !.url = [tab |-> t, url |-> url], !.originChanged = FALSE])

OnNewTabCreated(s, t, url) ==
  Interpret(s, t, [s[t] EXCEPT !.url = url, !.originChanged = FALSE])

\* A bug to be caught: the URL is assigned before the origins are compared.
OnExistingTabUpdatedUnseen(s, t, url) ==
  Interpret(s, t, [s[t] EXCEPT !.url = url, !.assessing = FALSE, !.scanning = FALSE])

\* The tab store, and the visualization store, which goes back to its default.
OnExistingTabUpdated(s, t, url) ==
  Interpret(s, t, [s[t] EXCEPT !.originChanged = @ \/ url # s[t].url,
                               !.url = url, !.assessing = FALSE, !.scanning = FALSE])

\* enableTest: assessments are turned off first, and nothing changes during a scan.
OnEnableTest(s, t, assessing, scanning) ==
  Interpret(s, t, IF s[t].scanning THEN s[t]
                  ELSE [s[t] EXCEPT !.assessing = assessing, !.scanning = scanning])

\* toggleTestOff of every assessment, which a scan keeps on.
OnDisableAssessmentVisualizations(s, t) ==
  Interpret(s, t, [s[t] EXCEPT !.assessing = @ /\ s[t].scanning])

OnScanCompleted(s, t) == Interpret(s, t, [s[t] EXCEPT !.scanning = FALSE])

\* A bug to be caught: the handler of the target page controller is not set up.
OnDetailsViewsClosedUnhandled(s, T) == s

\* onDetailsViewTabRemoved for each tab of T.
OnDetailsViewsClosed(s, T) ==
  [t \in Tab |-> IF t \in T THEN OnDisableAssessmentVisualizations(s, t)[t] ELSE s[t]]

\* Tabs of T that are being assessed by a scan, which keeps the assessment on.
Scanned(T) == {t \in T : store[t] # Null /\ store[t].assessing /\ store[t].scanning}

\* getTargetTabIdForDetailsTabId.
TargetOf(d) == {t \in Tab : detailsView[t] = d}

Forget(T) == detailsView' = [t \in Tab |-> IF t \in T THEN Null ELSE detailsView[t]]

-----------------------------------------------------------------------------
(* What the browser tells: the store after the listeners of an event.       *)

\* A bug to be caught: only the tabs that are left are told.
ActivatedUntold(s, t) == s

\* onTabActivated up to its question.
Activated(s, t) == OnVisibilityChange(s, t, FALSE)

\* handleTabUrlUpdate up to its question.
UrlUpdated(s, t) == IF s[t] = Null THEN [s EXCEPT ![t] = DefaultState] ELSE s

TabsOfWindow(w) == [ask |-> "tabsOf", window |-> w]
AllWindows == [ask |-> "windows"]
ActiveTabs(w, hidden) == [ask |-> "activeTabs", window |-> w, hidden |-> hidden]
GetTab(t) == [ask |-> "tab", tab |-> t]
NewWindow(t) == [ask |-> "newWindow", tab |-> t]
SwitchTo(t) == [ask |-> "switchTo", tab |-> t]
FocusWindow(w) == [ask |-> "focus", window |-> w]

Ask(more) == requests' = requests \o more

-----------------------------------------------------------------------------
TabInit ==
  /\ spare = Tab \ FirstTab
  /\ madeFor = [t \in Tab |-> Null]
  /\ place = [t \in Tab |-> IF t \in FirstTab THEN FirstWindow ELSE Null]
  /\ page \in {p \in [Tab -> Url \cup {Null}] : \A t \in Tab : p[t] # Null <=> t \in FirstTab}
  /\ \E t \in FirstTab : active = [w \in Window |-> IF w = FirstWindow THEN t ELSE Null]
  /\ minimized = [w \in Window |-> FALSE]
  /\ popup = Null
  /\ store = [t \in Tab |-> IF t \in FirstTab THEN DefaultState ELSE Null]
  /\ detailsView = [t \in Tab |-> Null]
  /\ requests \in SetToSeqs({GetTab(t) : t \in FirstTab})
  /\ strayed = {}
  /\ misled = {}
  /\ held = {}

UserMayAct == Len(requests) <= MaxRequests
UserMayTest == Len(requests) <= MaxTestRequests

-----------------------------------------------------------------------------
(* The user and the tabs.                                                   *)

OpenTab(t, w, u) ==
  /\ UserMayAct
  /\ t \in spare /\ active[w] # Null
  /\ spare' = spare \ {t}
  /\ place' = [place EXCEPT ![t] = w]
  /\ page' = [page EXCEPT ![t] = u]
  /\ store' = UrlUpdated(store, t)
  /\ \/ /\ Ask(<<GetTab(t)>>)
        /\ UNCHANGED <<active, popup>>
     \/ /\ active' = [active EXCEPT ![w] = t]
        /\ popup' = Null
        /\ Ask(<<TabsOfWindow(w), GetTab(t)>>)
  /\ UNCHANGED <<madeFor, minimized, detailsView, strayed, misled, held>>

\* onTabActivated.
ActivateTab(t) ==
  /\ UserMayAct
  /\ t \in Open /\ active[place[t]] # t /\ ~minimized[place[t]]
  /\ active' = [active EXCEPT ![place[t]] = t]
  /\ popup' = Null
  /\ store' = Activated(store, t)
  /\ Ask(<<TabsOfWindow(place[t])>>)
  /\ UNCHANGED <<spare, madeFor, place, page, minimized, detailsView, strayed, misled, held>>

\* A window is minimized or comes back, and the focus with it: onWindowFocusChanged.
ToggleWindow(w) ==
  /\ UserMayAct
  /\ active[w] # Null
  /\ minimized' = [minimized EXCEPT ![w] = ~@]
  /\ popup' = Null
  /\ Ask(<<AllWindows>>)
  /\ UNCHANGED <<spare, madeFor, place, page, active, store, detailsView, strayed, misled, held>>

\* Tab t goes to page p, perhaps back to a details view it showed before:
\* onUpdateTab of the details views, then onTabUpdated.
Navigate(t, p) ==
  LET closed == {s \in TargetOf(t) : p # s}
  IN /\ UserMayAct
     /\ t \in Open /\ page[t] # p /\ p \in Url \cup {madeFor[t]}
     /\ page' = [page EXCEPT ![t] = p]
     /\ Forget(closed)
     /\ store' = UrlUpdated(OnDetailsViewsClosed(store, closed), t)
     /\ Ask(<<GetTab(t)>>)
     /\ strayed' = strayed \cup ({p} \cap Tab)
     /\ held' = held \cup Scanned(closed)
     /\ UNCHANGED <<spare, madeFor, place, active, minimized, popup, misled>>

\* onTabNavigated, when the page has been loaded.
LoadTab(t) ==
  /\ UserMayAct
  /\ t \in Open
  /\ store' = UrlUpdated(store, t)
  /\ Ask(<<GetTab(t)>>)
  /\ UNCHANGED <<browserVars, detailsView, strayed, misled, held>>

\* A bug to be caught: only the removal of a target is looked for.
ClosedByNone(t) == {}

\* The targets without a details view once tab t is gone, by onRemoveTab.
ClosedBy(t) == IF detailsView[t] # Null THEN {} ELSE TargetOf(t)

\* onRemoveTab of the details views, onTargetTabRemoved, and onTabActivated if
\* another tab of the window takes the place of this one.
RemoveTab(t) ==
  LET told == [OnDetailsViewsClosed(store, ClosedBy(t)) EXCEPT ![t] = Null]
      w == place[t]
  IN /\ UserMayAct
     /\ t \in Open
     /\ place' = [place EXCEPT ![t] = Null]
     /\ page' = [page EXCEPT ![t] = Null]
     /\ Forget(IF detailsView[t] # Null THEN {t} ELSE ClosedBy(t))
     /\ \/ /\ active[w] # t
           /\ store' = told
           /\ UNCHANGED <<active, minimized, requests>>
        \/ /\ active[w] = t /\ TabsOf(w) = {t}
           /\ active' = [active EXCEPT ![w] = Null]
           /\ minimized' = [minimized EXCEPT ![w] = FALSE]
           /\ store' = told
           /\ Ask(<<AllWindows>>)
        \/ /\ active[w] = t
           /\ \E n \in TabsOf(w) \ {t} :
                /\ active' = [active EXCEPT ![w] = n]
                /\ store' = Activated(told, n)
           /\ Ask(<<TabsOfWindow(w)>>)
           /\ UNCHANGED minimized
     /\ popup' = IF active[w] = t THEN Null ELSE popup
     /\ misled' = misled \ {t}
     /\ held' = (held \cup Scanned(ClosedBy(t))) \ {t}
     /\ UNCHANGED <<spare, madeFor, strayed>>

-----------------------------------------------------------------------------
(* The user and the extension.                                              *)

\* getTargetTab of a popup.
OpenPopup(t) ==
  /\ UserMayTest
  /\ popup = Null
  /\ t \in Open /\ page[t] \in Url /\ active[place[t]] = t /\ ~minimized[place[t]]
  /\ popup' = [tab |-> t, url |-> page[t]]
  /\ UNCHANGED <<spare, madeFor, place, page, active, minimized, contextVars, strayed, misled, held>>

\* Messages.Popup.Initialized.
PopupInitialized ==
  /\ popup # Null
  /\ popup' = Null
  /\ store' = OnNewTabCreated(store, popup.tab, popup.url)
  /\ misled' = IF popup.url = page[popup.tab] THEN misled \ {popup.tab} ELSE misled \cup {popup.tab}
  /\ UNCHANGED <<spare, madeFor, place, page, active, minimized, detailsView, requests, strayed, held>>

\* An assessment is visualized from a details view of tab t, with or without a scan.
EnableAssessment(t) ==
  /\ UserMayTest
  /\ store[t] # Null /\ DetailsViewsOf(t) # {}
  /\ \E scanning \in BOOLEAN : store' = OnEnableTest(store, t, TRUE, scanning)
  /\ UNCHANGED <<browserVars, detailsView, requests, strayed, misled, held>>

CanAsk(t) == store[t] # Null /\ (page[t] \in Url \/ DetailsViewsOf(t) # {})

\* An ad hoc test is turned on from the page, its popup or a details view.
EnableAdhocTest(t) ==
  /\ UserMayTest
  /\ CanAsk(t)
  /\ store' = OnEnableTest(store, t, FALSE, TRUE)
  /\ UNCHANGED <<browserVars, detailsView, requests, strayed, misled>>
  /\ held' = {x \in held : store'[x].assessing}

\* Assessments are turned off, or started over, or left for another view.
DisableAssessments(t) ==
  /\ UserMayTest
  /\ store[t] # Null /\ DetailsViewsOf(t) # {}
  /\ store' = OnDisableAssessmentVisualizations(store, t)
  /\ UNCHANGED <<browserVars, detailsView, requests, strayed, misled>>
  /\ held' = {x \in held : store'[x].assessing}

\* The page reports the results of its scan; some tests then switch to the page.
CompleteScan(t) ==
  /\ store[t] # Null /\ store[t].scanning
  /\ store' = OnScanCompleted(store, t)
  /\ \/ UNCHANGED requests
     \/ UserMayTest /\ Ask(<<SwitchTo(t)>>)
  /\ UNCHANGED <<browserVars, detailsView, strayed, misled, held>>

\* showDetailsView up to its question, from the page, its popup or a details view; to open
\* the view of a test may turn that on, and to change views turns the tests off.
ShowDetailsView(t) ==
  /\ UserMayAct
  /\ CanAsk(t)
  /\ store' \in {store, OnDisableAssessmentVisualizations(store, t), OnEnableTest(store, t, FALSE, TRUE)}
  /\ Ask(<<IF detailsView[t] # Null THEN SwitchTo(detailsView[t]) ELSE NewWindow(t)>>)
  /\ UNCHANGED <<browserVars, detailsView, strayed, misled>>
  /\ held' = {x \in held : store'[x].assessing}

-----------------------------------------------------------------------------
(* The browser answers its oldest request.                                  *)

Asked(ask) == requests # <<>> /\ Head(requests).ask = ask
Answered(more) == requests' = Tail(requests) \o more

\* onTabActivated after its question.
AnswerTabsOf ==
  /\ Asked("tabsOf")
  /\ LET w == Head(requests).window
     IN store' = [t \in Tab |-> IF t \in TabsOf(w) /\ t # active[w]
                                THEN OnVisibilityChange(store, t, TRUE)[t] ELSE store[t]]
  /\ Answered(<<>>)
  /\ UNCHANGED <<browserVars, detailsView, strayed, misled, held>>

\* onWindowFocusChanged after its first question.
AnswerWindows ==
  /\ Asked("windows")
  /\ \E more \in SetToSeqs({ActiveTabs(w, minimized[w]) : w \in OpenWindow}) : Answered(more)
  /\ UNCHANGED <<browserVars, store, detailsView, strayed, misled, held>>

\* onWindowFocusChanged after its second question, with the first answer.
AnswerActiveTabs ==
  /\ Asked("activeTabs")
  /\ LET q == Head(requests)
     IN store' = IF active[q.window] = Null THEN store
                 ELSE OnVisibilityChange(store, active[q.window], q.hidden)
  /\ Answered(<<>>)
  /\ UNCHANGED <<browserVars, detailsView, strayed, misled, held>>

\* sendTabUrlUpdatedAction after its question; a tab that is gone is not found.
AnswerTab ==
  /\ Asked("tab")
  /\ LET t == Head(requests).tab
     IN /\ store' = IF t \in Open THEN OnExistingTabUpdated(store, t, page[t]) ELSE store
        /\ misled' = IF t \in Open THEN misled \ {t} ELSE misled
        /\ held' = IF t \in Open THEN held \ {t} ELSE held
  /\ Answered(<<>>)
  /\ UNCHANGED <<browserVars, detailsView, strayed>>

\* showDetailsView after its question: a tab in a window of its own, with the events of
\* a tab that is opened.
AnswerNewWindow ==
  /\ Asked("newWindow")
  /\ LET t == Head(requests).tab
     IN \E d \in spare, w \in Window \ OpenWindow :
          /\ spare' = spare \ {d}
          /\ place' = [place EXCEPT ![d] = w]
          /\ page' = [page EXCEPT ![d] = t]
          /\ active' = [active EXCEPT ![w] = d]
          /\ popup' = Null
          /\ strayed' = IF detailsView[t] = Null THEN strayed ELSE strayed \cup {t}
          /\ madeFor' = [madeFor EXCEPT ![d] = t]
          /\ detailsView' = [detailsView EXCEPT ![t] = d]
          /\ held' = held \ {t}
          /\ store' = UrlUpdated(store, d)
          /\ Answered(<<TabsOfWindow(w), AllWindows, GetTab(d)>>)
  /\ UNCHANGED <<minimized, misled>>

\* The browser fails to open the window.
FailNewWindow ==
  /\ Asked("newWindow")
  /\ Answered(<<>>)
  /\ UNCHANGED <<browserVars, store, detailsView, strayed, misled, held>>

\* switchToTab up to its second question; a tab that is gone is not found.
AnswerSwitchTo ==
  /\ Asked("switchTo")
  /\ LET t == Head(requests).tab
         w == place[t]
     IN \/ /\ t \notin Open
           /\ Answered(<<>>)
           /\ UNCHANGED <<active, popup, store>>
        \/ /\ t \in Open /\ active[w] = t
           /\ Answered(<<FocusWindow(w)>>)
           /\ UNCHANGED <<active, popup, store>>
        \/ /\ t \in Open /\ active[w] # t
           /\ active' = [active EXCEPT ![w] = t]
           /\ popup' = Null
           /\ store' = Activated(store, t)
           /\ Answered(<<TabsOfWindow(w), FocusWindow(w)>>)
  /\ UNCHANGED <<spare, madeFor, place, page, minimized, detailsView, strayed, misled, held>>

\* A window that comes to the front: onWindowFocusChanged.
AnswerFocus ==
  /\ Asked("focus")
  /\ LET w == Head(requests).window
     IN \/ /\ active[w] = Null
           /\ Answered(<<>>)
           /\ UNCHANGED <<minimized, popup>>
        \/ /\ active[w] # Null
           /\ minimized' = [minimized EXCEPT ![w] = FALSE]
           /\ popup' = Null
           /\ Answered(<<AllWindows>>)
  /\ UNCHANGED <<spare, madeFor, place, page, active, store, detailsView, strayed, misled, held>>

Answer ==
  \/ AnswerTabsOf \/ AnswerWindows \/ AnswerActiveTabs \/ AnswerTab
  \/ AnswerNewWindow \/ FailNewWindow \/ AnswerSwitchTo \/ AnswerFocus

\* Only targets are loaded by a step of their own; what it asks, Navigate asks too.
TabNext ==
  \/ \E t \in Tab, w \in Window, u \in Url : OpenTab(t, w, u)
  \/ \E t \in Tab : ActivateTab(t) \/ RemoveTab(t)
  \/ \E t \in Tab, p \in Url \cup Target : Navigate(t, p)
  \/ \E w \in Window : ToggleWindow(w)
  \/ \E t \in Target : LoadTab(t) \/ OpenPopup(t) \/ ShowDetailsView(t)
  \/ \E t \in Target : EnableAssessment(t) \/ EnableAdhocTest(t) \/ DisableAssessments(t) \/ CompleteScan(t)
  \/ PopupInitialized
  \/ Answer

TabSpec == TabInit /\ [][TabNext]_tabVars

-----------------------------------------------------------------------------
Request ==
  [ask : {"windows"}] \cup [ask : {"tabsOf", "focus"}, window : Window]
    \cup [ask : {"activeTabs"}, window : Window, hidden : BOOLEAN]
    \cup [ask : {"tab", "newWindow", "switchTo"}, tab : Tab]

\* The state keeps its declared shape: an open window has an active tab of its own, the tabs
\* shown are the open ones.
TabTypeOK ==
  /\ spare \subseteq Tab /\ strayed \subseteq Tab /\ misled \subseteq Tab /\ held \subseteq Tab
  /\ madeFor \in [Tab -> Tab \cup {Null}]
  /\ place \in [Tab -> Window \cup {Null}]
  /\ page \in [Tab -> Url \cup Tab \cup {Null}]
  /\ \A t \in Tab : page[t] = Null <=> t \notin Open
  /\ \A w \in Window : IF TabsOf(w) = {} THEN active[w] = Null ELSE active[w] \in TabsOf(w)
  /\ minimized \in [Window -> BOOLEAN]
  /\ popup = Null \/ popup \in [tab : Tab, url : Url]
  /\ store \in [Tab -> {Null} \cup TabState]
  /\ detailsView \in [Tab -> Tab \cup {Null}]
  /\ requests \in Seq(Request)

\* Exactly the open tabs have a context, however late an answer about a tab comes, and
\* its store follows the page: where it has another URL, the browser has been asked
\* for the tab, unless a popup that had read an older page had the last word.
ContextFollowsPage ==
  /\ \A t \in Tab : store[t] # Null <=> t \in Open
  /\ \A t \in Open \ misled :
       store[t].url # page[t] => \E i \in DOMAIN requests : requests[i] = GetTab(t)

\* The URL of a store, and whether the page has come to another origin than the one its
\* popup was opened on, start afresh only with a popup: no late or second answer
\* makes the details view take a page of another origin for the one it was opened for.
OriginChangeIsKept ==
  [][\A t \in Tab : store[t] # Null /\ store'[t] # Null =>
       \/ store'[t].originChanged
       \/ store'[t].url = store[t].url /\ ~store[t].originChanged
       \/ popup # Null /\ popup' = Null /\ popup.tab = t /\ store'[t].url = popup.url]_tabVars

\* A tab the user can see is not reported hidden, except while an answer is awaited
\* that will correct it.
SeenIsNotHidden ==
  \A w \in OpenWindow : ~minimized[w] /\ store[active[w]].hidden =>
    \E i \in DOMAIN requests : requests[i] \in {AllWindows, ActiveTabs(w, FALSE)}

\* The map leads to open tabs that show the details view in question, and an open tab
\* has no other details view, unless two openings overlapped or a tab went back to a
\* details view it had left.
OneDetailsView ==
  /\ \A t \in Tab : detailsView[t] # Null => detailsView[t] \in DetailsViewsOf(t)
  /\ \A t \in Open \ strayed : DetailsViewsOf(t) \subseteq {detailsView[t]}

\* No assessment stays visualized on a page whose details view is gone, with the same
\* exception and another: a details view that is closed during a scan leaves the tests as
\* they are, and nothing makes up for it when the scan is over.
AssessedWithDetailsView ==
  \A t \in Open \ (strayed \cup held) : store[t].assessing => detailsView[t] # Null
=============================================================================
