-------------------------- MODULE ScanLifecycle_proofs --------------------------
(***************************************************************************)
(* Proofs about the scan life cycle of a page: it implements the store     *)
(* specification, and so inherits its invariants; the content script's     *)
(* proxy ends up with the store's state; tab stops are recorded only while *)
(* a test wants them; a requested injection is under way; and so is what   *)
(* ends a scan.                                                            *)
(***************************************************************************)
EXTENDS ScanLifecycle, VisualizationStore_proofs, FiniteSetTheorems

-----------------------------------------------------------------------------
(* The life cycle implements the store specification.                      *)

LEMMA ViewIsStoreStep ==
  ASSUME NEW o \in ViewOutcomes, vis' = o.state
  PROVE  [StoreNext]_vis
<1>1. CASE o \in ToggleOutcomes(vis)
  BY <1>1 DEF StoreNext, Toggle
<1>2. CASE o \in AssessmentOutcomes(vis)
  BY <1>2 DEF StoreNext, UseAssessment
<1>3. CASE o \in NavigationOutcomes(vis)
  BY <1>3 DEF StoreNext, NavigateView
<1>4. CASE o = OnGetCurrentState(vis)
  BY <1>4 DEF OnGetCurrentState, Emit
<1>5. QED BY <1>1, <1>2, <1>3, <1>4 DEF ViewOutcomes

LEMMA LifecycleStoreStep ==
  ASSUME [LifecycleNext]_vars
  PROVE  [StoreNext]_vis
<1>1. CASE ReceiveViewMessage
  BY <1>1, ViewIsStoreStep DEF ReceiveViewMessage, Take
<1>2. ASSUME NEW mode \in InspectMode \cup {Off}, ChangeInspectMode(mode)
      PROVE  [StoreNext]_vis
  BY <1>2 DEF ChangeInspectMode
<1>3. ASSUME NEW i \in Slot, RejectInjection(i) \/ RunScript(i)
      PROVE  [StoreNext]_vis
  BY <1>3 DEF RejectInjection, RunScript
<1>4. ASSUME NEW k \in Key, CompleteAnalysis(k) \/ FailAnalysis(k)
      PROVE  [StoreNext]_vis
  BY <1>4 DEF CompleteAnalysis, FailAnalysis, background
<1>5. CASE LeavePage \/ ChangeUrl \/ ReceiveUpdate \/ ReceiveOtherStores
  BY <1>5 DEF LeavePage, ChangeUrl, ReceiveUpdate, ReceiveOtherStores, background
<1>6. ASSUME NEW i \in Slot, FireTimer(i)
      PROVE  [StoreNext]_vis
  BY <1>6 DEF FireTimer, Take, StoreNext, StartInjection
<1>7. ASSUME NEW i \in Slot, ResolveInjection(i)
      PROVE  [StoreNext]_vis
  BY <1>7 DEF ResolveInjection, Take, StoreNext, CompleteInjection
<1>8. CASE UpdateTargetTab
  BY <1>8 DEF UpdateTargetTab, Take, StoreNext, UpdateTab
<1>9. CASE ReceiveScriptMessage
  BY <1>9 DEF ReceiveScriptMessage, Take, StoreNext, CompleteScan, OnGetCurrentState, Emit
<1>10. CASE UNCHANGED vars
  BY <1>10 DEF vars, background
<1>11. QED
  BY <1>1, <1>2, <1>3, <1>4, <1>5, <1>6, <1>7, <1>8, <1>9, <1>10
     DEF LifecycleNext, Environment

\* The store sees nothing in the life cycle that it would not see on its own, so
\* what is proved of it alone holds in the whole.
THEOREM LifecycleImplementsStore == LifecycleSpec => StoreSpec
<1>1. LifecycleInit => StoreInit
  BY DEF LifecycleInit
<1>2. [LifecycleNext]_vars => [StoreNext]_vis
  BY LifecycleStoreStep
<1>3. QED BY <1>1, <1>2, PTL DEF LifecycleSpec, StoreSpec

LEMMA LifecycleStoreInv == LifecycleSpec => []Inv(vis)
  BY LifecycleImplementsStore, StoreInv, PTL

-----------------------------------------------------------------------------
(* The injections.                                                         *)

\* Launching keeps the injections what they are, and those under way under way;
\* when there is one to launch, it is.
LEMMA LaunchFacts ==
  ASSUME NEW inj \in [Slot -> InjectionState], NEW n, CanLaunch(inj, n)
  PROVE  /\ Launch(inj, n) \in [Slot -> InjectionState]
         /\ \A i \in Slot : \/ Launch(inj, n)[i] = FreshInjection
                            \/ Launch(inj, n)[i] = inj[i]
         /\ \A i \in Slot : inj[i] # NoInjection => Launch(inj, n)[i] = inj[i]
         /\ n # 0 => \E i \in Slot : Launch(inj, n)[i] = FreshInjection
<1> DEFINE slots == CHOOSE S \in SUBSET FreeSlots(inj) : Cardinality(S) = n
<1>1. slots \in SUBSET FreeSlots(inj) /\ Cardinality(slots) = n
  BY DEF CanLaunch
<1>2. FreeSlots(inj) \subseteq Slot /\ \A i \in FreeSlots(inj) : inj[i] = NoInjection
  BY DEF FreeSlots
<1>3. Launch(inj, n) = [i \in Slot |-> IF i \in slots THEN FreshInjection ELSE inj[i]]
  BY DEF Launch
<1> HIDE DEF slots
<1>4. FreshInjection \in InjectionState
  BY DEF FreshInjection, InjectionState
<1>5. n # 0 => slots # {}
  BY <1>1, FS_EmptySet
<1>6. QED BY <1>1, <1>2, <1>3, <1>4, <1>5

\* An emitted state that wants an injection makes the injector launch one.
LEMMA LaunchesPositive ==
  ASSUME NEW o, o.emitted \in Seq(GoodState), NEW j \in DOMAIN o.emitted,
         WantsInjection(o.emitted[j], inspectMode, oldInspectType)
  PROVE  Launches(o) # 0
<1> DEFINE wanting == {m \in DOMAIN o.emitted :
                         WantsInjection(o.emitted[m], inspectMode, oldInspectType)}
<1>1. DOMAIN o.emitted = 1..Len(o.emitted) /\ Len(o.emitted) \in Int /\ 1 \in Int
  BY LenProperties
<1>2. IsFiniteSet(DOMAIN o.emitted)
  BY <1>1, FS_Interval
<1>3. IsFiniteSet(wanting)
  BY <1>2, FS_Subset
<1>4. wanting # {}
  OBVIOUS
<1>5. Cardinality(wanting) # 0
  BY <1>3, <1>4, FS_EmptySet
<1>6. QED BY <1>5 DEF Launches

-----------------------------------------------------------------------------
(* The state of the whole.                                                 *)

Shape ==
  /\ Inv(vis)
  /\ inspectMode \in InspectMode \cup {Off}
  /\ oldInspectType \in InspectMode \cup {Off}
  /\ injection \in [Slot -> InjectionState]
  /\ script \in {"absent", "waiting", "ready"}
  /\ proxy \in GoodState \cup {Null}
  /\ prevState \in GoodState \cup {Null}
  /\ running \in [Key -> Nat]
  /\ listening \in BOOLEAN
  /\ toScript \in Seq(GoodState)
  /\ toBackground \in Seq({"getState", "scanCompleted"})
  /\ tabUpdates \in Nat

\* What the script has not heard yet is on its way: the last of the updates under
\* way is the store's state, or the store is still to be asked for it.
Informed ==
  script # "absent" =>
    \/ StateRequested
    \/ toScript # <<>> /\ toScript[Len(toScript)] = vis
    \/ toScript = <<>> /\ proxy = vis

\* The analyzers have acted on what the proxy holds as soon as they act at all.
Acted == prevState = IF script = "ready" THEN proxy ELSE Null

LInv == Shape /\ Informed /\ Acted

\* Taking a good outcome.
LEMMA TakeFacts ==
  ASSUME Shape, NEW o, GoodOutcome(vis, o),
         NEW inj \in [Slot -> InjectionState], Take(o, inj)
  PROVE  /\ Inv(vis')
         /\ toScript' \in Seq(GoodState)
         /\ injection' \in [Slot -> InjectionState]
         /\ o.emitted = <<>> => vis' = vis /\ toScript' = toScript
         /\ o.emitted # <<>> => toScript' # <<>> /\ toScript'[Len(toScript')] = vis'
<1>1. /\ o.emitted \in Seq(GoodState) /\ toScript \in Seq(GoodState)
      /\ toScript' = toScript \o o.emitted
      /\ vis' = o.state
      /\ Inv(o.state)
  BY DEF GoodOutcome, Shape, Take, Broadcast
<1>2. injection' \in [Slot -> InjectionState]
  BY LaunchFacts DEF Take
<1>3. CASE o.emitted = <<>>
  <2>1. toScript' = toScript /\ vis' = vis
    BY <1>1, <1>3, ConcatEmptySeq DEF GoodOutcome
  <2>2. QED BY <1>1, <1>2, <1>3, <2>1
<1>4. CASE o.emitted # <<>>
  <2>1. toScript' \in Seq(GoodState) /\ toScript' # <<>>
        /\ toScript'[Len(toScript')] = o.emitted[Len(o.emitted)]
    BY <1>1, <1>4, LastOfConcat
  <2>2. o.emitted[Len(o.emitted)] = vis'
    BY <1>1, <1>4 DEF GoodOutcome
  <2>3. QED BY <1>1, <1>2, <1>4, <2>1, <2>2
<1>5. QED BY <1>3, <1>4

\* A step of the background page that takes a good outcome, with the page and what
\* the page has said left alone.
LEMMA TakeKeeps ==
  ASSUME LInv, NEW o, GoodOutcome(vis, o), NEW inj \in [Slot -> InjectionState], Take(o, inj),
         inspectMode' \in InspectMode \cup {Off}, oldInspectType' \in InspectMode \cup {Off},
         UNCHANGED <<page, toBackground>>, tabUpdates' \in Nat
  PROVE  LInv'
<1>1. /\ Inv(vis')
      /\ toScript' \in Seq(GoodState)
      /\ injection' \in [Slot -> InjectionState]
      /\ o.emitted = <<>> => vis' = vis /\ toScript' = toScript
      /\ o.emitted # <<>> => toScript' # <<>> /\ toScript'[Len(toScript')] = vis'
  BY TakeFacts DEF LInv
<1>2. /\ script' = script /\ proxy' = proxy /\ prevState' = prevState
      /\ running' = running /\ listening' = listening /\ toBackground' = toBackground
  BY DEF page
<1>3. Shape'
  BY <1>1, <1>2 DEF LInv, Shape
<1>4. Informed'
  BY <1>1, <1>2 DEF LInv, Informed, StateRequested
<1>5. Acted'
  BY <1>2 DEF LInv, Acted
<1>6. QED BY <1>3, <1>4, <1>5 DEF LInv

LEMMA ViewGood ==
  ASSUME Inv(vis), NEW o \in ViewOutcomes
  PROVE  GoodOutcome(vis, o)
BY ToggleGood, AssessmentGood, NavigationGood, FieldHandlersGood DEF ViewOutcomes

-----------------------------------------------------------------------------
(* The steps of the background page.                                       *)

LEMMA BackgroundKeeps ==
  ASSUME LInv
  PROVE  /\ ReceiveViewMessage => LInv'
         /\ \A mode \in InspectMode \cup {Off} : ChangeInspectMode(mode) => LInv'
         /\ \A i \in Slot : FireTimer(i) \/ ResolveInjection(i) \/ RejectInjection(i) => LInv'
         /\ UpdateTargetTab => LInv'
         /\ ReceiveScriptMessage => LInv'
<1>1. /\ Inv(vis) /\ injection \in [Slot -> InjectionState]
      /\ inspectMode \in InspectMode \cup {Off} /\ oldInspectType \in InspectMode \cup {Off}
      /\ tabUpdates \in Nat /\ toBackground \in Seq({"getState", "scanCompleted"})
  BY DEF LInv, Shape
<1>2. /\ GoodOutcome(vis, OnInjectionStarted(vis))
      /\ GoodOutcome(vis, OnInjectionCompleted(vis))
      /\ GoodOutcome(vis, OnExistingTabUpdated(vis))
      /\ GoodOutcome(vis, OnGetCurrentState(vis))
      /\ GoodOutcome(vis, OnScanCompleted(vis))
  BY <1>1, FieldHandlersGood
<1>3. ReceiveViewMessage => LInv'
  <2>1. SUFFICES ASSUME ReceiveViewMessage
                 PROVE  LInv'
    OBVIOUS
  <2>2. PICK o \in ViewOutcomes : Take(o, injection)
    BY <2>1 DEF ReceiveViewMessage
  <2>3. GoodOutcome(vis, o)
    BY <1>1, ViewGood
  <2>4. UNCHANGED <<inspectMode, oldInspectType, page, toBackground, tabUpdates>>
    BY <2>1 DEF ReceiveViewMessage
  <2>5. QED BY <1>1, <2>2, <2>3, <2>4, TakeKeeps
<1>4. ASSUME NEW mode \in InspectMode \cup {Off}, ChangeInspectMode(mode)
      PROVE  LInv'
  <2> DEFINE n == IF WantsInjection(vis, mode, oldInspectType) THEN 1 ELSE 0
  <2>1. CanLaunch(injection, n) /\ injection' = Launch(injection, n)
    BY <1>4 DEF ChangeInspectMode
  <2> HIDE DEF n
  <2>2. injection' \in [Slot -> InjectionState]
    BY <1>1, <2>1, LaunchFacts
  <2>3. /\ inspectMode' = mode /\ oldInspectType' = mode
        /\ UNCHANGED <<vis, page, channels, tabUpdates>>
    BY <1>4 DEF ChangeInspectMode
  <2>4. QED
    BY <2>2, <2>3 DEF LInv, Shape, Informed, StateRequested, Acted, page, channels
<1>5. ASSUME NEW i \in Slot
      PROVE  FireTimer(i) \/ ResolveInjection(i) \/ RejectInjection(i) => LInv'
  <2>1. /\ [injection EXCEPT ![i].timer = FALSE] \in [Slot -> InjectionState]
        /\ [injection EXCEPT ![i].phase = "none"] \in [Slot -> InjectionState]
        /\ [injection EXCEPT ![i].phase = "timedOut"] \in [Slot -> InjectionState]
    BY <1>1 DEF InjectionState
  <2>2. FireTimer(i) => LInv'
    BY <1>1, <1>2, <2>1, TakeKeeps DEF FireTimer
  <2>3. ResolveInjection(i) => LInv'
    BY <1>1, <1>2, <2>1, TakeKeeps DEF ResolveInjection
  <2>4. RejectInjection(i) => LInv'
    BY <2>1 DEF RejectInjection, LInv, Shape, Informed, StateRequested, Acted, page, channels
  <2>5. QED BY <2>2, <2>3, <2>4
<1>6. UpdateTargetTab => LInv'
  <2>1. UpdateTargetTab => tabUpdates' \in Nat
    BY <1>1 DEF UpdateTargetTab
  <2>2. QED BY <1>1, <1>2, <2>1, TakeKeeps DEF UpdateTargetTab
<1>7. ReceiveScriptMessage => LInv'
  <2>1. SUFFICES ASSUME ReceiveScriptMessage
                 PROVE  LInv'
    OBVIOUS
  <2> DEFINE o == IF Head(toBackground) = "getState" THEN OnGetCurrentState(vis)
                                                     ELSE OnScanCompleted(vis)
  <2>2. /\ Take(o, injection) /\ GoodOutcome(vis, o)
        /\ UNCHANGED <<inspectMode, oldInspectType, page, tabUpdates>>
    BY <1>2, <2>1 DEF ReceiveScriptMessage
  <2>3. o.emitted # <<>>
    BY DEF OnGetCurrentState, OnScanCompleted, Emit
  <2> HIDE DEF o
  <2>4. /\ Inv(vis')
        /\ toScript' \in Seq(GoodState)
        /\ injection' \in [Slot -> InjectionState]
        /\ toScript' # <<>> /\ toScript'[Len(toScript')] = vis'
    BY <1>1, <2>2, <2>3, TakeFacts DEF LInv
  <2>5. toBackground' \in Seq({"getState", "scanCompleted"})
    BY <1>1, <2>1, HeadTailProperties DEF ReceiveScriptMessage
  <2>6. QED BY <2>2, <2>4, <2>5 DEF LInv, Shape, Informed, Acted, page
<1>8. QED BY <1>3, <1>4, <1>5, <1>6, <1>7

-----------------------------------------------------------------------------
(* The steps of the page, and of the user and the browser.                 *)

\* The page's messages queue behind those already on their way.
LEMMA SendFacts ==
  ASSUME toBackground \in Seq({"getState", "scanCompleted"}),
         NEW messages \in Seq({"getState", "scanCompleted"}), Send(messages)
  PROVE  /\ toBackground' \in Seq({"getState", "scanCompleted"})
         /\ StateRequested => StateRequested'
         /\ messages = <<"getState">> => StateRequested'
<1>1. /\ toBackground' = toBackground \o messages
      /\ toBackground' \in Seq({"getState", "scanCompleted"})
      /\ Len(toBackground') = Len(toBackground) + Len(messages)
      /\ Len(toBackground) \in Nat /\ Len(messages) \in Nat
      /\ DOMAIN toBackground = 1..Len(toBackground)
      /\ DOMAIN toBackground' = 1..(Len(toBackground) + Len(messages))
      /\ \A i \in 1..(Len(toBackground) + Len(messages)) :
           toBackground'[i] = IF i <= Len(toBackground)
                              THEN toBackground[i] ELSE messages[i - Len(toBackground)]
  BY ConcatProperties, LenProperties DEF Send
<1>2. StateRequested => StateRequested'
  BY <1>1 DEF StateRequested
<1>3. messages = <<"getState">> => StateRequested'
  <2>1. SUFFICES ASSUME messages = <<"getState">>
                 PROVE  StateRequested'
    OBVIOUS
  <2>2. Len(messages) = 1 /\ messages[1] = "getState"
    BY <2>1
  <2>3. Len(toBackground) + 1 - Len(toBackground) = 1 /\ ~(Len(toBackground) + 1 <= Len(toBackground))
    BY <1>1
  <2>4. Len(toBackground) + 1 \in DOMAIN toBackground'
        /\ toBackground'[Len(toBackground) + 1] = "getState"
    BY <1>1, <2>2, <2>3
  <2>5. QED BY <2>4, Zenon DEF StateRequested
<1>4. QED BY <1>1, <1>2, <1>3

LEMMA RunScriptKeeps ==
  ASSUME LInv, NEW i \in Slot, RunScript(i)
  PROVE  LInv'
<1>1. injection' \in [Slot -> InjectionState]
  <2>1. injection' = [injection EXCEPT ![i].phase =
                        IF injection[i].phase = "loading" THEN "loaded" ELSE "none"]
    BY DEF RunScript, LInv, Shape
  <2>2. QED BY <2>1 DEF LInv, Shape, InjectionState
<1>2. UNCHANGED <<vis, inspectMode, oldInspectType, proxy, prevState, running, listening,
                  toScript, tabUpdates>>
  BY DEF RunScript
<1>3. CASE script = "absent"
  <2>1. script' = "waiting" /\ Send(<<"getState">>)
    BY <1>3 DEF RunScript
  <2>2. <<"getState">> \in Seq({"getState", "scanCompleted"})
    OBVIOUS
  <2>3. StateRequested' /\ toBackground' \in Seq({"getState", "scanCompleted"})
    BY <2>1, <2>2, SendFacts DEF LInv, Shape
  <2>4. QED BY <1>1, <1>2, <1>3, <2>1, <2>3 DEF LInv, Shape, Informed, Acted
<1>4. CASE script # "absent"
  <2>1. UNCHANGED <<script, toBackground>>
    BY <1>4 DEF RunScript
  <2>2. QED BY <1>1, <1>2, <2>1 DEF LInv, Shape, Informed, StateRequested, Acted
<1>5. QED BY <1>3, <1>4

LEMMA HandleUpdateFacts ==
  ASSUME NEW curr \in GoodState, running \in [Key -> Nat], listening \in BOOLEAN,
         HandleUpdate(curr)
  PROVE  /\ running' \in [Key -> Nat]
         /\ listening' \in BOOLEAN
         /\ prevState' = curr
<1>1. StartsScan(prevState, curr) => curr.scanning \in Key
  BY DEF StartsScan, GoodState, State
<1>2. QED BY <1>1 DEF HandleUpdate

LEMMA ReceiveUpdateKeeps ==
  ASSUME LInv, ReceiveUpdate
  PROVE  LInv'
<1> DEFINE curr == Head(toScript)
<1>1. /\ toScript # <<>> /\ toScript' = Tail(toScript)
      /\ UNCHANGED <<background, script, toBackground, tabUpdates>>
  BY DEF ReceiveUpdate
<1>2. /\ curr \in GoodState /\ toScript' \in Seq(GoodState)
      /\ Len(toScript') = Len(toScript) - 1
      /\ \A i \in 1..Len(toScript') : toScript'[i] = toScript[i + 1]
  BY <1>1, HeadTailProperties DEF LInv, Shape
<1>3. /\ Len(toScript) \in Nat \ {0} /\ Len(toScript') \in Nat
      /\ toScript' # <<>> => Len(toScript') # 0
      /\ toScript' = <<>> => Len(toScript') = 0
  BY <1>1, <1>2, EmptySeq, LenProperties DEF LInv, Shape
<1>4. toScript' # <<>> => toScript'[Len(toScript')] = toScript[Len(toScript)]
  <2>1. SUFFICES ASSUME toScript' # <<>>
                 PROVE  toScript'[Len(toScript')] = toScript[Len(toScript)]
    OBVIOUS
  <2>2. Len(toScript') \in 1..Len(toScript') /\ Len(toScript') + 1 = Len(toScript)
    BY <1>2, <1>3, <2>1
  <2>3. QED BY <1>2, <2>2
<1>5. toScript' = <<>> => curr = toScript[Len(toScript)]
  <2>1. SUFFICES ASSUME toScript' = <<>>
                 PROVE  curr = toScript[Len(toScript)]
    OBVIOUS
  <2>2. Len(toScript) = 1
    BY <1>2, <1>3, <2>1
  <2>3. QED BY <2>2
<1>6. script # "absent" => proxy' = curr
  BY DEF ReceiveUpdate
<1>7. script = "absent" => proxy' = proxy
  BY DEF ReceiveUpdate
<1>8. /\ running' \in [Key -> Nat] /\ listening' \in BOOLEAN
      /\ prevState' = IF script = "ready" THEN curr ELSE prevState
  <2>1. CASE script = "ready" /\ curr # proxy
    <3>1. HandleUpdate(curr)
      BY <2>1 DEF ReceiveUpdate
    <3>2. QED BY <1>2, <2>1, <3>1, HandleUpdateFacts DEF LInv, Shape
  <2>2. CASE ~(script = "ready" /\ curr # proxy)
    BY <2>2 DEF ReceiveUpdate, LInv, Shape, Acted
  <2>3. QED BY <2>1, <2>2
<1> HIDE DEF curr
<1>9. Shape'
  BY <1>1, <1>2, <1>6, <1>7, <1>8 DEF LInv, Shape, background
<1>10. Informed'
  BY <1>1, <1>4, <1>5, <1>6 DEF LInv, Informed, StateRequested, background
<1>11. Acted'
  BY <1>1, <1>6, <1>8 DEF LInv, Acted
<1>12. QED BY <1>9, <1>10, <1>11 DEF LInv

LEMMA ReceiveOtherStoresKeeps ==
  ASSUME LInv, ReceiveOtherStores
  PROVE  LInv'
<1>1. /\ script = "waiting" /\ script' = "ready"
      /\ UNCHANGED <<background, proxy, channels, tabUpdates>>
  BY DEF ReceiveOtherStores
<1>2. /\ running' \in [Key -> Nat] /\ listening' \in BOOLEAN /\ prevState' = proxy
  <2>1. CASE proxy = Null
    BY <1>1, <2>1 DEF ReceiveOtherStores, LInv, Shape, Acted
  <2>2. CASE proxy # Null
    BY <2>2, HandleUpdateFacts DEF ReceiveOtherStores, LInv, Shape
  <2>3. QED BY <2>1, <2>2
<1>3. QED
  BY <1>1, <1>2
     DEF LInv, Shape, Informed, StateRequested, Acted, background, channels

LEMMA AnalysisKeeps ==
  ASSUME LInv, NEW k \in Key, CompleteAnalysis(k) \/ FailAnalysis(k)
  PROVE  LInv'
<1>1. running' \in [Key -> Nat]
  <2>1. running \in [Key -> Nat] /\ running[k] > 0 /\ running' = [running EXCEPT ![k] = @ - 1]
    BY DEF LInv, Shape, CompleteAnalysis, FailAnalysis
  <2>2. QED BY <2>1
<1>2. UNCHANGED <<background, script, proxy, prevState, listening, toScript, tabUpdates>>
  BY DEF CompleteAnalysis, FailAnalysis, channels
<1>3. /\ toBackground' \in Seq({"getState", "scanCompleted"})
      /\ StateRequested => StateRequested'
  <2>1. CASE FailAnalysis(k)
    BY <2>1 DEF FailAnalysis, channels, StateRequested, LInv, Shape
  <2>2. CASE CompleteAnalysis(k)
    <3> DEFINE n == IF k \in Batched THEN Cardinality(Batched) ELSE 1
               messages == [i \in 1..n |-> "scanCompleted"]
    <3>1. n \in Nat
      BY LifecycleAssumption, FS_CardinalityType
    <3>2. Send(messages)
      BY <2>2 DEF CompleteAnalysis
    <3> HIDE DEF n
    <3>3. messages \in Seq({"getState", "scanCompleted"})
      BY <3>1
    <3> HIDE DEF messages
    <3>4. QED BY <3>2, <3>3, SendFacts DEF LInv, Shape
  <2>3. QED BY <2>1, <2>2
<1>4. QED BY <1>1, <1>2, <1>3 DEF LInv, Shape, Informed, Acted, background

LEMMA PageLeftKeeps ==
  ASSUME LInv, LeavePage \/ ChangeUrl
  PROVE  LInv'
<1>1. CASE LeavePage
  <2>1. /\ script' = "absent" /\ proxy' = Null /\ prevState' = Null
        /\ running' = [k \in Key |-> 0] /\ listening' = FALSE
        /\ UNCHANGED <<background, channels>>
    BY <1>1 DEF LeavePage
  <2>2. tabUpdates' \in Nat
    BY <1>1 DEF LeavePage, LInv, Shape
  <2>3. Shape'
    BY <2>1, <2>2 DEF LInv, Shape, background, channels
  <2>4. Informed' /\ Acted'
    BY <2>1 DEF Informed, Acted
  <2>5. QED BY <2>3, <2>4 DEF LInv
<1>2. CASE ChangeUrl
  BY <1>2 DEF ChangeUrl, LInv, Shape, Informed, StateRequested, Acted, background, page, channels
<1>3. QED BY <1>1, <1>2

-----------------------------------------------------------------------------
(* What always holds of the whole.                                         *)

LEMMA LifecycleStep ==
  ASSUME LInv, [LifecycleNext]_vars
  PROVE  LInv'
<1>1. CASE UNCHANGED vars
  BY <1>1 DEF vars, background, page, channels, LInv, Shape, Informed, StateRequested, Acted
<1>2. CASE Environment
  BY <1>2, BackgroundKeeps, AnalysisKeeps, PageLeftKeeps DEF Environment
<1>3. ASSUME NEW i \in Slot, FireTimer(i) \/ ResolveInjection(i) \/ RunScript(i)
      PROVE  LInv'
  BY <1>3, BackgroundKeeps, RunScriptKeeps
<1>4. CASE UpdateTargetTab \/ ReceiveScriptMessage
  BY <1>4, BackgroundKeeps
<1>5. CASE ReceiveUpdate \/ ReceiveOtherStores
  BY <1>5, ReceiveUpdateKeeps, ReceiveOtherStoresKeeps
<1>6. ASSUME NEW k \in Key, CompleteAnalysis(k)
      PROVE  LInv'
  BY <1>6, AnalysisKeeps
<1>7. QED BY <1>1, <1>2, <1>3, <1>4, <1>5, <1>6 DEF LifecycleNext

LEMMA LifecycleInitInv == LifecycleInit => LInv
<1>1. SUFFICES ASSUME LifecycleInit
               PROVE  LInv
  OBVIOUS
<1>2. Inv(vis)
  BY <1>1, DefaultInv DEF LifecycleInit, StoreInit
<1>3. injection \in [Slot -> InjectionState]
  BY <1>1 DEF LifecycleInit, NoInjection, InjectionState
<1>4. /\ toScript \in Seq(GoodState)
      /\ toBackground \in Seq({"getState", "scanCompleted"})
  BY <1>1, EmptySeq DEF LifecycleInit
<1>5. QED
  BY <1>1, <1>2, <1>3, <1>4 DEF LifecycleInit, LInv, Shape, Informed, Acted

LEMMA LifecycleInv == LifecycleSpec => []LInv
<1>1. LInv /\ [LifecycleNext]_vars => LInv'
  BY LifecycleStep
<1>2. QED BY <1>1, LifecycleInitInv, PTL DEF LifecycleSpec

\* However the messages, the injections and the page interleave, the state of the
\* background page, of the content script and of the channels keeps its shape.
THEOREM LifecycleTypes == LifecycleSpec => []LifecycleTypeOK
<1>1. LInv => LifecycleTypeOK
  <2>1. GoodState \subseteq State
    BY DEF GoodState
  <2>2. toScript \in Seq(GoodState) => toScript \in Seq(State)
    BY <2>1, SeqMonotonic
  <2>3. Inv(vis) => TypeOK
    BY DEF Inv, TypeOK
  <2>4. QED BY <2>1, <2>2, <2>3 DEF LInv, Shape, LifecycleTypeOK
<1>2. QED BY <1>1, LifecycleInv, PTL

\* Whatever the content script missed, once nothing is on its way to it its proxy
\* holds the store's state.
THEOREM LifecycleProxyAgrees == LifecycleSpec => []ProxyAgrees
<1>1. LInv => ProxyAgrees
  BY DEF LInv, Informed, ProxyAgrees, Settled
<1>2. QED BY <1>1, LifecycleInv, PTL

-----------------------------------------------------------------------------
(* Tab stops, when only ad hoc tests record them.                           *)

\* While the listener records, one of the tests that want it to is on in the state
\* the analyzers last acted on.
Wanted == listening => script = "ready" /\ \E k \in FocusTracking : prevState # Null /\ IsOn(prevState, k)

LEMMA HandleUpdateWanted ==
  ASSUME FocusTracking \subseteq AdhocTest, NEW curr \in GoodState,
         listening => \E k \in FocusTracking : prevState # Null /\ IsOn(prevState, k),
         HandleUpdate(curr)
  PROVE  listening' => \E k \in FocusTracking : IsOn(curr, k)
<1>1. SUFFICES ASSUME listening'
               PROVE  \E k \in FocusTracking : IsOn(curr, k)
  OBVIOUS
<1>2. CASE StartsScan(prevState, curr) /\ curr.scanning \in FocusTracking
  BY <1>2 DEF StartsScan, GoodState, Inv
<1>3. CASE listening /\ Terminated(prevState, curr) \cap FocusTracking = {}
  <2>1. PICK k \in FocusTracking : prevState # Null /\ IsOn(prevState, k)
    BY <1>3
  <2>2. k \in Key /\ k \notin Requirement
    BY StoreAssumption DEF Key
  <2>3. IsOn(curr, k)
    BY <1>3, <2>1, <2>2 DEF Terminated
  <2>4. QED BY <2>3
<1>4. QED BY <1>1, <1>2, <1>3 DEF HandleUpdate

LEMMA WantedStep ==
  ASSUME FocusTracking \subseteq AdhocTest, LInv, Wanted, [LifecycleNext]_vars
  PROVE  Wanted'
<1>1. CASE ReceiveUpdate
  <2>1. UNCHANGED script /\ Head(toScript) \in GoodState /\ Null \notin GoodState
    <3>1. toScript # <<>> /\ UNCHANGED script
      BY <1>1 DEF ReceiveUpdate
    <3>2. Null \notin GoodState
      BY LifecycleAssumption DEF GoodState
    <3>3. QED BY <3>1, <3>2, HeadTailProperties DEF LInv, Shape
  <2>2. CASE script = "ready" /\ Head(toScript) # proxy
    <3>1. HandleUpdate(Head(toScript)) /\ prevState' = Head(toScript)
      BY <1>1, <2>2 DEF ReceiveUpdate, HandleUpdate
    <3>2. QED BY <2>1, <2>2, <3>1, HandleUpdateWanted DEF Wanted
  <2>3. CASE ~(script = "ready" /\ Head(toScript) # proxy)
    BY <1>1, <2>1, <2>3 DEF ReceiveUpdate, Wanted
  <2>4. QED BY <2>2, <2>3
<1>2. CASE ReceiveOtherStores
  <2>1. script = "waiting" /\ script' = "ready" /\ ~listening
    BY <1>2 DEF ReceiveOtherStores, Wanted
  <2>2. CASE proxy = Null
    BY <1>2, <2>1, <2>2 DEF ReceiveOtherStores, Wanted
  <2>3. CASE proxy # Null
    <3>1. HandleUpdate(proxy) /\ prevState' = proxy /\ proxy \in GoodState
      BY <1>2, <2>3 DEF ReceiveOtherStores, HandleUpdate, LInv, Shape
    <3>2. QED BY <2>1, <2>3, <3>1, HandleUpdateWanted DEF Wanted
  <2>4. QED BY <2>2, <2>3
<1>3. CASE LeavePage
  BY <1>3 DEF LeavePage, Wanted
<1>4. ASSUME NEW i \in Slot, RunScript(i)
      PROVE  Wanted'
  BY <1>4 DEF RunScript, Wanted
<1>5. ASSUME NEW i \in Slot, FireTimer(i) \/ ResolveInjection(i) \/ RejectInjection(i)
      PROVE  Wanted'
  BY <1>5 DEF FireTimer, ResolveInjection, RejectInjection, page, Wanted
<1>6. ASSUME NEW k \in Key, CompleteAnalysis(k) \/ FailAnalysis(k)
      PROVE  Wanted'
  BY <1>6 DEF CompleteAnalysis, FailAnalysis, Wanted
<1>7. ASSUME NEW mode \in InspectMode \cup {Off}, ChangeInspectMode(mode)
      PROVE  Wanted'
  BY <1>7 DEF ChangeInspectMode, page, Wanted
<1>8. CASE ReceiveViewMessage \/ UpdateTargetTab \/ ReceiveScriptMessage \/ ChangeUrl
  BY <1>8 DEF ReceiveViewMessage, UpdateTargetTab, ReceiveScriptMessage, ChangeUrl, page, Wanted
<1>9. CASE UNCHANGED vars
  BY <1>9 DEF vars, page, Wanted
<1>10. QED
  BY <1>1, <1>2, <1>3, <1>4, <1>5, <1>6, <1>7, <1>8, <1>9 DEF LifecycleNext, Environment

\* As long as it is ad hoc tests only that record tab stops, a page that has heard
\* everything records them only while such a test is on.  The hypothesis cannot be
\* dropped: a requirement's analyzer survives the reset of its assessment.
THEOREM LifecycleRecording ==
  ASSUME FocusTracking \subseteq AdhocTest
  PROVE  LifecycleSpec => []RecordingOnlyWhileOn
<1>1. LifecycleInit => Wanted
  BY DEF LifecycleInit, Wanted
<1>2. LInv /\ Wanted /\ [LifecycleNext]_vars => Wanted'
  BY WantedStep
<1>3. LInv /\ Wanted => RecordingOnlyWhileOn
  BY DEF LInv, Informed, Acted, Wanted, RecordingOnlyWhileOn, Settled
<1>4. QED BY <1>1, <1>2, <1>3, LifecycleInv, PTL DEF LifecycleSpec

-----------------------------------------------------------------------------
(* Injections that are requested are under way, when injections succeed and *)
(* outlast their timers.                                                   *)

\* No view's message marks an injection as started: that is for its timer to do.
LEMMA TurnOffLeavesInjection ==
  ASSUME NEW s \in State, NEW tests
  PROVE  TurnOff(s, tests).injectingStarted = s.injectingStarted
BY DEF TurnOff, State

LEMMA EnableLeavesStarted ==
  ASSUME NEW s, Inv(s), NEW k \in Key, NEW skipScanning \in BOOLEAN
  PROVE  EnableTest(s, k, skipScanning).state.injectingStarted = s.injectingStarted
<1>1. CASE s.scanning # Null
  BY <1>1 DEF EnableTest, Silent
<1>2. CASE s.scanning = Null
  <2> DEFINE off == TurnOff(s, Assessment)
             c == IF skipScanning THEN Null ELSE k
             m == [off EXCEPT !.scanning = c, !.injectingRequested = TRUE]
  <2>1. off \in State /\ off.injectingStarted = s.injectingStarted
    BY <1>2, TurnOffFacts DEF Inv
  <2>2. EnableTest(s, k, skipScanning).state = SwitchOn(m, k)
    BY <1>2 DEF EnableTest, Emit
  <2> HIDE DEF off
  <2>3. c \in Key \cup {Null}
    OBVIOUS
  <2> HIDE DEF c
  <2>4. m \in State /\ m.injectingStarted = off.injectingStarted
    BY <2>1, <2>3 DEF State
  <2> HIDE DEF m
  <2>5. SwitchOn(m, k).injectingStarted = m.injectingStarted
    BY <2>4 DEF SwitchOn, State
  <2>6. QED BY <2>1, <2>2, <2>4, <2>5
<1>3. QED BY <1>1, <1>2

LEMMA DisableLeavesStarted ==
  ASSUME NEW s, Inv(s), NEW test
  PROVE  OnDisableVisualization(s, test).state.injectingStarted = s.injectingStarted
BY TurnOffLeavesInjection DEF OnDisableVisualization, Emit, Silent, Inv

LEMMA PivotChildLeavesStarted ==
  ASSUME NEW s, Inv(s), NEW view \in View, NEW pivot \in PivotChoice
  PROVE  OnUpdateSelectedPivotChild(s, view, pivot).state.injectingStarted = s.injectingStarted
<1> DEFINE newView == IF view # Null /\ pivot = FastPass THEN view ELSE s.fastPassView
           newPivot == IF pivot # Null THEN pivot ELSE s.pivot
           u == [s EXCEPT !.fastPassView = newView, !.pivot = newPivot]
           moved == OnUpdateSelectedPivotChild(s, view, pivot).state
<1>1. newView \in DetailsView /\ newPivot \in Pivot
  BY DEF View, PivotChoice, Inv, State
<1>2. moved = s \/ moved = TurnOff(u, Test)
  BY DEF OnUpdateSelectedPivotChild, Emit, Silent
<1> HIDE DEF newView, newPivot
<1>3. u \in State /\ u.injectingStarted = s.injectingStarted
  BY <1>1 DEF Inv, State
<1> HIDE DEF u
<1>4. QED BY <1>2, <1>3, TurnOffLeavesInjection

LEMMA ViewLeavesStarted ==
  ASSUME Inv(vis), NEW o \in ViewOutcomes
  PROVE  o.state.injectingStarted = vis.injectingStarted
<1>1. CASE o \in ToggleOutcomes(vis)
  <2>1. \A t \in AdhocTest, on \in BOOLEAN :
          OnVisualizationToggle(vis, t, on).state.injectingStarted = vis.injectingStarted
    BY EnableLeavesStarted, DisableLeavesStarted
       DEF OnVisualizationToggle, OnEnableVisualization, Key
  <2>2. ASSUME NEW t \in AdhocTest
        PROVE  OnRescanVisualization(vis, t).state.injectingStarted = vis.injectingStarted
    <3> DEFINE d == OnDisableVisualization(vis, t).state
    <3>1. Inv(d) /\ d.injectingStarted = vis.injectingStarted
      BY DisableGood, DisableLeavesStarted DEF GoodOutcome
    <3>2. OnRescanVisualization(vis, t).state = EnableTest(d, t, FALSE).state
      BY DEF OnRescanVisualization, OnEnableVisualization, Then
    <3> HIDE DEF d
    <3>3. t \in Key
      BY DEF Key
    <3>4. QED BY <3>1, <3>2, <3>3, EnableLeavesStarted
  <2>3. QED BY <1>1, <2>1, <2>2 DEF ToggleOutcomes
<1>2. CASE o \in AssessmentOutcomes(vis)
  <2>1. OnDisableAssessmentVisualizations(vis).state.injectingStarted = vis.injectingStarted
    BY TurnOffLeavesInjection DEF OnDisableAssessmentVisualizations, Emit, Inv
  <2>2. \A r \in Requirement :
          /\ OnEnableVisualization(vis, r).state.injectingStarted = vis.injectingStarted
          /\ OnEnableVisualizationWithoutScan(vis, r).state.injectingStarted = vis.injectingStarted
    BY EnableLeavesStarted DEF OnEnableVisualization, OnEnableVisualizationWithoutScan, Key
  <2>3. QED BY <1>2, <2>1, <2>2, DisableLeavesStarted DEF AssessmentOutcomes
<1>3. CASE o \in NavigationOutcomes(vis)
  <2>1. ASSUME NEW pivot \in Pivot
        PROVE  OnUpdateSelectedPivot(vis, pivot).state.injectingStarted = vis.injectingStarted
    <3> DEFINE u == [vis EXCEPT !.pivot = pivot]
    <3>1. u \in State /\ u.injectingStarted = vis.injectingStarted
      BY DEF Inv, State
    <3>2. \/ OnUpdateSelectedPivot(vis, pivot).state = vis
          \/ OnUpdateSelectedPivot(vis, pivot).state = TurnOff(u, Test)
      BY DEF OnUpdateSelectedPivot, Emit, Silent
    <3> HIDE DEF u
    <3>3. QED BY <3>1, <3>2, TurnOffLeavesInjection
  <2>2. ASSUME NEW view \in View, NEW pivot \in PivotChoice
        PROVE  OnDetailsViewOpen(vis, view, pivot).state.injectingStarted = vis.injectingStarted
    <3> DEFINE e == IF view \in AdhocTest \ {TabStops}
                    THEN EnableTest(vis, view, FALSE).state ELSE vis
    <3>1. Inv(e) /\ e.injectingStarted = vis.injectingStarted
      BY EnableGood, EnableLeavesStarted DEF GoodOutcome, Key
    <3>2. OnDetailsViewOpen(vis, view, pivot).state = OnUpdateSelectedPivotChild(e, view, pivot).state
      BY DEF OnDetailsViewOpen, OnVisualizationToggle, OnEnableVisualization, Then, Silent
    <3> HIDE DEF e
    <3>3. QED BY <3>1, <3>2, PivotChildLeavesStarted
  <2>3. QED BY <1>3, <2>1, <2>2, PivotChildLeavesStarted DEF NavigationOutcomes
<1>4. CASE o = OnGetCurrentState(vis)
  BY <1>4 DEF OnGetCurrentState, Emit
<1>5. QED BY <1>1, <1>2, <1>3, <1>4 DEF ViewOutcomes

Busy(inj, i) == inj[i].phase \in {"loading", "loaded"}

\* The timer of an injection fires while the injection is under way, which is what
\* keeps a late InjectionStarted from requesting one that nobody launches.
Served ==
  /\ \A i \in Slot : injection[i].timer => Busy(injection, i)
  /\ vis.injectingRequested => \E i \in Slot : Busy(injection, i)

LEMMA LaunchServes ==
  ASSUME NEW inj \in [Slot -> InjectionState], NEW n, CanLaunch(inj, n),
         \A i \in Slot : inj[i].timer => Busy(inj, i)
  PROVE  LET new == Launch(inj, n)
         IN  /\ \A i \in Slot : new[i].timer => Busy(new, i)
             /\ \A i \in Slot : Busy(inj, i) => Busy(new, i)
             /\ n # 0 => \E i \in Slot : Busy(new, i)
<1> DEFINE new == Launch(inj, n)
<1>1. /\ \A i \in Slot : new[i] = FreshInjection \/ new[i] = inj[i]
      /\ n # 0 => \E i \in Slot : new[i] = FreshInjection
  BY LaunchFacts
<1>2. FreshInjection.phase = "loading"
  BY DEF FreshInjection
<1> HIDE DEF new
<1>3. /\ \A i \in Slot : new[i].timer => Busy(new, i)
      /\ \A i \in Slot : Busy(inj, i) => Busy(new, i)
      /\ n # 0 => \E i \in Slot : Busy(new, i)
  BY <1>1, <1>2 DEF Busy
<1>4. QED BY <1>3 DEF new

\* Taking an outcome that requests an injection only if one is under way already or
\* if it emits that request.
LEMMA TakeServes ==
  ASSUME NEW o, o.emitted \in Seq(GoodState), NEW inj \in [Slot -> InjectionState], Take(o, inj),
         \A i \in Slot : inj[i].timer => Busy(inj, i),
         o.state.injectingRequested =>
           \/ \E i \in Slot : Busy(inj, i)
           \/ \E j \in DOMAIN o.emitted : WantsInjection(o.emitted[j], inspectMode, oldInspectType)
  PROVE  Served'
<1>1. /\ CanLaunch(inj, Launches(o)) /\ injection' = Launch(inj, Launches(o))
      /\ vis' = o.state
  BY DEF Take, Broadcast
<1>2. /\ \A i \in Slot : injection'[i].timer => Busy(injection', i)
      /\ \A i \in Slot : Busy(inj, i) => Busy(injection', i)
      /\ Launches(o) # 0 => \E i \in Slot : Busy(injection', i)
  BY <1>1, LaunchServes
<1>3. (\E j \in DOMAIN o.emitted : WantsInjection(o.emitted[j], inspectMode, oldInspectType))
        => Launches(o) # 0
  BY LaunchesPositive
<1>4. QED BY <1>1, <1>2, <1>3 DEF Served, Busy

\* A view's message that raises the request emits it, to the injector among others.
LEMMA ViewRequestEmitted ==
  ASSUME Inv(vis), NEW o \in ViewOutcomes,
         o.state.injectingRequested, ~vis.injectingRequested
  PROVE  \E j \in DOMAIN o.emitted : WantsInjection(o.emitted[j], inspectMode, oldInspectType)
<1>1. GoodOutcome(vis, o) /\ o.state.injectingStarted = vis.injectingStarted
  BY ViewGood, ViewLeavesStarted
<1>2. ~o.state.injectingStarted
  BY <1>1 DEF Inv
<1>3. o.emitted # <<>> /\ o.emitted \in Seq(GoodState) /\ o.emitted[Len(o.emitted)] = o.state
  BY <1>1 DEF GoodOutcome
<1>4. Len(o.emitted) \in DOMAIN o.emitted
  BY <1>3, EmptySeq, LenProperties
<1>5. WantsInjection(o.emitted[Len(o.emitted)], inspectMode, oldInspectType)
  BY <1>2, <1>3 DEF WantsInjection
<1>6. QED BY <1>4, <1>5

LEMMA ServedStep ==
  ASSUME Event \cap {"injectionFails", "timerLags"} = {},
         LInv, Served, [LifecycleNext]_vars
  PROVE  Served'
<1>1. /\ Inv(vis) /\ injection \in [Slot -> InjectionState]
      /\ \A i \in Slot : injection[i].timer => Busy(injection, i)
      /\ vis.injectingRequested => \E i \in Slot : Busy(injection, i)
  BY DEF LInv, Shape, Served
<1>2. /\ GoodOutcome(vis, OnInjectionStarted(vis))
      /\ GoodOutcome(vis, OnInjectionCompleted(vis))
      /\ GoodOutcome(vis, OnExistingTabUpdated(vis))
      /\ GoodOutcome(vis, OnGetCurrentState(vis))
      /\ GoodOutcome(vis, OnScanCompleted(vis))
  BY <1>1, FieldHandlersGood
<1>3. /\ ~OnInjectionCompleted(vis).state.injectingRequested
      /\ ~OnExistingTabUpdated(vis).state.injectingRequested
      /\ OnGetCurrentState(vis).state.injectingRequested = vis.injectingRequested
      /\ OnScanCompleted(vis).state.injectingRequested = vis.injectingRequested
  BY <1>1 DEF OnInjectionCompleted, OnExistingTabUpdated, OnGetCurrentState, OnScanCompleted,
              Emit, DefaultState, Inv, State
<1>4. CASE ReceiveViewMessage
  <2>1. PICK o \in ViewOutcomes : Take(o, injection)
    BY <1>4 DEF ReceiveViewMessage
  <2>2. o.emitted \in Seq(GoodState)
    BY <1>1, ViewGood DEF GoodOutcome
  <2>3. o.state.injectingRequested =>
          \/ \E i \in Slot : Busy(injection, i)
          \/ \E j \in DOMAIN o.emitted : WantsInjection(o.emitted[j], inspectMode, oldInspectType)
    BY <1>1, ViewRequestEmitted
  <2>4. QED BY <1>1, <2>1, <2>2, <2>3, TakeServes
<1>5. ASSUME NEW mode \in InspectMode \cup {Off}, ChangeInspectMode(mode)
      PROVE  Served'
  <2> DEFINE n == IF WantsInjection(vis, mode, oldInspectType) THEN 1 ELSE 0
  <2>1. CanLaunch(injection, n) /\ injection' = Launch(injection, n) /\ vis' = vis
    BY <1>5 DEF ChangeInspectMode
  <2> HIDE DEF n
  <2>2. /\ \A i \in Slot : injection'[i].timer => Busy(injection', i)
        /\ \A i \in Slot : Busy(injection, i) => Busy(injection', i)
    BY <1>1, <2>1, LaunchServes
  <2>3. QED BY <1>1, <2>1, <2>2 DEF Served, Busy
<1>6. ASSUME NEW i \in Slot, FireTimer(i)
      PROVE  Served'
  <2> DEFINE inj == [injection EXCEPT ![i].timer = FALSE]
  <2>1. inj \in [Slot -> InjectionState] /\ Busy(inj, i)
        /\ \A j \in Slot : inj[j].timer => Busy(inj, j)
    BY <1>1, <1>6 DEF FireTimer, InjectionState, Busy
  <2>2. Take(OnInjectionStarted(vis), inj) /\ OnInjectionStarted(vis).emitted \in Seq(GoodState)
    BY <1>2, <1>6 DEF FireTimer, GoodOutcome
  <2> HIDE DEF inj
  <2>3. QED BY <2>1, <2>2, TakeServes
<1>7. ASSUME NEW i \in Slot, ResolveInjection(i)
      PROVE  Served'
  <2> DEFINE inj == [injection EXCEPT ![i].phase = "none"]
  <2>1. inj \in [Slot -> InjectionState] /\ ~injection[i].timer
    BY <1>1, <1>7 DEF ResolveInjection, InjectionState
  <2>2. \A j \in Slot : inj[j].timer => Busy(inj, j)
    BY <1>1, <2>1 DEF InjectionState, Busy
  <2>3. Take(OnInjectionCompleted(vis), inj) /\ OnInjectionCompleted(vis).emitted \in Seq(GoodState)
    BY <1>2, <1>7 DEF ResolveInjection, GoodOutcome
  <2> HIDE DEF inj
  <2>4. QED BY <1>3, <2>1, <2>2, <2>3, TakeServes
<1>8. CASE UpdateTargetTab
  <2>1. Take(OnExistingTabUpdated(vis), injection) /\ OnExistingTabUpdated(vis).emitted \in Seq(GoodState)
    BY <1>2, <1>8 DEF UpdateTargetTab, GoodOutcome
  <2>2. QED BY <1>1, <1>3, <2>1, TakeServes
<1>9. CASE ReceiveScriptMessage
  <2> DEFINE o == IF Head(toBackground) = "getState" THEN OnGetCurrentState(vis)
                                                     ELSE OnScanCompleted(vis)
  <2>1. /\ Take(o, injection) /\ o.emitted \in Seq(GoodState)
        /\ o.state.injectingRequested = vis.injectingRequested
    BY <1>2, <1>3, <1>9 DEF ReceiveScriptMessage, GoodOutcome
  <2> HIDE DEF o
  <2>2. QED BY <1>1, <2>1, TakeServes
<1>10. ASSUME NEW i \in Slot, RunScript(i)
       PROVE  Served'
  <2>1. injection' = [injection EXCEPT ![i].phase =
                        IF injection[i].phase = "loading" THEN "loaded" ELSE "none"]
    BY <1>1, <1>10 DEF RunScript
  <2>2. injection[i].phase \in {"loading", "timedOut"} /\ vis' = vis
    BY <1>10 DEF RunScript
  <2>3. \A j \in Slot : Busy(injection, j) => Busy(injection', j)
    BY <1>1, <2>1, <2>2 DEF Busy, InjectionState
  <2>4. \A j \in Slot : injection'[j].timer => injection[j].timer
    BY <1>1, <2>1 DEF InjectionState
  <2>5. QED BY <1>1, <2>2, <2>3, <2>4 DEF Served, Busy
<1>11. ASSUME NEW i \in Slot, RejectInjection(i)
       PROVE  Served'
  BY <1>11 DEF RejectInjection
<1>12. ASSUME NEW k \in Key, CompleteAnalysis(k) \/ FailAnalysis(k)
       PROVE  Served'
  BY <1>12 DEF CompleteAnalysis, FailAnalysis, background, Served, Busy
<1>13. CASE ReceiveUpdate \/ ReceiveOtherStores \/ LeavePage \/ ChangeUrl
  BY <1>13 DEF ReceiveUpdate, ReceiveOtherStores, LeavePage, ChangeUrl, background, Served, Busy
<1>14. CASE UNCHANGED vars
  BY <1>14 DEF vars, background, Served, Busy
<1>15. QED
  BY <1>4, <1>5, <1>6, <1>7, <1>8, <1>9, <1>10, <1>11, <1>12, <1>13, <1>14
     DEF LifecycleNext, Environment

\* On a page where injections succeed and none completes, or loses its page, within
\* its first ten milliseconds, a requested injection is always under way.
THEOREM LifecycleRequestIsServed ==
  ASSUME Event \cap {"injectionFails", "timerLags"} = {}
  PROVE  LifecycleSpec => []RequestIsServed
<1>1. LifecycleInit => Served
  BY DEF LifecycleInit, StoreInit, DefaultState, NoInjection, Served
<1>2. LInv /\ Served /\ [LifecycleNext]_vars => Served'
  BY ServedStep
<1>3. Served => RequestIsServed
  BY DEF Served, Busy, RequestIsServed, InFlight
<1>4. QED BY <1>1, <1>2, <1>3, LifecycleInv, PTL DEF LifecycleSpec

-----------------------------------------------------------------------------
(* While a scan is wanted something is under way that will end it.         *)

\* A scan that a view starts asks for an injection, so a store that was not
\* scanning before is, after any of the views' messages, asking or not scanning.
Asking(s) == s.scanning # Null => s.injectingRequested

LEMMA TurnOffAsks ==
  ASSUME NEW s \in State, Asking(s), NEW tests
  PROVE  Asking(TurnOff(s, tests))
BY DEF TurnOff, State, Asking

LEMMA EnableAsks ==
  ASSUME NEW s, Inv(s), Asking(s), NEW k \in Key, NEW skipScanning \in BOOLEAN
  PROVE  Asking(EnableTest(s, k, skipScanning).state)
<1>1. CASE s.scanning # Null
  BY <1>1 DEF EnableTest, Silent
<1>2. CASE s.scanning = Null
  <2> DEFINE off == TurnOff(s, Assessment)
             c == IF skipScanning THEN Null ELSE k
             m == [off EXCEPT !.scanning = c, !.injectingRequested = TRUE]
  <2>1. off \in State
    BY <1>2, TurnOffFacts DEF Inv
  <2>2. EnableTest(s, k, skipScanning).state = SwitchOn(m, k)
    BY <1>2 DEF EnableTest, Emit
  <2> HIDE DEF off
  <2>3. c \in Key \cup {Null}
    OBVIOUS
  <2> HIDE DEF c
  <2>4. m \in State /\ m.injectingRequested
    BY <2>1, <2>3 DEF State
  <2> HIDE DEF m
  <2>5. SwitchOn(m, k).injectingRequested
    BY <2>4 DEF SwitchOn, State
  <2>6. QED BY <2>2, <2>5 DEF Asking
<1>3. QED BY <1>1, <1>2

LEMMA DisableAsks ==
  ASSUME NEW s, Inv(s), Asking(s), NEW test
  PROVE  Asking(OnDisableVisualization(s, test).state)
BY TurnOffAsks DEF OnDisableVisualization, Emit, Silent, Inv

LEMMA PivotChildAsks ==
  ASSUME NEW s, Inv(s), Asking(s), NEW view \in View, NEW pivot \in PivotChoice
  PROVE  Asking(OnUpdateSelectedPivotChild(s, view, pivot).state)
<1> DEFINE newView == IF view # Null /\ pivot = FastPass THEN view ELSE s.fastPassView
           newPivot == IF pivot # Null THEN pivot ELSE s.pivot
           u == [s EXCEPT !.fastPassView = newView, !.pivot = newPivot]
           moved == OnUpdateSelectedPivotChild(s, view, pivot).state
<1>1. newView \in DetailsView /\ newPivot \in Pivot
  BY DEF View, PivotChoice, Inv, State
<1>2. moved = s \/ moved = TurnOff(u, Test)
  BY DEF OnUpdateSelectedPivotChild, Emit, Silent
<1> HIDE DEF newView, newPivot
<1>3. u \in State /\ Asking(u)
  BY <1>1 DEF Inv, State, Asking
<1> HIDE DEF u
<1>4. QED BY <1>2, <1>3, TurnOffAsks

LEMMA ViewAsks ==
  ASSUME Inv(vis), Asking(vis), NEW o \in ViewOutcomes
  PROVE  Asking(o.state)
<1>1. CASE o \in ToggleOutcomes(vis)
  <2>1. \A t \in AdhocTest, on \in BOOLEAN : Asking(OnVisualizationToggle(vis, t, on).state)
    BY EnableAsks, DisableAsks DEF OnVisualizationToggle, OnEnableVisualization, Key
  <2>2. ASSUME NEW t \in AdhocTest
        PROVE  Asking(OnRescanVisualization(vis, t).state)
    <3> DEFINE d == OnDisableVisualization(vis, t).state
    <3>1. Inv(d) /\ Asking(d)
      BY DisableGood, DisableAsks DEF GoodOutcome
    <3>2. OnRescanVisualization(vis, t).state = EnableTest(d, t, FALSE).state
      BY DEF OnRescanVisualization, OnEnableVisualization, Then
    <3> HIDE DEF d
    <3>3. t \in Key
      BY DEF Key
    <3>4. QED BY <3>1, <3>2, <3>3, EnableAsks
  <2>3. QED BY <1>1, <2>1, <2>2 DEF ToggleOutcomes
<1>2. CASE o \in AssessmentOutcomes(vis)
  <2>1. Asking(OnDisableAssessmentVisualizations(vis).state)
    BY TurnOffAsks DEF OnDisableAssessmentVisualizations, Emit, Inv
  <2>2. \A r \in Requirement : /\ Asking(OnEnableVisualization(vis, r).state)
                               /\ Asking(OnEnableVisualizationWithoutScan(vis, r).state)
    BY EnableAsks DEF OnEnableVisualization, OnEnableVisualizationWithoutScan, Key
  <2>3. QED BY <1>2, <2>1, <2>2, DisableAsks DEF AssessmentOutcomes
<1>3. CASE o \in NavigationOutcomes(vis)
  <2>1. ASSUME NEW pivot \in Pivot
        PROVE  Asking(OnUpdateSelectedPivot(vis, pivot).state)
    <3> DEFINE u == [vis EXCEPT !.pivot = pivot]
    <3>1. u \in State /\ Asking(u)
      BY DEF Inv, State, Asking
    <3>2. \/ OnUpdateSelectedPivot(vis, pivot).state = vis
          \/ OnUpdateSelectedPivot(vis, pivot).state = TurnOff(u, Test)
      BY DEF OnUpdateSelectedPivot, Emit, Silent
    <3> HIDE DEF u
    <3>3. QED BY <3>1, <3>2, TurnOffAsks
  <2>2. ASSUME NEW view \in View, NEW pivot \in PivotChoice
        PROVE  Asking(OnDetailsViewOpen(vis, view, pivot).state)
    <3> DEFINE e == IF view \in AdhocTest \ {TabStops}
                    THEN EnableTest(vis, view, FALSE).state ELSE vis
    <3>1. Inv(e) /\ Asking(e)
      BY EnableGood, EnableAsks DEF GoodOutcome, Key
    <3>2. OnDetailsViewOpen(vis, view, pivot).state = OnUpdateSelectedPivotChild(e, view, pivot).state
      BY DEF OnDetailsViewOpen, OnVisualizationToggle, OnEnableVisualization, Then, Silent
    <3> HIDE DEF e
    <3>3. QED BY <3>1, <3>2, PivotChildAsks
  <2>3. QED BY <1>3, <2>1, <2>2, PivotChildAsks DEF NavigationOutcomes
<1>4. CASE o = OnGetCurrentState(vis)
  BY <1>4 DEF OnGetCurrentState, Emit
<1>5. QED BY <1>1, <1>2, <1>3, <1>4 DEF ViewOutcomes

\* A page without a content script: what the store wants of it is asked of it by an
\* injection that has yet to run its script, unless the browser is about to report
\* that the tab was updated, which makes the store forget it.
Loading(inj, i) == inj[i].phase = "loading"

WantsPage(s) == s.scanning # Null \/ s.injectingRequested

Reached ==
  script = "absent" =>
    /\ \A i \in Slot : injection[i].timer => Loading(injection, i)
    /\ WantsPage(vis) => tabUpdates > 0 \/ \E i \in Slot : Loading(injection, i)

LEMMA LaunchReaches ==
  ASSUME NEW inj \in [Slot -> InjectionState], NEW n, CanLaunch(inj, n),
         \A i \in Slot : inj[i].timer => Loading(inj, i)
  PROVE  LET new == Launch(inj, n)
         IN  /\ \A i \in Slot : new[i].timer => Loading(new, i)
             /\ \A i \in Slot : Loading(inj, i) => Loading(new, i)
             /\ n # 0 => \E i \in Slot : Loading(new, i)
<1> DEFINE new == Launch(inj, n)
<1>1. /\ \A i \in Slot : new[i] = FreshInjection \/ new[i] = inj[i]
      /\ n # 0 => \E i \in Slot : new[i] = FreshInjection
  BY LaunchFacts
<1>2. FreshInjection.phase = "loading"
  BY DEF FreshInjection
<1> HIDE DEF new
<1>3. /\ \A i \in Slot : new[i].timer => Loading(new, i)
      /\ \A i \in Slot : Loading(inj, i) => Loading(new, i)
      /\ n # 0 => \E i \in Slot : Loading(new, i)
  BY <1>1, <1>2 DEF Loading
<1>4. QED BY <1>3 DEF new

\* Taking an outcome that wants something of the page only if an injection is
\* loading already or if it emits the request for one.
LEMMA TakeReaches ==
  ASSUME NEW o, o.emitted \in Seq(GoodState), NEW inj \in [Slot -> InjectionState], Take(o, inj),
         UNCHANGED script,
         script = "absent" =>
           /\ \A i \in Slot : inj[i].timer => Loading(inj, i)
           /\ WantsPage(o.state) =>
                \/ tabUpdates' > 0
                \/ \E i \in Slot : Loading(inj, i)
                \/ \E j \in DOMAIN o.emitted :
                     WantsInjection(o.emitted[j], inspectMode, oldInspectType)
  PROVE  Reached'
<1>1. /\ CanLaunch(inj, Launches(o)) /\ injection' = Launch(inj, Launches(o))
      /\ vis' = o.state
  BY DEF Take, Broadcast
<1>2. (\E j \in DOMAIN o.emitted : WantsInjection(o.emitted[j], inspectMode, oldInspectType))
        => Launches(o) # 0
  BY LaunchesPositive
<1>3. CASE script = "absent"
  <2>1. /\ \A i \in Slot : injection'[i].timer => Loading(injection', i)
        /\ \A i \in Slot : Loading(inj, i) => Loading(injection', i)
        /\ Launches(o) # 0 => \E i \in Slot : Loading(injection', i)
    BY <1>1, <1>3, LaunchReaches
  <2>2. WantsPage(vis') => tabUpdates' > 0 \/ \E i \in Slot : Loading(injection', i)
    BY <1>1, <1>2, <1>3, <2>1
  <2>3. QED BY <2>1, <2>2 DEF Reached, Loading, WantsPage
<1>4. CASE script # "absent"
  BY <1>4 DEF Reached
<1>5. QED BY <1>3, <1>4

LEMMA ReachedStep ==
  ASSUME Event \cap {"injectionFails", "timerLags"} = {},
         LInv, Reached, [LifecycleNext]_vars
  PROVE  Reached'
<1>1. /\ Inv(vis) /\ vis \in State /\ injection \in [Slot -> InjectionState] /\ tabUpdates \in Nat
      /\ script = "absent" =>
           /\ \A i \in Slot : injection[i].timer => Loading(injection, i)
           /\ WantsPage(vis) => tabUpdates > 0 \/ \E i \in Slot : Loading(injection, i)
  BY DEF LInv, Shape, Reached, Inv
<1>2. /\ GoodOutcome(vis, OnInjectionStarted(vis))
      /\ GoodOutcome(vis, OnInjectionCompleted(vis))
      /\ GoodOutcome(vis, OnExistingTabUpdated(vis))
      /\ GoodOutcome(vis, OnGetCurrentState(vis))
      /\ GoodOutcome(vis, OnScanCompleted(vis))
  BY <1>1, FieldHandlersGood
<1>3. /\ WantsPage(OnInjectionCompleted(vis).state) => WantsPage(vis)
      /\ ~WantsPage(OnExistingTabUpdated(vis).state)
      /\ WantsPage(OnGetCurrentState(vis).state) => WantsPage(vis)
      /\ WantsPage(OnScanCompleted(vis).state) => WantsPage(vis)
  BY <1>1 DEF OnInjectionCompleted, OnExistingTabUpdated, OnGetCurrentState, OnScanCompleted,
              Emit, DefaultState, State, WantsPage
<1>4. CASE ReceiveViewMessage
  <2>1. PICK o \in ViewOutcomes : Take(o, injection)
    BY <1>4 DEF ReceiveViewMessage
  <2>2. o.emitted \in Seq(GoodState) /\ UNCHANGED <<script, tabUpdates>>
    BY <1>1, <1>4, ViewGood DEF GoodOutcome, ReceiveViewMessage, page
  <2>3. ASSUME WantsPage(o.state), ~WantsPage(vis)
        PROVE  \E j \in DOMAIN o.emitted :
                 WantsInjection(o.emitted[j], inspectMode, oldInspectType)
    <3>1. o.state.injectingRequested
      BY <1>1, <2>3, ViewAsks DEF Asking, WantsPage
    <3>2. ~vis.injectingRequested
      BY <2>3 DEF WantsPage
    <3>3. QED BY <1>1, <3>1, <3>2, ViewRequestEmitted
  <2>4. QED BY <1>1, <2>1, <2>2, <2>3, TakeReaches
<1>5. ASSUME NEW mode \in InspectMode \cup {Off}, ChangeInspectMode(mode)
      PROVE  Reached'
  <2> DEFINE n == IF WantsInjection(vis, mode, oldInspectType) THEN 1 ELSE 0
  <2>1. /\ CanLaunch(injection, n) /\ injection' = Launch(injection, n)
        /\ UNCHANGED <<vis, script, tabUpdates>>
    BY <1>5 DEF ChangeInspectMode, page
  <2> HIDE DEF n
  <2>2. script = "absent" => /\ \A i \in Slot : injection'[i].timer => Loading(injection', i)
                             /\ \A i \in Slot : Loading(injection, i) => Loading(injection', i)
    BY <1>1, <2>1, LaunchReaches
  <2>3. QED BY <1>1, <2>1, <2>2 DEF Reached, Loading, WantsPage
<1>6. ASSUME NEW i \in Slot, FireTimer(i)
      PROVE  Reached'
  <2> DEFINE inj == [injection EXCEPT ![i].timer = FALSE]
  <2>1. /\ inj \in [Slot -> InjectionState]
        /\ \A j \in Slot : /\ Loading(inj, j) <=> Loading(injection, j)
                           /\ inj[j].timer => injection[j].timer
        /\ injection[i].timer
    BY <1>1, <1>6 DEF FireTimer, InjectionState, Loading
  <2>2. Take(OnInjectionStarted(vis), inj) /\ OnInjectionStarted(vis).emitted \in Seq(GoodState)
    BY <1>2, <1>6 DEF FireTimer, GoodOutcome
  <2>3. UNCHANGED script
    BY <1>6 DEF FireTimer, page
  <2> HIDE DEF inj
  <2>4. QED BY <1>1, <2>1, <2>2, <2>3, TakeReaches
<1>7. ASSUME NEW i \in Slot, ResolveInjection(i)
      PROVE  Reached'
  <2> DEFINE inj == [injection EXCEPT ![i].phase = "none"]
  <2>1. /\ inj \in [Slot -> InjectionState]
        /\ \A j \in Slot : /\ Loading(inj, j) <=> Loading(injection, j)
                           /\ inj[j].timer => injection[j].timer
    BY <1>1, <1>7 DEF ResolveInjection, InjectionState, Loading
  <2>2. /\ Take(OnInjectionCompleted(vis), inj)
        /\ OnInjectionCompleted(vis).emitted \in Seq(GoodState)
    BY <1>2, <1>7 DEF ResolveInjection, GoodOutcome
  <2>3. UNCHANGED <<script, tabUpdates>>
    BY <1>7 DEF ResolveInjection, page
  <2> HIDE DEF inj
  <2>4. QED BY <1>1, <1>3, <2>1, <2>2, <2>3, TakeReaches
<1>8. CASE UpdateTargetTab
  <2>1. /\ Take(OnExistingTabUpdated(vis), injection)
        /\ OnExistingTabUpdated(vis).emitted \in Seq(GoodState)
        /\ UNCHANGED script
    BY <1>2, <1>8 DEF UpdateTargetTab, GoodOutcome, page
  <2>2. QED BY <1>1, <1>3, <2>1, TakeReaches
<1>9. CASE ReceiveScriptMessage
  <2> DEFINE o == IF Head(toBackground) = "getState" THEN OnGetCurrentState(vis)
                                                     ELSE OnScanCompleted(vis)
  <2>1. /\ Take(o, injection) /\ o.emitted \in Seq(GoodState)
        /\ WantsPage(o.state) => WantsPage(vis)
        /\ UNCHANGED <<script, tabUpdates>>
    BY <1>2, <1>3, <1>9 DEF ReceiveScriptMessage, GoodOutcome, page
  <2> HIDE DEF o
  <2>2. QED BY <1>1, <2>1, TakeReaches
<1>10. ASSUME NEW i \in Slot, RunScript(i)
       PROVE  Reached'
  BY <1>10 DEF RunScript, Reached
<1>11. ASSUME NEW i \in Slot, RejectInjection(i)
       PROVE  Reached'
  BY <1>11 DEF RejectInjection
<1>12. ASSUME NEW k \in Key, CompleteAnalysis(k) \/ FailAnalysis(k)
       PROVE  Reached'
  BY <1>12 DEF CompleteAnalysis, FailAnalysis, background, Reached, Loading, WantsPage
<1>13. CASE LeavePage
  <2>1. /\ \A i \in Slot : ~injection[i].timer
        /\ tabUpdates' > 0 /\ UNCHANGED background
    BY <1>1, <1>13 DEF LeavePage
  <2>2. QED BY <2>1 DEF background, Reached
<1>14. CASE ReceiveUpdate \/ ReceiveOtherStores
  BY <1>14 DEF ReceiveUpdate, ReceiveOtherStores, background, Reached, Loading, WantsPage
<1>15. CASE ChangeUrl
  <2>1. tabUpdates' > 0 /\ UNCHANGED <<background, page>>
    BY <1>1, <1>15 DEF ChangeUrl
  <2>2. QED BY <2>1 DEF background, page, Reached, Loading
<1>16. CASE UNCHANGED vars
  BY <1>16 DEF vars, background, page, Reached, Loading, WantsPage
<1>17. QED
  BY <1>4, <1>5, <1>6, <1>7, <1>8, <1>9, <1>10, <1>11, <1>12, <1>13, <1>14, <1>15, <1>16
     DEF LifecycleNext, Environment

\* A scan is due when its injection is over.  A page whose analyzers know of a due
\* scan has one running, or has told that one ended, or will hear that the scan they
\* know of is not due any more; after that the next due scan is news to them and
\* they start it.
Due(s) == s.scanning # Null /\ ~s.injectingRequested

Running == \E k \in Key : running[k] > 0
Ended == \E i \in DOMAIN toBackground : toBackground[i] = "scanCompleted"
News(states) == \E j \in DOMAIN states : ~Due(states[j])

Answered ==
  script = "ready" /\ proxy # Null /\ Due(proxy) => Running \/ Ended \/ News(toScript)

LEMMA NewsOfConcat ==
  ASSUME NEW a \in Seq(GoodState), NEW b \in Seq(GoodState), News(a) \/ News(b)
  PROVE  News(a \o b)
<1>1. /\ Len(a) \in Nat /\ Len(b) \in Nat
      /\ DOMAIN a = 1..Len(a) /\ DOMAIN b = 1..Len(b) /\ DOMAIN (a \o b) = 1..(Len(a) + Len(b))
      /\ \A i \in 1..(Len(a) + Len(b)) :
           (a \o b)[i] = IF i <= Len(a) THEN a[i] ELSE b[i - Len(a)]
  BY ConcatProperties, LenProperties
<1>2. CASE News(a)
  <2>1. PICK j \in DOMAIN a : ~Due(a[j])
    BY <1>2 DEF News
  <2>2. j \in DOMAIN (a \o b) /\ (a \o b)[j] = a[j]
    BY <1>1
  <2>3. QED BY <2>1, <2>2 DEF News
<1>3. CASE News(b)
  <2>1. PICK j \in DOMAIN b : ~Due(b[j])
    BY <1>3 DEF News
  <2>2. Len(a) + j \in DOMAIN (a \o b) /\ (a \o b)[Len(a) + j] = b[j]
    BY <1>1
  <2>3. QED BY <2>1, <2>2 DEF News
<1>4. QED BY <1>2, <1>3

\* What the background page does leaves the page alone and only adds to its news.
LEMMA TakeAnswers ==
  ASSUME LInv, Answered, NEW o, GoodOutcome(vis, o), NEW inj, Take(o, inj),
         UNCHANGED page,
         toBackground' = toBackground \/ News(o.emitted)
  PROVE  Answered'
<1>1. /\ toScript \in Seq(GoodState) /\ o.emitted \in Seq(GoodState)
      /\ toScript' = toScript \o o.emitted
  BY DEF LInv, Shape, GoodOutcome, Take, Broadcast
<1>2. /\ News(toScript) => News(toScript')
      /\ News(o.emitted) => News(toScript')
  BY <1>1, NewsOfConcat
<1>3. script' = script /\ proxy' = proxy /\ running' = running
  BY DEF page
<1>4. CASE News(o.emitted)
  BY <1>2, <1>4 DEF Answered
<1>5. CASE toBackground' = toBackground
  BY <1>2, <1>3, <1>5 DEF Answered, Running, Ended, Due
<1>6. QED BY <1>4, <1>5

\* The analyzers take a state in: if it has a scan due that the state before it had
\* not, they start it.
LEMMA HandleUpdateAnswers ==
  ASSUME NEW curr \in GoodState, running \in [Key -> Nat], HandleUpdate(curr), Due(curr)
  PROVE  \/ Running'
         \/ prevState # Null /\ Due(prevState) /\ running' = running
<1>1. CASE StartsScan(prevState, curr)
  <2>1. curr.scanning \in Key
    BY <1>1 DEF StartsScan, GoodState, State
  <2>2. running' = [running EXCEPT ![curr.scanning] = running[curr.scanning] + 1]
    BY <1>1 DEF HandleUpdate
  <2>3. running'[curr.scanning] > 0
    BY <2>1, <2>2
  <2>4. QED BY <2>1, <2>3 DEF Running
<1>2. CASE ~StartsScan(prevState, curr)
  BY <1>2 DEF HandleUpdate, StartsScan, Due
<1>3. QED BY <1>1, <1>2

LEMMA ReceiveUpdateAnswers ==
  ASSUME LInv, Answered, ReceiveUpdate
  PROVE  Answered'
<1> DEFINE curr == Head(toScript)
<1>1. /\ toScript # <<>> /\ toScript' = Tail(toScript)
      /\ UNCHANGED <<script, toBackground>>
  BY DEF ReceiveUpdate
<1>2. /\ curr \in GoodState /\ toScript \in Seq(GoodState) /\ toScript' \in Seq(GoodState)
      /\ curr = toScript[1]
      /\ Len(toScript) \in Nat /\ DOMAIN toScript = 1..Len(toScript)
      /\ Len(toScript') = Len(toScript) - 1 /\ DOMAIN toScript' = 1..Len(toScript')
      /\ \A i \in 1..Len(toScript') : toScript'[i] = toScript[i + 1]
  BY <1>1, HeadTailProperties, LenProperties DEF LInv, Shape
<1>3. News(toScript) /\ Due(curr) => News(toScript')
  <2>1. SUFFICES ASSUME News(toScript), Due(curr)
                 PROVE  News(toScript')
    OBVIOUS
  <2>2. PICK j \in DOMAIN toScript : ~Due(toScript[j])
    BY <2>1 DEF News
  <2>3. j # 1
    BY <1>2, <2>1, <2>2
  <2>4. j - 1 \in DOMAIN toScript' /\ toScript'[j - 1] = toScript[j]
    BY <1>2, <2>3
  <2>5. QED BY <2>2, <2>4 DEF News
<1>4. ASSUME script = "ready", Due(curr)
      PROVE  Running' \/ Ended' \/ News(toScript')
  <2>1. CASE curr = proxy
    <3>1. running' = running /\ proxy # Null
      BY <1>2, <2>1, LifecycleAssumption DEF ReceiveUpdate, GoodState
    <3>2. Running \/ Ended \/ News(toScript)
      BY <1>4, <2>1, <3>1 DEF Answered
    <3>3. QED BY <1>1, <1>3, <1>4, <3>1, <3>2 DEF Running, Ended
  <2>2. CASE curr # proxy
    <3>1. HandleUpdate(curr) /\ prevState = proxy /\ running \in [Key -> Nat]
      BY <1>4, <2>2 DEF ReceiveUpdate, LInv, Shape, Acted
    <3> HIDE DEF curr
    <3>2. Running' \/ (proxy # Null /\ Due(proxy) /\ running' = running)
      BY <1>2, <1>4, <3>1, HandleUpdateAnswers
    <3>3. proxy # Null /\ Due(proxy) => Running \/ Ended \/ News(toScript)
      BY <1>4 DEF Answered
    <3>4. QED BY <1>1, <1>3, <1>4, <3>2, <3>3 DEF Running, Ended
  <2>3. QED BY <2>1, <2>2
<1>5. script = "ready" => proxy' = curr
  BY DEF ReceiveUpdate
<1> HIDE DEF curr
<1>6. script' = script
  BY <1>1
<1>7. QED BY <1>4, <1>5, <1>6 DEF Answered, Due

\* A scan that ends tells so, be it on its own or with its batch.
LEMMA CompletionIsSent ==
  ASSUME LInv, NEW k \in Key, CompleteAnalysis(k)
  PROVE  Ended'
<1> DEFINE n == IF k \in Batched THEN Cardinality(Batched) ELSE 1
           messages == [i \in 1..n |-> "scanCompleted"]
<1>1. n \in Nat /\ n # 0
  BY LifecycleAssumption, FS_CardinalityType, FS_EmptySet
<1>2. toBackground' = toBackground \o messages
  BY DEF CompleteAnalysis, Send
<1> HIDE DEF n
<1>3. /\ messages \in Seq({"getState", "scanCompleted"})
      /\ Len(messages) = n /\ messages[1] = "scanCompleted"
  BY <1>1
<1> HIDE DEF messages
<1>4. toBackground \in Seq({"getState", "scanCompleted"})
  BY DEF LInv, Shape
<1>5. /\ Len(toBackground) \in Nat
      /\ DOMAIN toBackground' = 1..(Len(toBackground) + n)
      /\ \A i \in 1..(Len(toBackground) + n) :
           toBackground'[i] = IF i <= Len(toBackground)
                              THEN toBackground[i] ELSE messages[i - Len(toBackground)]
  BY <1>2, <1>3, <1>4, ConcatProperties, LenProperties
<1>6. /\ Len(toBackground) + 1 \in DOMAIN toBackground'
      /\ toBackground'[Len(toBackground) + 1] = messages[1]
  BY <1>1, <1>5
<1>7. QED BY <1>3, <1>6 DEF Ended

LEMMA AnsweredStep ==
  ASSUME "scanFails" \notin Event, LInv, Answered, [LifecycleNext]_vars
  PROVE  Answered'
<1>1. /\ Inv(vis) /\ vis \in State /\ toBackground \in Seq({"getState", "scanCompleted"})
  BY DEF LInv, Shape, Inv
<1>2. /\ GoodOutcome(vis, OnInjectionStarted(vis))
      /\ GoodOutcome(vis, OnInjectionCompleted(vis))
      /\ GoodOutcome(vis, OnExistingTabUpdated(vis))
      /\ GoodOutcome(vis, OnGetCurrentState(vis))
      /\ GoodOutcome(vis, OnScanCompleted(vis))
  BY <1>1, FieldHandlersGood
<1>3. CASE ReceiveViewMessage
  <2>1. PICK o \in ViewOutcomes : Take(o, injection)
    BY <1>3 DEF ReceiveViewMessage
  <2>2. GoodOutcome(vis, o) /\ UNCHANGED <<page, toBackground>>
    BY <1>1, <1>3, ViewGood DEF ReceiveViewMessage
  <2>3. QED BY <2>1, <2>2, TakeAnswers
<1>4. ASSUME NEW i \in Slot, FireTimer(i) \/ ResolveInjection(i)
      PROVE  Answered'
  BY <1>2, <1>4, TakeAnswers DEF FireTimer, ResolveInjection
<1>5. CASE UpdateTargetTab
  BY <1>2, <1>5, TakeAnswers DEF UpdateTargetTab
<1>6. CASE ReceiveScriptMessage
  <2>1. toBackground # <<>> /\ toBackground' = Tail(toBackground) /\ UNCHANGED page
    BY <1>6 DEF ReceiveScriptMessage
  <2>2. CASE Head(toBackground) = "getState"
    <3>1. Take(OnGetCurrentState(vis), injection)
      BY <1>6, <2>2 DEF ReceiveScriptMessage
    <3>2. /\ toBackground[1] = "getState"
          /\ DOMAIN toBackground = 1..Len(toBackground) /\ Len(toBackground) \in Nat
          /\ DOMAIN toBackground' = 1..(Len(toBackground) - 1)
          /\ \A i \in 1..(Len(toBackground) - 1) : toBackground'[i] = toBackground[i + 1]
      BY <1>1, <2>1, <2>2, HeadTailProperties, LenProperties
    <3>3. Ended => Ended'
      <4>1. SUFFICES ASSUME Ended
                     PROVE  Ended'
        OBVIOUS
      <4>2. PICK i \in DOMAIN toBackground : toBackground[i] = "scanCompleted"
        BY <4>1 DEF Ended
      <4>3. i - 1 \in DOMAIN toBackground' /\ toBackground'[i - 1] = "scanCompleted"
        BY <3>2, <4>2
      <4>4. QED BY <4>3 DEF Ended
    <3>4. News(toScript) => News(toScript')
      BY <1>2, <3>1, NewsOfConcat DEF LInv, Shape, GoodOutcome, Take, Broadcast
    <3>5. QED BY <2>1, <3>3, <3>4 DEF page, Answered, Running, Due
  <2>3. CASE Head(toBackground) # "getState"
    <3>1. Take(OnScanCompleted(vis), injection)
      BY <1>6, <2>3 DEF ReceiveScriptMessage
    <3>2. News(OnScanCompleted(vis).emitted)
      <4>1. OnScanCompleted(vis).emitted = <<[vis EXCEPT !.scanning = Null]>>
        BY DEF OnScanCompleted, Emit
      <4>2. ~Due([vis EXCEPT !.scanning = Null])
        BY <1>1 DEF Due, State
      <4>3. QED BY <4>1, <4>2 DEF News
    <3>3. QED BY <1>2, <2>1, <3>1, <3>2, TakeAnswers
  <2>4. QED BY <2>2, <2>3
<1>7. ASSUME NEW i \in Slot, RunScript(i)
      PROVE  Answered'
  <2>1. CASE script = "absent"
    BY <1>7, <2>1 DEF RunScript, Answered
  <2>2. CASE script # "absent"
    BY <1>7, <2>2 DEF RunScript, Answered, Running, Ended, News, Due
  <2>3. QED BY <2>1, <2>2
<1>8. ASSUME NEW i \in Slot, RejectInjection(i)
      PROVE  Answered'
  BY <1>8 DEF RejectInjection, page, channels, Answered, Running, Ended, News, Due
<1>9. ASSUME NEW mode \in InspectMode \cup {Off}, ChangeInspectMode(mode)
      PROVE  Answered'
  BY <1>9 DEF ChangeInspectMode, page, channels, Answered, Running, Ended, News, Due
<1>10. CASE ReceiveUpdate
  BY <1>10, ReceiveUpdateAnswers
<1>11. CASE ReceiveOtherStores
  <2>1. /\ script = "waiting" /\ prevState = Null /\ proxy' = proxy
        /\ proxy # Null => proxy \in GoodState
        /\ running \in [Key -> Nat]
    BY <1>11 DEF ReceiveOtherStores, LInv, Shape, Acted
  <2>2. proxy # Null /\ Due(proxy) => Running'
    BY <1>11, <2>1, HandleUpdateAnswers DEF ReceiveOtherStores
  <2>3. QED BY <2>1, <2>2 DEF Answered, Due
<1>12. ASSUME NEW k \in Key, CompleteAnalysis(k)
       PROVE  Answered'
  BY <1>12, CompletionIsSent DEF Answered
<1>13. ASSUME NEW k \in Key, FailAnalysis(k)
       PROVE  Answered'
  BY <1>13 DEF FailAnalysis
<1>14. CASE LeavePage
  BY <1>14 DEF LeavePage, Answered
<1>15. CASE ChangeUrl
  BY <1>15 DEF ChangeUrl, page, channels, Answered, Running, Ended, News, Due
<1>16. CASE UNCHANGED vars
  BY <1>16 DEF vars, page, channels, Answered, Running, Ended, News, Due
<1>17. QED
  BY <1>3, <1>4, <1>5, <1>6, <1>7, <1>8, <1>9, <1>10, <1>11, <1>12, <1>13, <1>14, <1>15, <1>16
     DEF LifecycleNext, Environment

\* On a page where besides every scan ends with a completion, a store that is scanning
\* always has something under way that will end the scan, through any number of page
\* changes, reloads of the content script and injections: it is never stuck with its
\* toggles ignored.
THEOREM LifecycleScanIsServed ==
  ASSUME Event \cap {"injectionFails", "timerLags", "scanFails"} = {}
  PROVE  LifecycleSpec => []ScanIsServed
<1>1. LifecycleInit => Served /\ Reached /\ Answered
  BY DEF LifecycleInit, StoreInit, DefaultState, NoInjection, Served, Reached, WantsPage, Answered
<1>2. LInv /\ Served /\ Reached /\ Answered /\ [LifecycleNext]_vars
        => Served' /\ Reached' /\ Answered'
  BY ServedStep, ReachedStep, AnsweredStep
<1>3. LInv /\ Served /\ Reached /\ Answered => ScanIsServed
  <2>1. SUFFICES ASSUME LInv, Served, Reached, Answered, vis.scanning # Null,
                        \A i \in Slot : ~InFlight(i),
                        toScript = <<>>, toBackground = <<>>, script # "waiting",
                        \A k \in Key : ~(running[k] > 0), ~(tabUpdates > 0)
                 PROVE  FALSE
    BY DEF ScanIsServed
  <2>2. \A i \in Slot : ~Busy(injection, i) /\ ~Loading(injection, i)
    BY <2>1 DEF InFlight, Busy, Loading
  <2>3. script = "ready"
    BY <2>1, <2>2 DEF Reached, WantsPage, LInv, Shape
  <2>4. DOMAIN toScript = {} /\ DOMAIN toBackground = {}
    BY <2>1
  <2>5. proxy = vis
    BY <2>1, <2>3, <2>4 DEF LInv, Informed, StateRequested
  <2>6. proxy # Null
    BY <2>1, <2>5, LifecycleAssumption DEF LInv, Shape, Inv
  <2>7. Due(proxy)
    BY <2>1, <2>2, <2>5 DEF Served, Due
  <2>8. QED BY <2>1, <2>3, <2>4, <2>6, <2>7 DEF Answered, Running, Ended, News
<1>4. QED BY <1>1, <1>2, <1>3, LifecycleInv, PTL DEF LifecycleSpec

=============================================================================
