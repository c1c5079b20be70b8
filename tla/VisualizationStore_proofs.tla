----------------------- MODULE VisualizationStore_proofs -----------------------
(***************************************************************************)
(* Proofs about the visualization store: its type invariant, the relation  *)
(* between what is scanned and what is on, and that it implements the scan *)
(* session.                                                                *)
(***************************************************************************)
EXTENDS VisualizationStore, SequenceTheorems, TLAPS

\* The inductive invariant, of a state of the store rather than of the variable,
\* so that it can also be said of the states a handler passes through.  That one
\* requirement is on at most rests on the flags of the assessments being right,
\* because turning an assessment off goes by its flag.
OneRequirementOn(s) ==
  \A r1, r2 \in Requirement : s.step[r1] = "on" /\ s.step[r2] = "on" => r1 = r2

FlagsRight(s) ==
  \A a \in Assessment :
    s.assessment[a] <=> \E r \in Requirement : AssessmentOf[r] = a /\ s.step[r] = "on"

Inv(s) ==
  /\ s \in State
  /\ s.scanning # Null => IsOn(s, s.scanning)
  /\ ~(s.adhoc[Issues] /\ s.adhoc[NeedsReview])
  /\ OneRequirementOn(s)
  /\ FlagsRight(s)
  /\ s.injectingStarted => s.injectingRequested

-----------------------------------------------------------------------------
(* The steps the handlers are made of.                                     *)

LEMMA DefaultInv == Inv(DefaultState)
  BY StoreAssumption
     DEF Inv, OneRequirementOn, FlagsRight, DefaultState, State, StepStatus, IsOn, Key

\* What turning tests off does to a state that no scan holds.
LEMMA TurnOffFacts ==
  ASSUME NEW s \in State, s.scanning = Null, NEW tests
  PROVE  /\ TurnOff(s, tests) \in State
         /\ TurnOff(s, tests).scanning = Null
         /\ TurnOff(s, tests).pivot = s.pivot
         /\ TurnOff(s, tests).injectingStarted = s.injectingStarted
         /\ TurnOff(s, tests).injectingRequested = s.injectingRequested
         /\ \A t \in AdhocTest :
              TurnOff(s, tests).adhoc[t] <=> s.adhoc[t] /\ t \notin tests
         /\ \A a \in Assessment :
              TurnOff(s, tests).assessment[a] <=> s.assessment[a] /\ a \notin tests
         /\ \A r \in Requirement :
              TurnOff(s, tests).step[r] = "on"
                <=> /\ s.step[r] = "on"
                    /\ ~(AssessmentOf[r] \in tests /\ s.assessment[AssessmentOf[r]])
<1> DEFINE u == TurnOff(s, tests)
<1>1. /\ u \in State
      /\ u.scanning = Null
      /\ u.pivot = s.pivot
      /\ u.injectingStarted = s.injectingStarted
      /\ u.injectingRequested = s.injectingRequested
  BY DEF State, TurnOff, StepStatus
<1>2. \A t \in AdhocTest : u.adhoc[t] = (s.adhoc[t] /\ t \notin tests)
  BY DEF State, TurnOff
<1>3. \A a \in Assessment : u.assessment[a] = (s.assessment[a] /\ a \notin tests)
  BY DEF State, TurnOff
<1>4. \A r \in Requirement :
        u.step[r] = "on"
          <=> s.step[r] = "on" /\ ~(AssessmentOf[r] \in tests /\ s.assessment[AssessmentOf[r]])
  BY DEF State, TurnOff
<1>5. QED BY <1>1, <1>2, <1>3, <1>4

\* Turning tests off keeps the invariant, whichever tests they are.
LEMMA TurnOffInv ==
  ASSUME NEW s, Inv(s), NEW tests
  PROVE  Inv(TurnOff(s, tests))
<1>1. CASE s.scanning # Null
  BY <1>1 DEF TurnOff
<1>2. CASE s.scanning = Null
  <2> DEFINE u == TurnOff(s, tests)
  <2>0. s \in State
    BY DEF Inv
  <2>1. /\ u \in State
        /\ u.scanning = Null
        /\ u.injectingStarted = s.injectingStarted
        /\ u.injectingRequested = s.injectingRequested
        /\ \A t \in AdhocTest : u.adhoc[t] <=> s.adhoc[t] /\ t \notin tests
        /\ \A a \in Assessment : u.assessment[a] <=> s.assessment[a] /\ a \notin tests
        /\ \A r \in Requirement :
             u.step[r] = "on"
               <=> s.step[r] = "on" /\ ~(AssessmentOf[r] \in tests /\ s.assessment[AssessmentOf[r]])
    BY <1>2, <2>0, TurnOffFacts
  <2> HIDE DEF u
  <2>2. ~(u.adhoc[Issues] /\ u.adhoc[NeedsReview])
    BY <2>1, StoreAssumption DEF Inv
  <2>3. OneRequirementOn(u)
    BY <2>1 DEF Inv, OneRequirementOn
  <2>4. FlagsRight(u)
    BY <2>1, StoreAssumption DEF Inv, FlagsRight
  <2>5. Inv(u)
    BY <2>1, <2>2, <2>3, <2>4 DEF Inv
  <2>6. QED BY <2>5 DEF u
<1>3. QED BY <1>1, <1>2

\* The invariant speaks of the tests, of the scan and of the injection only.
LEMMA SameTestsInv ==
  ASSUME NEW s, Inv(s), NEW u \in State,
         u.adhoc = s.adhoc, u.assessment = s.assessment, u.step = s.step,
         u.scanning \in {s.scanning, Null},
         u.injectingStarted => u.injectingRequested
  PROVE  Inv(u)
BY DEF Inv, IsOn, OneRequirementOn, FlagsRight

\* With every assessment turned off no requirement is on, because the flags are
\* right.
LEMMA AssessmentsOff ==
  ASSUME NEW s, Inv(s), s.scanning = Null
  PROVE  /\ \A a \in Assessment : ~TurnOff(s, Assessment).assessment[a]
         /\ \A r \in Requirement : TurnOff(s, Assessment).step[r] # "on"
<1>1. s \in State
  BY DEF Inv
<1>2. \A r \in Requirement : s.step[r] = "on" => s.assessment[AssessmentOf[r]]
  BY StoreAssumption DEF Inv, FlagsRight
<1>3. QED
  BY <1>1, <1>2, TurnOffFacts, StoreAssumption

\* Enabling a test that no scan prevents, with or without a scan of its own.
LEMMA SwitchOnInv ==
  ASSUME NEW s, Inv(s), s.scanning = Null, NEW k \in Key, NEW c \in {Null, k},
         \A a \in Assessment : ~s.assessment[a],
         \A r \in Requirement : s.step[r] # "on"
  PROVE  Inv(SwitchOn([s EXCEPT !.scanning = c, !.injectingRequested = TRUE], k))
<1> DEFINE m == [s EXCEPT !.scanning = c, !.injectingRequested = TRUE]
           u == SwitchOn(m, k)
<1>1. s \in State
  BY DEF Inv
<1>2. /\ m \in State
      /\ m.scanning = c /\ m.injectingRequested
      /\ m.adhoc = s.adhoc /\ m.assessment = s.assessment /\ m.step = s.step
  BY <1>1 DEF State
<1> HIDE DEF m
<1>3. CASE k \in AdhocTest
  <2>1. /\ u \in State
        /\ u.scanning = c /\ u.injectingRequested
        /\ u.assessment = s.assessment /\ u.step = s.step
        /\ \A t \in AdhocTest :
             u.adhoc[t] <=> t = k \/ (s.adhoc[t] /\ ~({t, k} = {Issues, NeedsReview}))
    BY <1>2, <1>3 DEF State, SwitchOn
  <2> HIDE DEF u
  <2>2. ~(u.adhoc[Issues] /\ u.adhoc[NeedsReview])
    BY <1>3, <2>1, StoreAssumption DEF Inv
  <2>3. c # Null => IsOn(u, c)
    BY <1>3, <2>1 DEF IsOn
  <2>4. Inv(u)
    BY <2>1, <2>2, <2>3 DEF Inv, OneRequirementOn, FlagsRight
  <2>5. QED BY <2>4 DEF u, m
<1>4. CASE k \in Requirement \ AdhocTest
  <2>1. /\ u \in State
        /\ u.scanning = c /\ u.injectingRequested
        /\ u.adhoc = s.adhoc
        /\ \A a \in Assessment : u.assessment[a] <=> a = AssessmentOf[k] \/ s.assessment[a]
        /\ \A r \in Requirement : u.step[r] = IF r = k THEN "on" ELSE s.step[r]
    BY <1>2, <1>4, StoreAssumption DEF State, SwitchOn, StepStatus
  <2> HIDE DEF u
  <2>2. c # Null => IsOn(u, c)
    BY <1>4, <2>1 DEF IsOn
  <2>3. OneRequirementOn(u)
    BY <2>1 DEF OneRequirementOn
  <2>4. FlagsRight(u)
    BY <1>4, <2>1 DEF FlagsRight
  <2>5. Inv(u)
    BY <2>1, <2>2, <2>3, <2>4 DEF Inv
  <2>6. QED BY <2>5 DEF u, m
<1>5. QED BY <1>3, <1>4 DEF Key, m

-----------------------------------------------------------------------------
(* What every handler does: it keeps the invariant, emits the state it      *)
(* leaves behind, and is silent only when it has changed nothing.           *)

GoodState == {s \in State : Inv(s)}

GoodOutcome(s, o) ==
  /\ Inv(o.state)
  /\ o.emitted \in Seq(GoodState)
  /\ o.emitted = <<>> => o.state = s
  /\ o.emitted # <<>> => o.emitted[Len(o.emitted)] = o.state

LEMMA EmitGood ==
  ASSUME NEW s, NEW u, Inv(u)
  PROVE  GoodOutcome(s, Emit(u))
BY DEF GoodOutcome, GoodState, Emit, Inv

LEMMA SilentGood ==
  ASSUME NEW s, Inv(s)
  PROVE  GoodOutcome(s, Silent(s))
BY DEF GoodOutcome, Silent

LEMMA LastOfConcat ==
  ASSUME NEW S, NEW x \in Seq(S), NEW y \in Seq(S), y # <<>>
  PROVE  /\ x \o y \in Seq(S)
         /\ x \o y # <<>>
         /\ (x \o y)[Len(x \o y)] = y[Len(y)]
<1>1. Len(y) \in Nat \ {0} /\ Len(x) \in Nat
  BY EmptySeq, LenProperties
<1>2. Len(x \o y) = Len(x) + Len(y)
  BY ConcatProperties
<1>3. (x \o y)[Len(x) + Len(y)] = y[Len(x) + Len(y) - Len(x)]
  BY <1>1, <1>2, ConcatProperties
<1>4. x \o y \in Seq(S) /\ Len(x \o y) # 0
  BY <1>1, <1>2, ConcatProperties
<1>5. Len(x) + Len(y) - Len(x) = Len(y)
  BY <1>1
<1>6. x \o y # <<>>
  BY <1>4, EmptySeq
<1>7. QED BY <1>2, <1>3, <1>4, <1>5, <1>6

LEMMA ThenGood ==
  ASSUME NEW s, NEW a, NEW b, GoodOutcome(s, a), GoodOutcome(a.state, b)
  PROVE  GoodOutcome(s, Then(a, b))
<1> DEFINE both == a.emitted \o b.emitted
<1>1. /\ a.emitted \in Seq(GoodState) /\ b.emitted \in Seq(GoodState)
      /\ Then(a, b).state = b.state /\ Then(a, b).emitted = both
  BY DEF GoodOutcome, Then
<1>2. CASE b.emitted = <<>>
  <2>1. both = a.emitted /\ b.state = a.state
    BY <1>1, <1>2 DEF GoodOutcome
  <2>2. QED BY <1>1, <2>1 DEF GoodOutcome
<1>3. CASE b.emitted # <<>>
  <2>1. both \in Seq(GoodState) /\ both # <<>> /\ both[Len(both)] = b.emitted[Len(b.emitted)]
    BY <1>1, <1>3, LastOfConcat
  <2> HIDE DEF both
  <2>2. QED BY <1>1, <1>3, <2>1 DEF GoodOutcome
<1>4. QED BY <1>2, <1>3

-----------------------------------------------------------------------------
(* Every handler, one by one.                                              *)

LEMMA DisableGood ==
  ASSUME NEW s, Inv(s), NEW test
  PROVE  GoodOutcome(s, OnDisableVisualization(s, test))
BY TurnOffInv, EmitGood, SilentGood DEF OnDisableVisualization

LEMMA DisableAssessmentsGood ==
  ASSUME NEW s, Inv(s)
  PROVE  GoodOutcome(s, OnDisableAssessmentVisualizations(s))
BY TurnOffInv, EmitGood DEF OnDisableAssessmentVisualizations

LEMMA EnableGood ==
  ASSUME NEW s, Inv(s), NEW k \in Key, NEW skipScanning \in BOOLEAN
  PROVE  GoodOutcome(s, EnableTest(s, k, skipScanning))
<1>1. CASE s.scanning # Null
  BY <1>1, SilentGood DEF EnableTest
<1>2. CASE s.scanning = Null
  <2> DEFINE u == TurnOff(s, Assessment)
             c == IF skipScanning THEN Null ELSE k
             w == SwitchOn([u EXCEPT !.scanning = c, !.injectingRequested = TRUE], k)
  <2>1. Inv(u)
    BY TurnOffInv
  <2>2. u.scanning = Null
    BY <1>2, TurnOffFacts DEF Inv
  <2>3. /\ \A a \in Assessment : ~u.assessment[a]
        /\ \A r \in Requirement : u.step[r] # "on"
    BY <1>2, AssessmentsOff
  <2> HIDE DEF u
  <2>4. c \in {Null, k}
    OBVIOUS
  <2> HIDE DEF c
  <2>5. Inv(w)
    BY <2>1, <2>2, <2>3, <2>4, SwitchOnInv
  <2>6. EnableTest(s, k, skipScanning) = Emit(w)
    BY <1>2 DEF EnableTest, u, c
  <2>7. QED BY <2>5, <2>6, EmitGood
<1>3. QED BY <1>1, <1>2

LEMMA PivotGood ==
  ASSUME NEW s, Inv(s), NEW pivot \in Pivot
  PROVE  GoodOutcome(s, OnUpdateSelectedPivot(s, pivot))
<1>1. Inv([s EXCEPT !.pivot = pivot])
  BY DEF Inv, State, IsOn, OneRequirementOn, FlagsRight
<1>2. QED
  BY <1>1, TurnOffInv, EmitGood, SilentGood DEF OnUpdateSelectedPivot

LEMMA PivotChildGood ==
  ASSUME NEW s, Inv(s), NEW view \in View, NEW pivot \in PivotChoice
  PROVE  GoodOutcome(s, OnUpdateSelectedPivotChild(s, view, pivot))
<1> DEFINE newView == IF view # Null /\ pivot = FastPass THEN view ELSE s.fastPassView
           newPivot == IF pivot # Null THEN pivot ELSE s.pivot
           u == [s EXCEPT !.fastPassView = newView, !.pivot = newPivot]
<1>1. newView \in DetailsView /\ newPivot \in Pivot
  BY DEF View, PivotChoice, Inv, State
<1>2. Inv(u)
  <2> HIDE DEF newView, newPivot
  <2>1. /\ u \in State
        /\ u.adhoc = s.adhoc /\ u.assessment = s.assessment /\ u.step = s.step
        /\ u.scanning = s.scanning
        /\ u.injectingStarted = s.injectingStarted
        /\ u.injectingRequested = s.injectingRequested
    BY <1>1 DEF Inv, State
  <2> HIDE DEF u
  <2>2. QED BY <2>1, SameTestsInv DEF Inv
<1>3. OnUpdateSelectedPivotChild(s, view, pivot)
        = IF newView # s.fastPassView \/ newPivot # s.pivot
          THEN Emit(TurnOff(u, Test)) ELSE Silent(s)
  BY DEF OnUpdateSelectedPivotChild
<1> HIDE DEF u, newView, newPivot
<1>4. QED BY <1>2, <1>3, TurnOffInv, EmitGood, SilentGood

\* The handlers that set a few fields.
LEMMA FieldHandlersGood ==
  ASSUME NEW s, Inv(s)
  PROVE  /\ GoodOutcome(s, OnScanCompleted(s))
         /\ GoodOutcome(s, OnScrollRequested(s))
         /\ \A target \in Target : GoodOutcome(s, OnUpdateFocusedInstance(s, target))
         /\ GoodOutcome(s, OnInjectionStarted(s))
         /\ GoodOutcome(s, OnInjectionCompleted(s))
         /\ GoodOutcome(s, OnExistingTabUpdated(s))
         /\ GoodOutcome(s, OnGetCurrentState(s))
<1>1. Inv([s EXCEPT !.scanning = Null])
  BY DEF Inv, State, IsOn, OneRequirementOn, FlagsRight
<1>2. \A target \in Target \cup {Null} : Inv([s EXCEPT !.focusedTarget = target])
  BY DEF Inv, State, IsOn, OneRequirementOn, FlagsRight
<1>3. ASSUME NEW flag \in BOOLEAN
      PROVE  Inv([s EXCEPT !.injectingRequested = flag, !.injectingStarted = flag])
  <2> DEFINE u == [s EXCEPT !.injectingRequested = flag, !.injectingStarted = flag]
  <2>1. /\ u \in State
        /\ u.adhoc = s.adhoc /\ u.assessment = s.assessment /\ u.step = s.step
        /\ u.scanning = s.scanning
        /\ u.injectingStarted = flag
        /\ u.injectingRequested = flag
    BY DEF Inv, State
  <2> HIDE DEF u
  <2>2. Inv(u)
    BY <2>1, SameTestsInv
  <2>3. QED BY <2>2 DEF u
<1>4. Inv([DefaultState EXCEPT !.pivot = s.pivot, !.fastPassView = s.fastPassView])
  <2>1. s.pivot \in Pivot /\ s.fastPassView \in DetailsView
    BY DEF Inv, State
  <2>2. QED
    BY <2>1, DefaultInv
       DEF Inv, State, IsOn, OneRequirementOn, FlagsRight, DefaultState
<1>5. QED
  BY <1>1, <1>2, <1>3, <1>4, EmitGood, SilentGood
     DEF OnScanCompleted, OnScrollRequested, OnUpdateFocusedInstance, OnInjectionStarted,
         OnInjectionCompleted, OnExistingTabUpdated, OnGetCurrentState

LEMMA ToggleGood ==
  ASSUME NEW s, Inv(s), NEW o \in ToggleOutcomes(s)
  PROVE  GoodOutcome(s, o)
<1>1. \A t \in AdhocTest, on \in BOOLEAN : GoodOutcome(s, OnVisualizationToggle(s, t, on))
  BY DisableGood, EnableGood DEF OnVisualizationToggle, OnEnableVisualization, Key
<1>2. ASSUME NEW t \in AdhocTest
      PROVE  GoodOutcome(s, OnRescanVisualization(s, t))
  <2> DEFINE d == OnDisableVisualization(s, t)
             e == EnableTest(d.state, t, FALSE)
  <2>1. GoodOutcome(s, d)
    BY DisableGood
  <2>2. Inv(d.state)
    BY <2>1 DEF GoodOutcome
  <2>3. GoodOutcome(d.state, e)
    BY <2>2, EnableGood DEF Key
  <2>4. OnRescanVisualization(s, t) = Then(d, e)
    BY DEF OnRescanVisualization, OnEnableVisualization
  <2> HIDE DEF d, e
  <2>5. QED BY <2>1, <2>3, <2>4, ThenGood
<1>3. QED BY <1>1, <1>2 DEF ToggleOutcomes

LEMMA AssessmentGood ==
  ASSUME NEW s, Inv(s), NEW o \in AssessmentOutcomes(s)
  PROVE  GoodOutcome(s, o)
BY DisableGood, DisableAssessmentsGood, EnableGood
   DEF AssessmentOutcomes, OnEnableVisualization, OnEnableVisualizationWithoutScan, Key

LEMMA NavigationGood ==
  ASSUME NEW s, Inv(s), NEW o \in NavigationOutcomes(s)
  PROVE  GoodOutcome(s, o)
<1>1. ASSUME NEW view \in View, NEW pivot \in PivotChoice
      PROVE  GoodOutcome(s, OnDetailsViewOpen(s, view, pivot))
  <2> DEFINE toggled == IF view \in AdhocTest \ {TabStops}
                        THEN OnVisualizationToggle(s, view, TRUE)
                        ELSE Silent(s)
             moved == OnUpdateSelectedPivotChild(toggled.state, view, pivot)
  <2>1. GoodOutcome(s, toggled)
    BY EnableGood, SilentGood DEF OnVisualizationToggle, OnEnableVisualization, Key
  <2>2. Inv(toggled.state)
    BY <2>1 DEF GoodOutcome
  <2> HIDE DEF toggled
  <2>3. GoodOutcome(toggled.state, moved)
    BY <2>2, PivotChildGood
  <2>4. OnDetailsViewOpen(s, view, pivot) = Then(toggled, moved)
    BY DEF OnDetailsViewOpen, toggled
  <2> HIDE DEF moved
  <2>5. QED BY <2>1, <2>3, <2>4, ThenGood
<1>2. QED BY <1>1, PivotGood, PivotChildGood DEF NavigationOutcomes

LEMMA FocusGood ==
  ASSUME NEW s, Inv(s), NEW o \in FocusOutcomes(s)
  PROVE  GoodOutcome(s, o)
BY FieldHandlersGood DEF FocusOutcomes

-----------------------------------------------------------------------------
(* What every handler may do to what is on and what is scanned: a step of   *)
(* the scan session; and if it moves to another pivot outside a scan, it    *)
(* leaves nothing on.                                                       *)

OnKeys(s) == {k \in Key : IsOn(s, k)}

SessionStep(s, u) ==
  \/ /\ s.scanning = Null
     /\ \E k \in Key : /\ u.scanning \in {Null, k}
                       /\ OnKeys(u) \subseteq OnKeys(s) \cup {k}
                       /\ u.scanning = k => k \in OnKeys(u)
  \/ /\ OnKeys(u) = OnKeys(s)
     /\ u.scanning \in {s.scanning, Null}
  \/ /\ OnKeys(u) = {}
     /\ u.scanning = Null

PivotStep(s, u) == u.pivot # s.pivot /\ u.scanning = Null => OnKeys(u) = {}

GoodStep(s, u) == SessionStep(s, u) /\ PivotStep(s, u)

\* Turning tests off switches nothing on, and nothing at all during a scan.
LEMMA TurnOffNarrows ==
  ASSUME NEW s \in State, NEW tests
  PROVE  /\ OnKeys(TurnOff(s, tests)) \subseteq OnKeys(s)
         /\ s.scanning # Null => TurnOff(s, tests) = s
         /\ TurnOff(s, tests).scanning = s.scanning
         /\ TurnOff(s, tests).pivot = s.pivot
<1>1. CASE s.scanning # Null
  BY <1>1 DEF TurnOff
<1>2. CASE s.scanning = Null
  <2> DEFINE u == TurnOff(s, tests)
  <2>1. /\ u.scanning = Null /\ u.pivot = s.pivot
        /\ \A t \in AdhocTest : u.adhoc[t] => s.adhoc[t]
        /\ \A r \in Requirement : u.step[r] = "on" => s.step[r] = "on"
    BY <1>2, TurnOffFacts
  <2> HIDE DEF u
  <2>2. OnKeys(u) \subseteq OnKeys(s)
    BY <2>1 DEF OnKeys, IsOn, Key
  <2>3. QED BY <1>2, <2>1, <2>2 DEF u
<1>3. QED BY <1>1, <1>2

\* Turning all tests off outside a scan leaves nothing on.
LEMMA TurnAllOff ==
  ASSUME NEW s, Inv(s), s.scanning = Null
  PROVE  OnKeys(TurnOff(s, Test)) = {}
<1> DEFINE u == TurnOff(s, Test)
<1>1. s \in State /\ \A r \in Requirement : s.step[r] = "on" => s.assessment[AssessmentOf[r]]
  BY StoreAssumption DEF Inv, FlagsRight
<1>2. /\ \A t \in AdhocTest : ~u.adhoc[t]
      /\ \A r \in Requirement : u.step[r] # "on"
  BY <1>1, TurnOffFacts, StoreAssumption DEF Test
<1> HIDE DEF u
<1>3. OnKeys(u) = {}
  BY <1>2 DEF OnKeys, IsOn, Key
<1>4. QED BY <1>3 DEF u

\* Enabling k switches on k and nothing else, and scans k or nothing.
LEMMA EnableSteps ==
  ASSUME NEW s, Inv(s), NEW k \in Key, NEW skipScanning \in BOOLEAN
  PROVE  LET u == EnableTest(s, k, skipScanning).state
         IN  /\ s.scanning # Null => u = s
             /\ s.scanning = Null =>
                  /\ u.scanning = IF skipScanning THEN Null ELSE k
                  /\ OnKeys(u) \subseteq OnKeys(s) \cup {k}
                  /\ k \in OnKeys(u)
             /\ u.pivot = s.pivot
<1>1. CASE s.scanning # Null
  BY <1>1 DEF EnableTest, Silent
<1>2. CASE s.scanning = Null
  <2> DEFINE off == TurnOff(s, Assessment)
             c == IF skipScanning THEN Null ELSE k
             m == [off EXCEPT !.scanning = c, !.injectingRequested = TRUE]
             w == SwitchOn(m, k)
  <2>1. s \in State
    BY DEF Inv
  <2>2. off \in State /\ OnKeys(off) \subseteq OnKeys(s) /\ off.pivot = s.pivot
    BY <1>2, <2>1, TurnOffFacts, TurnOffNarrows
  <2> HIDE DEF off
  <2>3. c \in Key \cup {Null}
    OBVIOUS
  <2> HIDE DEF c
  <2>4. /\ m \in State /\ m.scanning = c /\ m.pivot = off.pivot
        /\ m.adhoc = off.adhoc /\ m.step = off.step
    BY <2>2, <2>3 DEF State
  <2> HIDE DEF m
  <2>5. /\ w.scanning = c /\ w.pivot = m.pivot
        /\ IsOn(w, k)
        /\ \A j \in Key : IsOn(w, j) => j = k \/ IsOn(m, j)
    <3>1. CASE k \in AdhocTest
      BY <2>4, <3>1 DEF State, SwitchOn, IsOn, Key
    <3>2. CASE k \in Requirement \ AdhocTest
      BY <2>4, <3>2, StoreAssumption DEF State, SwitchOn, IsOn, Key
    <3>3. QED BY <3>1, <3>2 DEF Key
  <2>6. EnableTest(s, k, skipScanning).state = w
    BY <1>2 DEF EnableTest, Emit, m, off, c
  <2> HIDE DEF w
  <2>7. OnKeys(w) \subseteq OnKeys(off) \cup {k} /\ k \in OnKeys(w)
    BY <2>4, <2>5 DEF OnKeys, IsOn
  <2>8. QED BY <1>2, <2>2, <2>4, <2>5, <2>6, <2>7 DEF c
<1>3. QED BY <1>1, <1>2

\* Disabling a test switches nothing on, and nothing at all during a scan.
LEMMA DisableSteps ==
  ASSUME NEW s, Inv(s), NEW test
  PROVE  LET u == OnDisableVisualization(s, test).state
         IN  /\ s.scanning # Null => u = s
             /\ u.scanning = s.scanning
             /\ OnKeys(u) \subseteq OnKeys(s)
             /\ u.pivot = s.pivot
BY TurnOffNarrows DEF Inv, OnDisableVisualization, Emit, Silent

LEMMA SameStep ==
  ASSUME NEW s
  PROVE  GoodStep(s, s)
BY DEF GoodStep, SessionStep, PivotStep

\* A step outside a scan that switches at most one key on, and stays on the pivot.
LEMMA AdjustStep ==
  ASSUME NEW s, NEW u, NEW k \in Key, s.scanning = Null, u.pivot = s.pivot,
         u.scanning \in {Null, k}, OnKeys(u) \subseteq OnKeys(s) \cup {k},
         u.scanning = k => k \in OnKeys(u)
  PROVE  GoodStep(s, u)
BY DEF GoodStep, SessionStep, PivotStep

LEMMA EnableStep ==
  ASSUME NEW s, Inv(s), NEW k \in Key, NEW skipScanning \in BOOLEAN
  PROVE  GoodStep(s, EnableTest(s, k, skipScanning).state)
<1>1. CASE s.scanning # Null
  BY <1>1, EnableSteps, SameStep
<1>2. CASE s.scanning = Null
  BY <1>2, EnableSteps, AdjustStep
<1>3. QED BY <1>1, <1>2

LEMMA DisableStep ==
  ASSUME NEW s, Inv(s), NEW test
  PROVE  GoodStep(s, OnDisableVisualization(s, test).state)
<1>1. CASE s.scanning # Null
  BY <1>1, DisableSteps, SameStep
<1>2. CASE s.scanning = Null
  BY <1>2, DisableSteps, AdjustStep, StoreAssumption DEF Key
<1>3. QED BY <1>1, <1>2

\* Moving to another view or pivot, whatever u was made of s to move there.
LEMMA MoveStep ==
  ASSUME NEW s, Inv(s), NEW u, Inv(u),
         OnKeys(u) = OnKeys(s), u.scanning = s.scanning
  PROVE  GoodStep(s, TurnOff(u, Test))
<1>1. u \in State
  BY DEF Inv
<1>2. CASE u.scanning # Null
  BY <1>1, <1>2, TurnOffNarrows DEF GoodStep, SessionStep, PivotStep
<1>3. CASE u.scanning = Null
  BY <1>1, <1>3, TurnAllOff, TurnOffNarrows DEF GoodStep, SessionStep, PivotStep
<1>4. QED BY <1>2, <1>3

LEMMA PivotIsStep ==
  ASSUME NEW s, Inv(s), NEW pivot \in Pivot
  PROVE  GoodStep(s, OnUpdateSelectedPivot(s, pivot).state)
<1> DEFINE u == [s EXCEPT !.pivot = pivot]
<1>1. /\ u \in State /\ u.adhoc = s.adhoc /\ u.assessment = s.assessment /\ u.step = s.step
      /\ u.scanning = s.scanning
      /\ u.injectingStarted = s.injectingStarted
      /\ u.injectingRequested = s.injectingRequested
  BY DEF Inv, State
<1>2. OnUpdateSelectedPivot(s, pivot).state = s \/ OnUpdateSelectedPivot(s, pivot).state = TurnOff(u, Test)
  BY DEF OnUpdateSelectedPivot, Emit, Silent
<1> HIDE DEF u
<1>3. Inv(u) /\ OnKeys(u) = OnKeys(s)
  BY <1>1, SameTestsInv DEF Inv, OnKeys, IsOn
<1>4. QED BY <1>1, <1>2, <1>3, MoveStep, SameStep

LEMMA PivotChildIsStep ==
  ASSUME NEW s, Inv(s), NEW view \in View, NEW pivot \in PivotChoice
  PROVE  GoodStep(s, OnUpdateSelectedPivotChild(s, view, pivot).state)
<1> DEFINE newView == IF view # Null /\ pivot = FastPass THEN view ELSE s.fastPassView
           newPivot == IF pivot # Null THEN pivot ELSE s.pivot
           u == [s EXCEPT !.fastPassView = newView, !.pivot = newPivot]
           moved == OnUpdateSelectedPivotChild(s, view, pivot).state
<1>1. newView \in DetailsView /\ newPivot \in Pivot
  BY DEF View, PivotChoice, Inv, State
<1>2. moved = s \/ moved = TurnOff(u, Test)
  BY DEF OnUpdateSelectedPivotChild, Emit, Silent
<1> HIDE DEF newView, newPivot
<1>3. /\ u \in State /\ u.adhoc = s.adhoc /\ u.assessment = s.assessment /\ u.step = s.step
      /\ u.scanning = s.scanning
      /\ u.injectingStarted = s.injectingStarted
      /\ u.injectingRequested = s.injectingRequested
  BY <1>1 DEF Inv, State
<1> HIDE DEF u
<1>4. Inv(u) /\ OnKeys(u) = OnKeys(s)
  BY <1>3, SameTestsInv DEF Inv, OnKeys, IsOn
<1>5. QED BY <1>2, <1>3, <1>4, MoveStep, SameStep

\* A step that leaves the tests and the pivot alone and at most ends the scan.
LEMMA SameKeysStep ==
  ASSUME NEW s, NEW u, u.adhoc = s.adhoc, u.step = s.step, u.pivot = s.pivot,
         u.scanning \in {s.scanning, Null}
  PROVE  GoodStep(s, u)
BY DEF GoodStep, SessionStep, PivotStep, OnKeys, IsOn

LEMMA FieldHandlersStep ==
  ASSUME NEW s, Inv(s)
  PROVE  /\ GoodStep(s, OnScanCompleted(s).state)
         /\ GoodStep(s, OnScrollRequested(s).state)
         /\ \A target \in Target : GoodStep(s, OnUpdateFocusedInstance(s, target).state)
         /\ GoodStep(s, OnInjectionStarted(s).state)
         /\ GoodStep(s, OnInjectionCompleted(s).state)
         /\ GoodStep(s, OnExistingTabUpdated(s).state)
         /\ GoodStep(s, OnGetCurrentState(s).state)
<1>1. s \in State
  BY DEF Inv
<1>2. /\ GoodStep(s, [s EXCEPT !.scanning = Null])
      /\ \A target : GoodStep(s, [s EXCEPT !.focusedTarget = target])
  BY <1>1, SameKeysStep DEF State
<1>3. \A flag : GoodStep(s, [s EXCEPT !.injectingRequested = flag, !.injectingStarted = flag])
  <2> TAKE flag
  <2> DEFINE u == [s EXCEPT !.injectingRequested = flag, !.injectingStarted = flag]
  <2>1. u.adhoc = s.adhoc /\ u.step = s.step /\ u.pivot = s.pivot /\ u.scanning = s.scanning
    BY <1>1 DEF State
  <2> HIDE DEF u
  <2>2. GoodStep(s, u)
    BY <2>1, SameKeysStep
  <2>3. QED BY <2>2 DEF u
<1>4. GoodStep(s, OnExistingTabUpdated(s).state)
  <2> DEFINE u == OnExistingTabUpdated(s).state
  <2>1. /\ u.scanning = Null /\ u.pivot = s.pivot
        /\ \A t \in AdhocTest : ~u.adhoc[t]
        /\ \A r \in Requirement : u.step[r] # "on"
    BY DEF OnExistingTabUpdated, Emit, DefaultState
  <2> HIDE DEF u
  <2>2. OnKeys(u) = {}
    BY <2>1 DEF OnKeys, IsOn, Key
  <2>3. GoodStep(s, u)
    BY <2>1, <2>2 DEF GoodStep, SessionStep, PivotStep
  <2>4. QED BY <2>3 DEF u
<1>5. GoodStep(s, s)
  BY SameStep
<1>6. QED
  BY <1>2, <1>3, <1>4, <1>5
     DEF OnScanCompleted, OnScrollRequested, OnUpdateFocusedInstance, OnInjectionStarted,
         OnInjectionCompleted, OnGetCurrentState, Emit, Silent

LEMMA ToggleStep ==
  ASSUME NEW s, Inv(s), NEW o \in ToggleOutcomes(s)
  PROVE  GoodStep(s, o.state)
<1>1. \A t \in AdhocTest, on \in BOOLEAN : GoodStep(s, OnVisualizationToggle(s, t, on).state)
  BY DisableStep, EnableStep DEF OnVisualizationToggle, OnEnableVisualization, Key
<1>2. ASSUME NEW t \in AdhocTest
      PROVE  GoodStep(s, OnRescanVisualization(s, t).state)
  <2> DEFINE d == OnDisableVisualization(s, t).state
             e == EnableTest(d, t, FALSE).state
  <2>1. Inv(d)
    BY DisableGood DEF GoodOutcome
  <2>2. /\ s.scanning # Null => d = s
        /\ d.scanning = s.scanning
        /\ OnKeys(d) \subseteq OnKeys(s)
        /\ d.pivot = s.pivot
    BY DisableSteps
  <2>3. OnRescanVisualization(s, t).state = e
    BY DEF OnRescanVisualization, OnEnableVisualization, Then
  <2> HIDE DEF d
  <2>4. /\ d.scanning # Null => e = d
        /\ d.scanning = Null =>
             /\ e.scanning = t
             /\ OnKeys(e) \subseteq OnKeys(d) \cup {t}
             /\ t \in OnKeys(e)
        /\ e.pivot = d.pivot
    BY <2>1, EnableSteps DEF Key
  <2> HIDE DEF e
  <2>5. t \in Key
    BY DEF Key
  <2>6. CASE s.scanning # Null
    BY <2>2, <2>3, <2>4, <2>6, SameStep
  <2>7. CASE s.scanning = Null
    BY <2>2, <2>3, <2>4, <2>5, <2>7, AdjustStep
  <2>8. QED BY <2>6, <2>7
<1>3. QED BY <1>1, <1>2 DEF ToggleOutcomes

LEMMA AssessmentStep ==
  ASSUME NEW s, Inv(s), NEW o \in AssessmentOutcomes(s)
  PROVE  GoodStep(s, o.state)
<1>1. GoodStep(s, TurnOff(s, Assessment))
  <2>1. CASE s.scanning # Null
    BY <2>1, TurnOffNarrows, SameStep DEF Inv
  <2>2. CASE s.scanning = Null
    BY <2>2, TurnOffNarrows, AdjustStep, StoreAssumption DEF Inv, Key
  <2>3. QED BY <2>1, <2>2
<1>2. GoodStep(s, OnDisableAssessmentVisualizations(s).state)
  BY <1>1 DEF OnDisableAssessmentVisualizations, Emit
<1>3. \A r \in Requirement : /\ GoodStep(s, OnEnableVisualization(s, r).state)
                             /\ GoodStep(s, OnEnableVisualizationWithoutScan(s, r).state)
  BY EnableStep DEF OnEnableVisualization, OnEnableVisualizationWithoutScan, Key
<1>4. \A a \in Assessment : GoodStep(s, OnDisableVisualization(s, a).state)
  BY DisableStep
<1>5. QED BY <1>2, <1>3, <1>4 DEF AssessmentOutcomes

LEMMA NavigationStep ==
  ASSUME NEW s, Inv(s), NEW o \in NavigationOutcomes(s)
  PROVE  GoodStep(s, o.state)
<1>1. ASSUME NEW view \in View, NEW pivot \in PivotChoice
      PROVE  GoodStep(s, OnDetailsViewOpen(s, view, pivot).state)
  <2>1. CASE view \notin AdhocTest \ {TabStops}
    BY <2>1, PivotChildIsStep DEF OnDetailsViewOpen, Then, Silent
  <2>2. CASE view \in AdhocTest \ {TabStops}
    <3> DEFINE e == EnableTest(s, view, FALSE).state
               m == OnUpdateSelectedPivotChild(e, view, pivot).state
    <3>1. view \in Key /\ Null \notin Key
      BY <2>2, StoreAssumption DEF Key
    <3>2. /\ Inv(e)
          /\ s.scanning # Null => e = s
          /\ s.scanning = Null =>
               /\ e.scanning = view
               /\ OnKeys(e) \subseteq OnKeys(s) \cup {view}
               /\ view \in OnKeys(e)
      BY <3>1, EnableGood, EnableSteps DEF GoodOutcome
    <3>3. OnDetailsViewOpen(s, view, pivot).state = m
      BY <2>2 DEF OnDetailsViewOpen, OnVisualizationToggle, OnEnableVisualization, Then
    <3> HIDE DEF e
    <3>4. e \in State /\ e.scanning # Null
      BY <3>1, <3>2 DEF Inv
    <3>5. OnKeys(m) = OnKeys(e) /\ m.scanning = e.scanning
      <4> DEFINE newView == IF view # Null /\ pivot = FastPass THEN view ELSE e.fastPassView
                 newPivot == IF pivot # Null THEN pivot ELSE e.pivot
                 u == [e EXCEPT !.fastPassView = newView, !.pivot = newPivot]
      <4>1. newView \in DetailsView /\ newPivot \in Pivot
        BY <3>4 DEF View, PivotChoice, State
      <4>2. m = e \/ m = TurnOff(u, Test)
        BY DEF OnUpdateSelectedPivotChild, Emit, Silent
      <4> HIDE DEF newView, newPivot
      <4>3. u \in State /\ u.adhoc = e.adhoc /\ u.step = e.step /\ u.scanning = e.scanning
        BY <3>4, <4>1 DEF State
      <4> HIDE DEF u, m
      <4>4. OnKeys(u) = OnKeys(e)
        BY <4>3 DEF OnKeys, IsOn
      <4>5. QED BY <3>4, <4>2, <4>3, <4>4, TurnOffNarrows
    <3> HIDE DEF m
    <3>6. PivotStep(s, m)
      BY <3>4, <3>5 DEF PivotStep
    <3>7. SessionStep(s, m)
      BY <3>1, <3>2, <3>5 DEF SessionStep
    <3>8. QED BY <3>3, <3>6, <3>7 DEF GoodStep
  <2>3. QED BY <2>1, <2>2
<1>2. QED BY <1>1, PivotIsStep, PivotChildIsStep DEF NavigationOutcomes

LEMMA FocusStep ==
  ASSUME NEW s, Inv(s), NEW o \in FocusOutcomes(s)
  PROVE  GoodStep(s, o.state)
BY FieldHandlersStep DEF FocusOutcomes

-----------------------------------------------------------------------------
(* The theorems.                                                           *)

\* One step of the store: the invariant is kept, and the step is a good one.
LEMMA StoreStep ==
  ASSUME Inv(vis), [StoreNext]_vis
  PROVE  Inv(vis') /\ GoodStep(vis, vis')
<1>1. CASE Toggle
  BY <1>1, ToggleGood, ToggleStep DEF Toggle, GoodOutcome
<1>2. CASE UseAssessment
  BY <1>2, AssessmentGood, AssessmentStep DEF UseAssessment, GoodOutcome
<1>3. CASE NavigateView
  BY <1>3, NavigationGood, NavigationStep DEF NavigateView, GoodOutcome
<1>4. CASE Focus
  BY <1>4, FocusGood, FocusStep DEF Focus, GoodOutcome
<1>5. CASE CompleteScan
  BY <1>5, FieldHandlersGood, FieldHandlersStep DEF CompleteScan, GoodOutcome
<1>6. CASE StartInjection
  BY <1>6, FieldHandlersGood, FieldHandlersStep DEF StartInjection, GoodOutcome
<1>7. CASE CompleteInjection
  BY <1>7, FieldHandlersGood, FieldHandlersStep DEF CompleteInjection, GoodOutcome
<1>8. CASE UpdateTab
  BY <1>8, FieldHandlersGood, FieldHandlersStep DEF UpdateTab, GoodOutcome
<1>9. CASE UNCHANGED vis
  BY <1>9, SameStep
<1>10. QED
  BY <1>1, <1>2, <1>3, <1>4, <1>5, <1>6, <1>7, <1>8, <1>9 DEF StoreNext

LEMMA StoreInv == StoreSpec => []Inv(vis)
<1>1. StoreInit => Inv(vis)
  BY DefaultInv DEF StoreInit
<1>2. Inv(vis) /\ [StoreNext]_vis => Inv(vis)'
  BY StoreStep
<1>3. QED BY <1>1, <1>2, PTL DEF StoreSpec

\* Whatever the views, the timers, the page and the browser make the store do, its
\* state stays of the declared shape.
THEOREM StoreTypeOK == StoreSpec => []TypeOK
<1>1. Inv(vis) => TypeOK
  BY DEF Inv, TypeOK
<1>2. QED BY <1>1, StoreInv, PTL

\* The test being scanned is always one that is switched on.
THEOREM StoreScanningIsOn == StoreSpec => []ScanningIsOn
<1>1. Inv(vis) => ScanningIsOn
  BY DEF Inv, ScanningIsOn
<1>2. QED BY <1>1, StoreInv, PTL

\* Automated checks and needs-review are never on together.
THEOREM StoreExclusiveTests == StoreSpec => []ExclusiveTests
<1>1. Inv(vis) => ExclusiveTests
  BY DEF Inv, ExclusiveTests
<1>2. QED BY <1>1, StoreInv, PTL

\* At most one requirement of all assessments is on.
THEOREM StoreAssessments == StoreSpec => []OneRequirement
<1>1. Inv(vis) => OneRequirement
  BY DEF Inv, OneRequirementOn, OneRequirement
<1>2. QED BY <1>1, StoreInv, PTL

\* An assessment's flag says whether one of its own requirements is on.
THEOREM StoreAssessmentFlag == StoreSpec => []AssessmentFlag
<1>1. Inv(vis) => AssessmentFlag
  BY DEF Inv, OneRequirementOn, FlagsRight, AssessmentFlag
<1>2. QED BY <1>1, StoreInv, PTL

\* An injection that has started is one that is still requested.
THEOREM StoreStartedIsRequested == StoreSpec => []StartedIsRequested
<1>1. Inv(vis) => StartedIsRequested
  BY DEF Inv, StartedIsRequested
<1>2. QED BY <1>1, StoreInv, PTL

\* Moving to another pivot outside a scan leaves no visualization on.
THEOREM StorePivotSwitchClears == StoreSpec => PivotSwitchClears
<1>1. Inv(vis) /\ [StoreNext]_vis
        => [vis'.pivot # vis.pivot /\ vis'.scanning = Null => \A k \in Key : ~IsOn(vis', k)]_vis
  BY StoreStep DEF GoodStep, PivotStep, OnKeys
<1>2. QED BY <1>1, StoreInv, PTL DEF StoreSpec, PivotSwitchClears

\* Every behaviour of the store is one of the scan session: nothing is switched
\* and no scan replaces another while a scan runs.
THEOREM StoreImplementsSession == StoreSpec => SessionSpec
<1>1. StoreInit => Session!Init
  BY DEF StoreInit, Session!Init, DefaultState, IsOn, Key
<1>2. Inv(vis) /\ [StoreNext]_vis => [Session!Next]_(Session!vars)
  <2>1. SUFFICES ASSUME Inv(vis), [StoreNext]_vis
                 PROVE  [Session!Next]_(Session!vars)
    OBVIOUS
  <2>2. SessionStep(vis, vis')
    BY <2>1, StoreStep DEF GoodStep
  <2>3. CASE /\ vis.scanning = Null
             /\ \E k \in Key : /\ vis'.scanning \in {Null, k}
                               /\ OnKeys(vis') \subseteq OnKeys(vis) \cup {k}
                               /\ vis'.scanning = k => k \in OnKeys(vis')
    BY <2>3 DEF Session!Next, Session!Begin, Session!Adjust, OnKeys
  <2>4. CASE OnKeys(vis') = OnKeys(vis) /\ vis'.scanning \in {vis.scanning, Null}
    BY <2>4 DEF Session!Next, Session!Finish, Session!vars, OnKeys
  <2>5. CASE OnKeys(vis') = {} /\ vis'.scanning = Null
    BY <2>5 DEF Session!Next, Session!Leave, OnKeys
  <2>6. QED BY <2>2, <2>3, <2>4, <2>5 DEF SessionStep
<1>3. QED BY <1>1, <1>2, StoreInv, PTL DEF StoreSpec, SessionSpec, Session!Spec

=============================================================================
