\* A batch whose two requirements both report, one injection at a time, under fairness.
CONSTANTS
  Issues = Issues
  NeedsReview = NeedsReview
  TabStops = TabStops
  headings = headings
  FastPass = FastPass
  Off = Off
  Null = Null
  AdhocTest = {Issues, NeedsReview, TabStops}
  Assessment = {headings}
  Requirement = {h1, h2}
  AssessmentOf <- MCAssessmentOf
  DetailsView = {Issues}
  Pivot = {FastPass}
  Target = {}
  FocusTracking = {}
  Batched = {h1, h2}
  InspectMode = {}
  Event = {"leave", "url"}
  ViewMessage = {"assess"}
  MaxInjections = 1
  MaxMessages = 2
  MaxScans = 1
  MaxTabUpdates = 1
SPECIFICATION FairLifecycleSpec
PROPERTIES
  ScanEnds
  InjectionEnds
