\* Two injections at a time, on a page that behaves.
CONSTANTS
  Issues = Issues
  NeedsReview = NeedsReview
  TabStops = TabStops
  headings = headings
  FastPass = FastPass
  Off = Off
  Null = Null
  AdhocTest = {Issues, NeedsReview, TabStops}
  Assessment = {headings}
  Requirement = {}
  AssessmentOf <- MCAssessmentOf
  DetailsView = {Issues}
  Pivot = {FastPass}
  Target = {}
  FocusTracking = {TabStops}
  Batched = {}
  InspectMode = {scope}
  Event = {"leave", "url"}
  ViewMessage = {"toggle", "connect"}
  MaxInjections = 2
  MaxMessages = 2
  MaxScans = 1
  MaxTabUpdates = 1
SPECIFICATION LifecycleSpec
INVARIANTS
  RequestIsServed
  ScanIsServed
