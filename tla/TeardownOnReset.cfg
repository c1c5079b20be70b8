\* A requirement that records tab stops, on a page whose URL changes under it.
CONSTANTS
  Issues = Issues
  NeedsReview = NeedsReview
  TabStops = TabStops
  headings = headings
  FastPass = FastPass
  Off = Off
  Null = Null
  AdhocTest = {Issues, NeedsReview, TabStops}
  Assessment = {headings}
  Requirement = {h1}
  AssessmentOf <- MCAssessmentOf
  DetailsView = {Issues}
  Pivot = {FastPass}
  Target = {}
  FocusTracking = {h1}
  Batched = {}
  InspectMode = {}
  Event = {"url"}
  ViewMessage = {"assess"}
  MaxInjections = 1
  MaxMessages = 2
  MaxScans = 1
  MaxTabUpdates = 1
SPECIFICATION LifecycleSpec
INVARIANT
  RecordingOnlyWhileOn
