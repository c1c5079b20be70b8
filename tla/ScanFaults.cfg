\* Everything that can go wrong, two injections and one message at a time.
CONSTANTS
  Issues = Issues
  NeedsReview = NeedsReview
  TabStops = TabStops
  headings = headings
  FastPass = FastPass
  Off = Off
  Null = Null
  AdhocTest = {Issues, NeedsReview, TabStops}
  Assessment = {headings}
  Requirement = {}
  AssessmentOf <- MCAssessmentOf
  DetailsView = {Issues}
  Pivot = {FastPass}
  Target = {}
  FocusTracking = {TabStops}
  Batched = {}
  InspectMode = {scope}
  Event = {"leave", "url", "injectionFails", "timerLags", "scanFails"}
  ViewMessage = {"toggle", "navigate", "connect"}
  MaxInjections = 2
  MaxMessages = 1
  MaxScans = 1
  MaxTabUpdates = 1
SPECIFICATION LifecycleSpec
INVARIANTS
  LifecycleTypeOK
  ProxyAgrees
  RecordingOnlyWhileOn
