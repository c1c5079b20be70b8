\* Three ad hoc tests, two of which exclude one another, two assessments with
\* three requirements between them, both pivots and one selector to focus.
CONSTANTS
  Issues = Issues
  NeedsReview = NeedsReview
  TabStops = TabStops
  headings = headings
  landmarks = landmarks
  h1 = h1
  h2 = h2
  l1 = l1
  FastPass = FastPass
  Null = Null
  AdhocTest = {Issues, NeedsReview, TabStops}
  Assessment = {headings, landmarks}
  Requirement = {h1, h2, l1}
  AssessmentOf <- MCAssessmentOf
  DetailsView = {Issues, TabStops}
  Pivot = {FastPass, AssessmentPivot}
  Target = {selector}
SPECIFICATION StoreSpec
INVARIANTS
  TypeOK
  ScanningIsOn
  ExclusiveTests
  OneRequirement
  AssessmentFlag
  StartedIsRequested
PROPERTIES
  PivotSwitchClears
  SessionSpec
