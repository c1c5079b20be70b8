\* Two devices, two questions and two fetches at a time; a results view that cannot be
\* rendered is where the application stops.
CONSTANTS
  phone = phone
  tablet = tablet
  q1 = q1
  q2 = q2
  f1 = f1
  f2 = f2
  Null = Null
  Device = {phone, tablet}
  Slot = {q1, q2}
  Fetch = {f1, f2}
SPECIFICATION FairAppSpec
INVARIANTS
  AppTypeOK
  ConfiguredIsSelected
  StartsOnDecision
  OneQuestion
  ConnectedIsSelected
  ScanIsFetched
  ResultsOfSelected
PROPERTIES
  WizardSettles
  ScanSettles
CHECK_DEADLOCK FALSE
