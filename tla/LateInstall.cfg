\* The results view is opened while no device is selected.
CONSTANTS
  phone = phone
  tablet = tablet
  q1 = q1
  q2 = q2
  f1 = f1
  f2 = f2
  Null = Null
  Device = {phone, tablet}
  Slot = {q1, q2}
  Fetch = {f1, f2}
SPECIFICATION AppSpec
INVARIANTS
  ResultsHaveADevice
CHECK_DEADLOCK FALSE
