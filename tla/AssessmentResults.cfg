\* One requirement of each kind; a pair of automated checks, as they are restored together.
CONSTANTS
  check1 = check1
  check2 = check2
  assisted = assisted
  manual = manual
  tracked = tracked
  Requirement = {check1, check2, assisted, manual, tracked}
  Automated = {check1, check2}
  Manual = {manual, tracked}
  AutoPass = {manual}
  Tracked = {tracked}
  Outcome <- MCOutcome
  Instance = {i1, i2}
  File <- MCFile
  MaxTouched = 2
  MaxNoted = 2
  MaxLookups = 1
  None = None
SYMMETRY MCSymmetry
SPECIFICATION Spec
INVARIANTS
  TypeOK
  FinalResultAgrees
  JudgementCanBeUndone
  RestartResumes
