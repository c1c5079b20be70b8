\* One tested tab, and two more tabs and windows for details views and other pages.
\* The last tab may be closed, and then nothing happens any more.
CONSTANTS
  a = a
  b = b
  c = c
  Tab = {a, b, c}
  w1 = w1
  w2 = w2
  w3 = w3
  Window = {w1, w2, w3}
  Url = {u1, u2}
  FirstTab = {a}
  FirstWindow = w1
  Target = {a}
  MaxRequests = 1
  MaxTestRequests = 0
  Null = Null
SYMMETRY MCSymmetry
SPECIFICATION TabSpec
INVARIANTS
  TabTypeOK
  ContextFollowsPage
  SeenIsNotHidden
  OneDetailsView
  AssessedWithDetailsView
PROPERTIES
  OriginChangeIsKept
CHECK_DEADLOCK FALSE
