\* A promise listener that takes its time.
CONSTANTS
  top = top
  frame = frame
  down = down
  up = up
  one = one
  find = find
  dialog = dialog
  PostCommand = PostCommand
  Null = Null
  Window = {top, frame}
  Command = {find, dialog}
  Request = {down}
  Listener <- MCListener
  Parent <- MCParent
  Message <- MCMessage
  Destination <- MCDestination
  Content <- MCContent
  Sender <- MCSender
  Target <- MCTarget
  CommandOf <- MCCommandOf
  Kind <- MCKind
  Event = {"slow"}
  MaxCopies = 1
  MaxResponses = 2
SPECIFICATION FrameSpec
INVARIANTS
  AnswerIsTheListeners
\* Once the promise is answered or given up nothing more happens.
CHECK_DEADLOCK FALSE
