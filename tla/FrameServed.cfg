\* Replays and slow listeners, but no message is lost, under fairness of delivery.
CONSTANTS
  top = top
  frame = frame
  down = down
  up = up
  one = one
  find = find
  dialog = dialog
  PostCommand = PostCommand
  Null = Null
  Window = {top, frame}
  Command = {find, dialog}
  Request = {down, up}
  Listener <- MCListener
  Parent <- MCParent
  Message <- MCMessage
  Destination <- MCDestination
  Content <- MCContent
  Sender <- MCSender
  Target <- MCTarget
  CommandOf <- MCCommandOf
  Kind <- MCKind
  Event = {"replay", "slow"}
  MaxCopies = 1
  MaxResponses = 2
SPECIFICATION DeliverySpec
INVARIANTS
  CallbackIsAwaited
  ContentIsAwaited
PROPERTIES
  CallbackReleased
