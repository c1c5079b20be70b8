\* Everything that can go wrong for a request whose listener may answer twice.
CONSTANTS
  top = top
  frame = frame
  down = down
  up = up
  one = one
  find = find
  dialog = dialog
  PostCommand = PostCommand
  Null = Null
  Window = {top, frame}
  Command = {find, dialog}
  Request = {one}
  Listener <- MCListener
  Parent <- MCParent
  Message <- MCMessage
  Destination <- MCDestination
  Content <- MCContent
  Sender <- MCSender
  Target <- MCTarget
  CommandOf <- MCCommandOf
  Kind <- MCKind
  Event = {"replay", "overtaken", "stale", "reload", "unready", "slow"}
  MaxCopies = 2
  MaxResponses = 2
SPECIFICATION FrameSpec
INVARIANTS
  FrameTypeOK
  HandledOnce
PROPERTIES
  RemoteCallSpec
