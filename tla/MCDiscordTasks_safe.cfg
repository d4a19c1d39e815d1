\* A mention and an ordinary message, each delivered twice, and a mention
\* without text; the queue holds one message.
SPECIFICATION FairSpec
CONSTANTS
  Deliveries <- AllDeliveries
  Message <- AllMessages
  Mentions = {1, 3}
  Blank = {3}
  SteeringCap = 1
  MaxComments = 1
  MayRefuse = {2}
  None = None
INVARIANTS
  OneTask
  SteersOnce
  CommentaryGone
  MessagesSettled
PROPERTIES
  TaskEnds
CHECK_DEADLOCK FALSE
