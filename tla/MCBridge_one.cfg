\* One reader (mc-relay), saves may fail, two restarts, and fewer marks than
\* lines; a reader that keeps polling leaves out no line in sight.
SPECIFICATION FairSpec
CONSTANTS
  relay = relay
  Clients = {relay}
  MaxLines = 5
  Chat <- MCChat
  Window = 2
  DedupeMax = 2
  SaveFails = TRUE
  MaxRestarts = 2
INVARIANTS
  AtMostOncePerMark
PROPERTIES
  FeedSpec
  EveryLineHandedOrMissed
