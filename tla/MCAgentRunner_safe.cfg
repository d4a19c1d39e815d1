\* Steering, closing, both ends of the context, two tool calls.
SPECIFICATION FairSpec
CONSTANTS
  MaxSteering = 3
  Blank <- MCBlank
  Targeted <- MCTargeted
  MaxToolCalls = 2
  MaxCalls = 2
  MaxCommentary = 1
INVARIANTS
  AnswerKnowsSteering
  SteeringServed
PROPERTIES
  TurnSpec
  RunEnds
CHECK_DEADLOCK FALSE
