CONSTANTS
  Change = {c1, c2}
  Read = {r1}
  MaxEpoch = 3
SPECIFICATION FairSpec
INVARIANTS SessionSafe
PROPERTIES AnswersAreTrue OrderSpec EveryRequestEnds
CHECK_DEADLOCK FALSE
