CONSTANTS
  Browsers = {a, b, w}
  Away = {w}
  MaxSaid = 2
  MaxFaults = 1
SPECIFICATION Spec
INVARIANTS
  TypeOK
  AnswerSurvives
  OnlyFirstOutcomeHeard
  BridgeIsServed
PROPERTIES
  DeadQuestionCloses
CHECK_DEADLOCK FALSE
