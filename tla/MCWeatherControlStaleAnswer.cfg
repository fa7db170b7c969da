SPECIFICATION Spec
CONSTANTS
  Players = {p1}
  Calls = {c1, c2}
  Questions = {q1, q2}
  None = none
  MaxRequests = 4
  MaxFailures = 1
PROPERTIES
  AnswerSettlesItsQuestion
CHECK_DEADLOCK FALSE
