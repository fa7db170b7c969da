SPECIFICATION FairSpec
CONSTANTS
  Players = {p1}
  Calls = {c1, c2}
  Questions = {q1, q2}
  None = none
  MaxRequests = 4
  MaxFailures = 1
INVARIANTS
  QuestionIsSettledOnce
  NoQuestionIsLost
PROPERTIES
  EnforcerYieldsToResume
  StandingDelayEndsDark
CHECK_DEADLOCK FALSE
