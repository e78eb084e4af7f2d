SPECIFICATION Spec
CONSTANTS
  a = a
  b = b
  ghost = ghost
  Missing = Missing
  NotIterable = NotIterable
  NoObject = NoObject
  Ids = {a, b, ghost}
  Answers <- MCAnswers
  MaxTasks = 2
  MaxRetries = 2
  MaxRateLimitWait = 15
  RetryAfters = {0, 7, 15, 120}
INVARIANTS
  AnyBadPlanFallsBack
