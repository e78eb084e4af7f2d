\* Every answer of at most two items over two ids, with an unknown role, an
\* unknown id, missing fields and a depends_on that cannot be iterated over;
\* the client with the numbers of llm_free.py, and servers that ask for nothing, a
\* little, or more than it is willing to wait.
SPECIFICATION Spec
CONSTANTS
  a = a
  b = b
  ghost = ghost
  Missing = Missing
  NotIterable = NotIterable
  NoObject = NoObject
  Ids = {a, b, ghost}
  Answers <- MCAnswers
  MaxTasks = 2
  MaxRetries = 2
  MaxRateLimitWait = 15
  RetryAfters = {0, 7, 15, 120}
INVARIANTS
  PlanIsRunnable
  AcceptedVerbatim
  WaitsBounded
  GivesUpHonestly
