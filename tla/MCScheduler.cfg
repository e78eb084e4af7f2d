\* Four tasks, two at a time, the scheduler's own MAX_ATTEMPTS; the role of t3 has
\* no agent.
SPECIFICATION Spec
CONSTANTS
  t1 = t1
  t2 = t2
  t3 = t3
  t4 = t4
  ghost = ghost
  Tasks = {t1, t2, t3, t4}
  Names = {t1, t2, t3, t4, ghost}
  Graphs <- MCGraphs
  Staffed = {t1, t2, t4}
  MaxWorkers = 2
  MaxAttempts = 3
INVARIANTS
  SchedulerInv
  ContextFresh
  BlockedExactly
  FinishedSettled
PROPERTIES
  Termination
  ImplementsTaskFlow
