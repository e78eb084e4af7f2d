SPECIFICATION RepoSpec
CONSTANTS
  t1 = t1
  t2 = t2
  app = app
  tests = tests
  Tasks = {t1, t2}
  Names = {t1, t2}
  Graphs <- Plans
  Staffed = {t1, t2}
  MaxWorkers = 2
  MaxAttempts = 2
  Paths = {app, tests}
  Loaded = {app}
  MaxRounds = 2
INVARIANTS
  TestedIsDelivered
  RoundsDoNotOverlap
PROPERTIES
  ImplementsFixRounds
