SPECIFICATION CascadeSpec
CONSTANTS
  t1 = t1
  t2 = t2
  t3 = t3
  t4 = t4
  ghost = ghost
  Tasks = {t1, t2, t3, t4}
  Names = {t1, t2, t3, t4, ghost}
  Graphs <- MCGraphs
INVARIANTS
  SearchInv
  VerdictCorrect
  ReportedCycleIsReal
  CascadeCorrect
PROPERTIES
  GraphWorkEnds
