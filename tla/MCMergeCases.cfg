\* The system stops once the texts are merged or found to conflict.
SPECIFICATION MergeSpec
CHECK_DEADLOCK FALSE
CONSTANTS
  a = a
  b = b
  Blank = Blank
  NoText = NoText
  Bases <- MCBases
  Edited <- MCEdited
INVARIANTS
  MergeIsUnion
  LinesAccounted
