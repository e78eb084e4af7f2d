SPECIFICATION Spec
CONSTANTS
  a = a
  b = b
  c1 = c1
  c2 = c2
  Blank = Blank
  None = None
  Clients = {c1, c2}
  Drafts <- MCDrafts
  Initial <- MCInitial
  MaxVersion = 4
SYMMETRY ClientSymmetry
INVARIANTS
  NoLostEdit
PROPERTIES
  HistoryFaithful
  RefusalJustified
