\* The two rounds the page asks for, or fewer; the time may be over in
\* any of them; two overlapping polls.
SPECIFICATION PageSpec
CONSTANTS
  MaxRounds = 2
  Polls = {1, 2}
  Tolerance = 1
INVARIANTS
  NoSandboxLeak
  NoRoundBeyondCap
  TestsSeeEdits
  ShownPassIsReal
PROPERTIES
  ImplementsFixRounds
  PageLearns
