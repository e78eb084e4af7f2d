\* Two runs from either tab, two polls at once, two rounds.
SPECIFICATION Spec
CONSTANTS
  Polls = {1, 2}
  MaxRuns = 2
  MaxRounds = 2
INVARIANTS
  PassIsTrue
  BadgeIsHonest
PROPERTIES
  OutcomeIsShown
