SPECIFICATION SSpec
CONSTANTS
  MaxRuns = 2
  MaxVisits = 1
INVARIANTS OneTerminal ShownTogether
PROPERTIES ProgressInOrder RunEnds
CHECK_DEADLOCK FALSE
