SPECIFICATION FairSpec
CHECK_DEADLOCK FALSE
CONSTANTS
  Main = Main
  Workers = {w1, w2}
  Periods = {0, 5000}
  MaxElements = 4
INVARIANTS TypeOK TimerMatchesNode LoopSurvives AtMostTwoOrphans
PROPERTY RoundsGoOn
