SPECIFICATION FairSpec
CHECK_DEADLOCK FALSE
CONSTANTS
  Width = 7
  Failing = {"testFolderLib", "event", "discovery"}
INVARIANTS TypeOK NumberTellsSource QuietAfterShutdown
PROPERTIES ComponentsIndependent RoundsShareThread ShutdownEnds
