SPECIFICATION FairSpec
CHECK_DEADLOCK FALSE
CONSTANTS
  Main = Main
  Timer = Timer
  Workers = {w1}
  Methods = {"acknowledge", "confirm", "enabled", "disable", "conditionRefresh"}
INVARIANTS TypeOK AtMostOneLateActivation ActivePairAgrees SerialAlarmCoherent EventsDefined ActivationReportsActive
PROPERTIES ImplementsCondition ReactivatesWhileEnabled
