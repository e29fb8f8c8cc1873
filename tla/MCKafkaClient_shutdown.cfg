CONSTANTS
  MaxLog = 3
  MaxCrashes = 0
  MaxCloses = 1
  BrokerMayFail = FALSE
  ProducerFirst = TRUE
SPECIFICATION Spec
CHECK_DEADLOCK FALSE
INVARIANT FailedAreForwarded
