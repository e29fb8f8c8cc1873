CONSTANTS
  MaxLog = 3
  MaxCrashes = 1
  MaxCloses = 1
  BrokerMayFail = TRUE
  ProducerFirst = FALSE
SPECIFICATION FairSpec
CHECK_DEADLOCK FALSE
INVARIANT KafkaInv
INVARIANT RedeliveredOnlyAfterCrash
PROPERTY EventuallySettled
