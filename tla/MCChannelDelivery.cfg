SPECIFICATION Spec
CONSTANTS
  Deliveries <- StrictAndTolerant
  MaxSent = 3
  MaxReceived = 3
  MaxClock = 2
INVARIANTS CarefulObserverQualifies WrongCounterIsNoticed PassedChannelDelivers
CHECK_DEADLOCK FALSE
