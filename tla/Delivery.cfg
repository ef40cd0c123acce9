CONSTANTS
  Rides = {r1}
  Replicas = {w1, w2}
  BatchSize = 2
  MaxEvents = 3
  MaxFailures = 1
SPECIFICATION SystemSpec
INVARIANTS GatewayTypeOK MarkedWasDelivered ProcessedByOne RepeatsNeedFailures InOrder
  SubscriberMissesNothing SubscriberHearsInOrder
PROPERTIES EveryEventIsPublished ImplementsAtLeastOnce SubscriberHearsEverything
