SPECIFICATION Spec
CONSTANTS
  e1 = e1  e2 = e2
  Events = {e1, e2}
  Consumers <- MCConsumers
  Handles <- TwoEvents
  Workers = {1, 2}
  MaxAttempts = 2
  BatchSize = 2
  MaxFaults = 1
INVARIANTS
  DeliverySound
PROPERTIES
  OutcomeFinal
  ReceiptStopsRedelivery
  EventuallyDecided
