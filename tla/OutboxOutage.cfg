CONSTANTS
  NULL = NULL
  Event = {x1}
  Poller = {p1}
  Consumer = {c1}
  MAX_ATTEMPTS = 2
  BatchSize = 1
  PREFETCH = 1
  MaxFaults = 3
SPECIFICATION DeliverySpec
PROPERTY RecordedIsDelivered
CHECK_DEADLOCK FALSE
