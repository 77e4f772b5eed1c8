CONSTANTS
  NULL = NULL
  Event = {x1, x2}
  Poller = {p1, p2}
  Consumer = {c1}
  MAX_ATTEMPTS = 3
  BatchSize = 1
  PREFETCH = 2
  MaxFaults = 2
SPECIFICATION DeliverySpec
INVARIANTS DeliveryTypeOK PublishedIsSafe EffectOnce HintedOnceHandled
PROPERTIES PublishedNotResent ImplementsHandling
CHECK_DEADLOCK FALSE
