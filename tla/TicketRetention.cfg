CONSTANTS
  t1 = t1
  NULL = NULL
  NONE = NONE
  Escalation = {e1, e2}
  Operator = {o1}
  Ticket = {t1}
  TicketOf <- MCTicketOf
  Drafted = {e1}
  Ttl = 0
  SCALE = 1
  CLASS_CONFIDENCE = 1
  RAG_CONFIDENCE = 1
  MAX_CLARIFICATIONS = 1
  Thread = {w1, w2}
  MaxMessages = 0
  MaxRequests = 1
SPECIFICATION RetentionSpec
INVARIANTS RetentionTypeOK KeptUntilAnswered
PROPERTIES RequestReachesDesk ClosedIsScrubbed
CHECK_DEADLOCK FALSE
