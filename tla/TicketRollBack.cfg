CONSTANTS
  t1 = t1
  NULL = NULL
  NONE = NONE
  Escalation = {e1}
  Operator = {o1}
  Ticket = {t1}
  TicketOf <- MCTicketOf
  Drafted = {}
  Ttl = 0
  SCALE = 1
  CLASS_CONFIDENCE = 1
  RAG_CONFIDENCE = 1
  MAX_CLARIFICATIONS = 1
  Thread = {w1}
  MaxMessages = 0
  MaxRequests = 0
SPECIFICATION LifecycleSpec
PROPERTY QueueNeverRollsBack
CHECK_DEADLOCK FALSE
