CONSTANTS
  t1 = t1
  NULL = NULL
  NONE = NONE
  Escalation = {e1, e2}
  Operator = {}
  Ticket = {t1}
  TicketOf <- MCTicketOf
  Drafted = {}
  Ttl = 0
  SCALE = 1
  CLASS_CONFIDENCE = 1
  RAG_CONFIDENCE = 1
  MAX_CLARIFICATIONS = 1
  Thread = {w1, w2}
  MaxMessages = 0
  MaxRequests = 1
SPECIFICATION LifecycleSpec
PROPERTY HumanRequestWins
CHECK_DEADLOCK FALSE
