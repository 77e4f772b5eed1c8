CONSTANTS
  t1 = t1
  NULL = NULL
  NONE = NONE
  Escalation = {e1, e2, e3}
  Operator = {}
  Ticket = {t1}
  TicketOf <- MCTicketOf
  Drafted = {}
  Ttl = 0
  SCALE = 1
  CLASS_CONFIDENCE = 1
  RAG_CONFIDENCE = 1
  MAX_CLARIFICATIONS = 1
  Thread = {w1, w2, w3}
  MaxMessages = 2
  MaxRequests = 2
  Console = {k1}
SPECIFICATION FeedSpec
INVARIANTS FeedTypeOK AgentSpeaksInTurn FeedHasNoGap
PROPERTY SilenceEnds
CHECK_DEADLOCK FALSE
