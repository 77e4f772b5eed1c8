CONSTANTS
  e1 = e1
  e2 = e2
  t1 = t1
  t2 = t2
  NULL = NULL
  Escalation = {e1}
  Operator = {o1, o2}
  Ticket = {t1, t2}
  TicketOf <- MCTicketOf
  Drafted = {e1}
  Ttl = 1
SPECIFICATION ClaimsSpec
PROPERTY ResolvedByOperatorIsFinal
CHECK_DEADLOCK FALSE
