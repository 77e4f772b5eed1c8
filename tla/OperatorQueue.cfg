CONSTANTS
  e1 = e1
  e2 = e2
  t1 = t1
  t2 = t2
  NULL = NULL
  Escalation = {e1, e2}
  Operator = {o1, o2}
  Ticket = {t1, t2}
  TicketOf <- MCTicketOf
  Drafted = {}
  Ttl = 0
  PageSize = 1
  Seniority <- MCSeniority
  PRIORITY_STANDARD = 0
  PRIORITY_CLIENT_REQUESTED = 10
SPECIFICATION MCSpec
INVARIANTS QueueTypeOK LockedIffInProgress AnswerIsClaimants TicketFollowsSoleEscalation NothingShownTwice ListingMissesNothing
PROPERTIES ImplementsDesk ExpiredClaimReturned
CHECK_DEADLOCK FALSE
