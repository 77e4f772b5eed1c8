CONSTANTS
  NULL = NULL
  Lead = lead
  Sample = {s1, s2}
  Label = {faq}
  MAX_RETRIES = 1
  DEADLINE = 2
  REQUEST_TIMEOUT = 2
  Backoff = {1}
  RetryAfter = {0}
  MaxRevocations = 1
  Other = other
  MaxLent = 2
  MaxLost = 1
INVARIANTS LlmTypeOK DeadlineKept ConfidenceIsEarned RevocationSurvived 
PROPERTY CallEnds
SPECIFICATION UsageSpec
CHECK_DEADLOCK FALSE
