CONSTANTS
  NULL = NULL
  Lead = lead
  Sample = {s1, s2}
  Label = {faq}
  MAX_RETRIES = 1
  DEADLINE = 3
  REQUEST_TIMEOUT = 2
  Backoff = {1}
  RetryAfter = {0, 2}
  MaxRevocations = 1
  Other = other
  MaxLent = 2
SPECIFICATION LlmSpec
INVARIANT DeadlineLimitsAll
CHECK_DEADLOCK FALSE
