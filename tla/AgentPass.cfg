CONSTANTS
  NONE = NONE
  SCALE = 3
  CLASS_CONFIDENCE = 2
  RAG_CONFIDENCE = 2
  MAX_CLARIFICATIONS = 1
  DISAGREEMENT_CONFIDENCE = 1
  MAX_CONTEXT_CHUNKS = 2
  MaxWeight = 2
  TOP_K = 2
  CANDIDATES = 3
  RRF_K = 60
  RRF_UNIT = 238266
  MaxChunks = 3
SPECIFICATION PassSpec
INVARIANTS PassTypeOK PolicyFollowed AnswerIsEvidenced AnswerIsGrounded OutageKeepsReason
PROPERTY PassIsSettled
CHECK_DEADLOCK FALSE
