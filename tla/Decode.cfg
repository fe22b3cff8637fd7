SPECIFICATION Spec
CONSTANTS
  r1 = r1
  r2 = r2
  r3 = r3
  None = None
  Requests = {r1, r2, r3}
  NSeqMax = 2
  BatchCap = 3
  NCtxSeq = 12
  MaxDraft = 2
  Vocabulary = {0, 1, 2}
  EOS = 2
  Target <- MCTarget
  Caches = {"trim", "rewind"}
  MinShared = 2
  Prompt <- MCPrompt
  MaxTokens <- MCLong
  Media = {}
  Impatient = {r1}
  Faults = {"trim", "checkpoint", "rollback"}
INVARIANTS
  Transparent
  CacheHoldsHistory
  NeverRefused
