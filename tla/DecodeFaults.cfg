SPECIFICATION FairSpec
CONSTANTS
  r1 = r1
  r2 = r2
  r3 = r3
  None = None
  Requests = {r1, r3}
  NSeqMax = 2
  BatchCap = 4
  NCtxSeq = 12
  MaxDraft = 2
  Vocabulary = {0, 1, 2}
  EOS = 2
  Target <- MCTarget
  Caches = {"rewind"}
  MinShared = 0
  Prompt <- MCPrompt
  MaxTokens <- MCLong
  Media = {r3}
  Impatient = {r1}
  Faults = {"checkpoint", "rollback", "nokv", "media"}
INVARIANTS
  TypeOK
  WindowIsOwn
PROPERTIES
  AnswerEnds
