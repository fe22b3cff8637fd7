SPECIFICATION Spec
CONSTANTS
  r1 = r1
  r2 = r2
  r3 = r3
  None = None
  Requests = {r1, r3}
  NSeqMax = 2
  BatchCap = 4
  NCtxSeq = 12
  MaxDraft = 0
  Vocabulary = {0, 1, 2}
  EOS = 2
  Target <- MCTarget
  Caches = {"trim"}
  MinShared = 2
  Prompt <- MCPrompt
  MaxTokens <- MCMaxTokens
  Media = {}
  Impatient = {}
  Faults = {"nokv"}
INVARIANTS
  NeverRefused
