SPECIFICATION FairSpec
CONSTANTS
  r1 = r1
  r2 = r2
  r3 = r3
  None = None
  Requests = {r1}
  NSeqMax = 1
  MaxQueue = 1
  OutCap = 1
  BatchCap = 2
  NCtxSeq = 6
  NCtx = 6
  AdmitCtx = 5
  OutputReserve = 1
  MaxDraft = 0
  CanTrim = TRUE
  Impatient = {r1}
  Faults = {}
  PromptLen <- MCPromptLen
  MaxTokens <- MCLimited
PROPERTIES
  CloseReleasesSlot
