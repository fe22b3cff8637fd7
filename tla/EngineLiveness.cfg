SPECIFICATION FairSpec
CONSTANTS
  r1 = r1
  r2 = r2
  r3 = r3
  None = None
  Requests = {r1, r2, r3}
  NSeqMax = 2
  MaxQueue = 1
  OutCap = 1
  BatchCap = 1
  NCtxSeq = 6
  NCtx = 12
  AdmitCtx = 5
  OutputReserve = 1
  MaxDraft = 0
  CanTrim = TRUE
  Impatient = {r1, r2}
  Faults = {}
  PromptLen <- MCOnePrompts
  MaxTokens <- MCEachOne
PROPERTIES
  AcceptedEnds
  StopEnds
