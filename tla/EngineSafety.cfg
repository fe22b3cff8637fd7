SPECIFICATION Spec
CONSTANTS
  r1 = r1
  r2 = r2
  r3 = r3
  None = None
  Requests = {r1, r2, r3}
  NSeqMax = 2
  MaxQueue = 1
  OutCap = 1
  BatchCap = 2
  NCtxSeq = 6
  NCtx = 12
  AdmitCtx = 5
  OutputReserve = 1
  MaxDraft = 1
  CanTrim = FALSE
  Impatient = {r1}
  Faults = {"nokv", "decode", "sampling", "sample"}
  PromptLen <- MCPromptLen
  MaxTokens <- MCLimited
INVARIANTS
  TypeOK
  SequenceConserved
  OneOwner
  FinalEventFirst
  NoLostWakeup
  NobodyLeftBehind
  TokenLimit
PROPERTIES
  ImplementsAdmission
  DecodeBeforePrefill
