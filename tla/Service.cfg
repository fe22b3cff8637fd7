SPECIFICATION Spec
CONSTANTS
  big = big
  Unknown = Unknown
  Models = {big}
  Order <- MCOrder
  Templates = {big}
  ToolModels = {big}
  Requests = {1, 2}
  Impatient = {1}
  Bodies <- MCBodies
  StreamCounts = {1, 2}
  MaxQueue = 1
  Pieces = 1
  Reasons = {"eos", "context"}
  Faults = {"open", "listen", "decode", "sample", "slow"}
INVARIANTS
  WholeText
  StopMeansEnded
  RunnerOutlivesUse
PROPERTIES
  ServiceAnswers
