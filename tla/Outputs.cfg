\* A manifest that speculates and leaves max_draft out.
SPECIFICATION Spec
CHECK_DEADLOCK FALSE
CONSTANTS
  \* documents: a token is a character
  CharsPerToken = 1
  SkeletonMax = 3
  SpanTokens = 4
  Wording = 1
  Texts <- MCTexts
  Policies <- MCPolicies
  Replies <- MCReplies
  Rules <- MCRules
  Skeletons <- MCSkeletons
  \* chunks
  Batches <- MCBatches
  Permitted = 2
  \* three sessions where two are held, two keys where one is
  Ids = {"i", "j", "k"}
  Keys = {"a", "b"}
  TTL = 1
  MaxSessions = 2
  MaxEntries = 1
  MaxTime = 3
  MaxEvicted = 2
  \* drafting
  Emitted = {"x", "y"}
  Prompts <- MCPrompts
  N = 1
  MaxDraft = 2
  MaxHistory = 4
  MaxOut = 4
  \* units
  UnitSets <- MCUnitSets
  \* sweeping
  Base <- MCBase
  Flags <- MCFlags
  DepthScale = 3
  MaxGenerated = 4
  MaxRate = 2
  \* sampling
  NVocab = 5
  LogitLists <- MCLogitLists
  Masks <- MCMasks
  ParamSets <- MCParamSets
  Lo = 0
  Hi = 2
  Stride = 2
  Margin = 0
  Slack = 0
  \* chains
  Seqs = {1, 2}
  Default <- MCDefault
  Overrides <- MCOverrides
  MaxChains = 5
  MaxServed = 3
  \* assertions and declarations
  Chunks = {0, 1}
  Symbols = {"", "s"}
  Known = {"s"}
  Arities <- MCArities
  Sigs = {"", "f"}
  MaxClaims = 3
  Names <- MCNames
  Kinds = {"type", "func"}
  SigTexts = {"p", "q"}
  MaxDecls = 2
  \* prompts that begin alike
  PromptLists <- MCPromptLists
  Capacities = {1, 2}
  \* manifests and cards
  Manifests <- MCManifests
  LeastShare = 256
  DefaultBatch = 2048
  DefaultDraft = 4
  LeastOutputs = 8
  Word = 4096
  Shapes <- MCShapes
  Heads = {0, 1}
  WeightSizes = {10, 30}
  Cards = {20, 60, 200}
  Overheads = {0, 5}
  DefaultOverhead = 8
  StreamCounts <- MCStreamCounts
  Shares = {1, 2, 5}
  Precisions = {8, 4, 3, 2}
INVARIANTS
  OutputsCover
