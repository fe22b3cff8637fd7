------------------------------ MODULE Libraries ------------------------------
(***************************************************************************)
(* The parts around the engine that share nothing with each other.  A      *)
(* behaviour is one of a single part: which one is chosen in its first     *)
(* state, and the variables of the others hold nothing.  The parts share   *)
(* one name space, so that what is promised here of all of them can be     *)
(* checked in one run and be proved.                                       *)
(***************************************************************************)
EXTENDS
  Vcontext, Prefill, SessionStore, LookupDraft, Codegraph, Sweep, Sampler, Runner, Judge, Drift,
  Prefix, Deployment, Capacity

VARIABLE part

Parts ==
  {"vcontext", "prefill", "store", "lookup", "codegraph", "sweep", "sampler",
   "runner", "judge", "drift", "prefix", "deployment", "capacity"}

---------------------------------------------------------------------------
(* A part that is not the behaviour's own.                                   *)

None == <<>>

NoVcontext ==
  /\ text = None /\ pol = None /\ rules = None /\ query = None /\ phase = None
  /\ chunks = None /\ bridges = None /\ worker = None /\ result = None /\ ctxDone = None
  /\ merged = None /\ index = None /\ skeleton = None /\ ranked = None /\ selection = None
NoPrefill ==
  /\ policy = None /\ ids = None /\ proc = None /\ spawned = None /\ filler = None
  /\ owner = None /\ reply = None /\ results = None /\ cancelled = None /\ failed = None
  /\ runDone = None /\ asked = None
NoStore ==
  /\ now = None /\ sessions = None /\ evicted = None /\ held = None /\ touched = None
NoLookup ==
  /\ prompt = None /\ out = None /\ hist = None /\ last = None /\ draft = None
  /\ missed = None
NoGraph ==
  /\ units = None /\ todo = None /\ frames = None /\ stack = None /\ visit = None
  /\ low = None /\ comps = None /\ stage = None
NoSweep ==
  /\ flags = None /\ grid = None /\ depths = None /\ row = None /\ runs = None
  /\ rows = None /\ failedAt = None /\ told = None /\ file = None /\ tmp = None
  /\ best = None /\ pc = None
NoSampler ==
  /\ params = None /\ window = None
NoRunner ==
  /\ owns = None /\ vision = None /\ step = None /\ alive = None /\ refused = None /\ misuse = None
  /\ chain = None /\ built = None /\ heard = None /\ custom = None /\ served = None
  /\ request = None
NoJudge == claims = None
NoDrift ==
  /\ contract = None /\ required = None /\ source = None
NoPrefix ==
  /\ prompts = None /\ unified = None /\ remembers = None /\ capacity = None /\ cells = None
  /\ off = None /\ next = None /\ sharing = None
NoDeployment ==
  /\ written = None /\ model = None /\ cache = None /\ support = None /\ drafter = None
  /\ needsRewind = None /\ outputs = None /\ deployed = None
NoCapacity ==
  /\ in = None /\ target = None

---------------------------------------------------------------------------

Init ==
  /\ part \in Parts
  /\ IF part = "vcontext" THEN VcontextInit ELSE NoVcontext
  /\ IF part = "prefill" THEN PrefillInit ELSE NoPrefill
  /\ IF part = "store" THEN StoreInit ELSE NoStore
  /\ IF part = "lookup" THEN LookupInit ELSE NoLookup
  /\ IF part = "codegraph" THEN GraphInit ELSE NoGraph
  /\ IF part = "sweep" THEN SweepInit ELSE NoSweep
  /\ IF part = "sampler" THEN SamplerInit ELSE NoSampler
  /\ IF part = "runner" THEN RunnerInit ELSE NoRunner
  /\ IF part = "judge" THEN JudgeInit ELSE NoJudge
  /\ IF part = "drift" THEN DriftInit ELSE NoDrift
  /\ IF part = "prefix" THEN PrefixInit ELSE NoPrefix
  /\ IF part = "deployment" THEN DeploymentInit ELSE NoDeployment
  /\ IF part = "capacity" THEN CapacityInit ELSE NoCapacity

Next ==
  /\ UNCHANGED part
  /\ \/ part = "vcontext" /\ VcontextNext
     \/ part # "vcontext" /\ UNCHANGED vcontextVars
  /\ \/ part = "prefill" /\ PrefillNext
     \/ part # "prefill" /\ UNCHANGED prefillVars
  /\ \/ part = "store" /\ StoreNext
     \/ part # "store" /\ UNCHANGED storeVars
  /\ \/ part = "lookup" /\ LookupNext
     \/ part # "lookup" /\ UNCHANGED lookupVars
  /\ \/ part = "codegraph" /\ GraphNext
     \/ part # "codegraph" /\ UNCHANGED graphVars
  /\ \/ part = "sweep" /\ SweepNext
     \/ part # "sweep" /\ UNCHANGED sweepVars
  /\ \/ part = "sampler" /\ SamplerNext
     \/ part # "sampler" /\ UNCHANGED samplerVars
  /\ \/ part = "runner" /\ RunnerNext
     \/ part # "runner" /\ UNCHANGED runnerVars
  /\ \/ part = "judge" /\ JudgeNext
     \/ part # "judge" /\ UNCHANGED claims
  /\ \/ part = "drift" /\ DriftNext
     \/ part # "drift" /\ UNCHANGED driftVars
  /\ \/ part = "prefix" /\ PrefixNext
     \/ part # "prefix" /\ UNCHANGED prefixVars
  /\ \/ part = "deployment" /\ DeploymentNext
     \/ part # "deployment" /\ UNCHANGED deploymentVars
  /\ \/ part = "capacity" /\ CapacityNext
     \/ part # "capacity" /\ UNCHANGED capacityVars

vars == <<part, vcontextVars, prefillVars, storeVars, lookupVars, graphVars, sweepVars,
  samplerVars, runnerVars, claims, driftVars, prefixVars, deploymentVars, capacityVars>>

Spec == Init /\ [][Next]_vars

---------------------------------------------------------------------------
(* What the parts promise, each of its own behaviours.                       *)

\* internal/vcontext: the split of a document, and what a query selects of it.
DocumentsSound == part = "vcontext" => SplitSound /\ SelectionHonest

\* internal/vcontext: a merged answer is one about the whole document.
MergedIsWhole == part = "vcontext" => AnswerIsWhole

\* internal/prefill: a run says the truth of itself, and is never stuck.
PrefillPromise == part = "prefill" => ProcessPromise

\* internal/vcontext: what was put is there until its loss is accounted for.
StorePromise == [](part = "store" => StoreKeeps) /\ EvictsOldest

\* "MaxSessions bounds how many are held at once".
SessionsCapped == part = "store" => CapHolds

\* internal/draft: the history is what was emitted, and a proposal follows from it.
LookupPromise == part = "lookup" => HistoryIsOutput /\ ProposalFollows

\* "history matches what was really emitted", and "has to be exact".
HistoryExact == part = "lookup" => HistoryComplete

\* cmd/llama-herd: no row is a bare zero, nothing is left out, and the file is whole.
SweepPromise == part = "sweep" => RowsHonest /\ TableWhole /\ RatesFit /\ FileIsPrefix

\* "Refuse configurations the geometry cannot hold, rather than measuring them."
PromptsFit == part = "sweep" => SharesHeld

\* internal/llama: neither short cut of a sampler can be seen, where penalties lower
\* and a grammar is not narrowed.
SamplerPromise == part = "sampler" => ShortcutsUnseen

\* "A grammar ... must disable every fast path".
GrammarFirst == part = "sampler" => GrammarObeyed

\* "every sampler that runs before the truncation can only LOWER a logit".
NarrowingSafe == part = "sampler" => NarrowingUnseen

\* internal/llama: a chain is its request's own, and what is allocated is freed once.
RunnerPromise == part = "runner" => RunnerSound

\* "cur is this chain's candidate buffer", and is not there without the chain.
BuffersGo == part = "runner" => NothingStranded

\* internal/prefix: a shared prefix is every prompt's own.
SharePromise == part = "prefix" => ShareSound

\* internal/codegraph: the plan, the check between chunks and that between tiers.
CodegraphPromise ==
  /\ part = "codegraph" => ComponentsRight
  /\ part = "judge" => VerdictMeans
  /\ part = "drift" => DriftMeans

\* "a real edge always wins over a kind".
PlanOrdered == part = "codegraph" => EdgesWin

\* What a manifest gets and what a card holds.
DeploymentPromise ==
  /\ part = "deployment" => ServesWhatItCan
  /\ part = "capacity" => PlansAgree

\* "AutoOutputsMax bounds the logit buffer by what the engine will actually request".
OutputsCover == part = "deployment" => OutputsSuffice
=============================================================================
