# llama-herd: models, checks and proofs

llama-herd serves language models from one process: an HTTP API in front of one
decode loop per model, which packs the tokens of many requests into each batch
it gives to llama.cpp.  Around the engine stand libraries and commands that plan
long documents, schedule tasks, share prefixes, check generated code and measure
deployments.  This directory holds TLA+ modules translated from the Go source,
the TLC configurations that check them, and theorems that TLAPS proves for every
value of the constants.

Line numbers refer to the files under `src/`.

## The system

| Component | State it keeps | Operations | Interacts through |
|---|---|---|---|
| `internal/engine` (engine.go) | `queue`, `free`, `closed` under `mu`; the map `active` and the drafter, owned by `Run`; one `slot` per request | `Submit`, `Stream.Close`; `Run`: `admit`, `tick`, `harvest`, `verify`, `finish`, `evictOne`, `drain` | the channel `wake`, a channel and a context per stream, the `Backend` interface |
| `internal/engine/prefixshare.go` | none of its own | `sharePrefixes`, `bestDonor`, `commonPrefix` | slots of `active`, `PrefixSharer` |
| `internal/engine/registry.go` | engines by name, why each ended | `Add`, `Start`, `Get`, `Wait` | one goroutine per engine |
| `internal/api` | a counter of ids | chat completions, buffered and streamed, tools | `Registry.Get`, `Submit` and the stream |
| `cmd/llama-herd/serve.go` | the runners and the listener | loading, probe, drafter, self-test, shutdown | all of the above |
| `internal/llama` | the context: cells, recurrent state, batch, sampler chains, snapshots | `Decode`, `SampleAt`, `TrimSeq`, `FreeSeq`, `Checkpoint`, `Rollback`, `SharePrefix`, `SetSampling`, `Close`; `Fit`, `PlanFor`, `AutoOutputsMax` | called by the loop goroutine only |
| `internal/draft` (lookup.go) | token history per sequence | `Seed`, `Draft`, `Accept`, `Release` | called by `tick`, `harvest`, `finish` |
| `internal/prefill` | results per chunk | `Process` | owner goroutine, workers, a semaphore |
| `internal/prefix` | none | `Analyse`, `Share` | a context that decodes and copies cells |
| `internal/vcontext` | the session store; the state of a schedule | `Schedule`, `Dispatch`, `Put`/`Get`/`All`/`Close`, planning, splitting, selecting and merging of text | workers, an HTTP runner, a store behind a mutex |
| `internal/dag`, `vcontext/dag.go` | none (pure) | tiers, critical path, components | `Schedule`, `codegraph` |
| `internal/codegraph` | none (pure) | `Build`, `CrossCheck`, `CheckDrift` | units, assertions, source |
| `cmd/llama-herd/sweep.go` | rows and their file | the grid, a row per depth, the file after every row | one copy of the weights |
| `internal/manifest`, `catalog`, `gguf`, `hostinfo`, `bench`, `shim` | configuration, measurements | validation and defaults, reading files, thin wrappers | called at start or from the command line |

What is hard here, and what would be wrong silently:

* **Callers against the loop.**  `Submit` appends under `mu` and signals after
  the unlock; callers cancel at any moment; `tick` reads the context of a slot
  in four places.  A stream has to be closed once, after a final event, by
  whichever of `admit`, `finish` or `drain` holds it; a sequence must neither be
  lost nor handed out twice; the loop must not sleep over a queue.
* **One batch for everybody.**  Running tokens, drafts, replays and prompts
  share its capacity, and an overrun or an inconsistent position ends the loop
  for every stream.
* **Speculation and sharing.**  Drafts are written into the cache before they
  are known to be right; a recurrent state can only go back to a snapshot and be
  walked forward again; a prefix of another slot is adopted instead of
  computed.  If any of it is off by a token nothing errors and the text is
  wrong.
* **The end of the process.**  A signal cancels the engines and, through them,
  the handlers that Shutdown waits for, while deferred calls close the runners
  that all of them use; an engine may also die by itself at any step of a handler.
* **Goroutines around a semaphore.**  The schedule of tasks, the prefill of
  chunks and the dispatch of a document each run many workers over few streams,
  with failures, give-ups and a result that must not be read as more than it is.
* **Figures and offsets that agree.**  Chunks, bridges and spans are offsets into
  one text; the manifest, the logit buffer, the batch and the drafter each have
  their own idea of how many tokens a pass may take; three calculations say what
  fits on a card.  None of them fails when it is off by one.

`PROJECT.json` lists the components with what is and is not modelled, and the
hazards with the line each bites at.

## Modules

| Module | What it models |
|---|---|
| `Admission` | The abstract promise to callers: refuse at once or accept; first come, first served; at most `Capacity` at a time; settle once; nothing after closing. |
| `EngineLoop` | The lifecycle of requests in engine.go, with tokens counted. |
| `DecodeState` | What `tick` and `harvest` do to the tokens: cells, recurrent state, drafts, replays, sharing, sampler history. |
| `Service` | The process: `serve`, the registry, an engine per model, the handlers, the clients, the signal. |
| `TaskOrder` | The abstract order of tasks: after what they need, once, given up only behind a failure. |
| `TaskGraph` | vcontext/dag.go: `Sort`, `Independent`, `CriticalPath`. |
| `Schedule` | schedule.go and taskexec.go: goroutines, semaphore, mutex, `blockAll`, the budget of a prompt, `Assemble`. |
| `Ranking` | Sorting by a number, which the table of a sweep and the bridges of a document share, and by place, which the index of a document is sorted by. |
| `Documents`, `Digests`, `Vcontext` | How a document is planned, split, bridged, indexed and selected from; how digests are merged; the command that does it, with `Dispatch`. |
| `Prefill` | `Orchestrator.Process`: workers, semaphore, owner, give-ups, both policies. |
| `SessionStore` | `MemoryStore`: `Put`, `Get`, `All`, `Close`, `Sessions`, each with its sweep. |
| `LookupDraft` | The lookup drafter beside the calls the engine makes, and does not make, to it. |
| `Prefix` | `Analyse` and `Share`, over a library that may ignore a copy or fail a decode. |
| `Sampler`, `Runner` | The chain of `NewSampler` with its two short cuts; what a runner allocates, which chain a sequence has, and what `Close` frees. |
| `Codegraph`, `Judge`, `Drift` | Components and levels of code units (Tarjan without recursion, step by step) and what their kinds make of the levels; the check between chunks; the check of a contract. |
| `Sweep` | The command `sweep`: grid, rows, repetitions, the file and a crash. |
| `Deployment`, `Capacity` | From a line of the manifest to an engine that serves; the three calculations of what fits. |
| `MCEngineLoop`, `MCDecodeState`, `MCSchedule`, `MCService` | Values of the constants, for TLC. |
| `Libraries` | The thirteen parts around the engine that share nothing with each other, in one name space: the first state says which one a behaviour is of.  It states what each of them promises. |
| `MCLibraries` | An instance of `Libraries` for TLC. |
| `EngineLoopTheorems` | The proofs about `EngineLoop`: its invariant, and what follows from it with the refinement of `Admission`. |
| `DecodeTheorems` | The proofs about `DecodeState`: the penalty window and the types, then what caches and answers are. |
| `ScheduleProofs`, `ServiceProofs` | The proofs about `TaskGraph` with `Schedule`, and about `Service`. |
| `RuntimeProofs` | The proofs about the parts of `Libraries` that run under a request: `Prefill`, `SessionStore`, `Runner`, `Prefix`, `Sampler`, `LookupDraft`. |
| `PlanningProofs` | The proofs about what is decided before anything runs: `Deployment` and `Capacity`, `Codegraph` with `Judge` and `Drift`. |
| `CommandProofs` | The proofs about what the commands print: `Documents`, `Digests` and `Vcontext`, and `Sweep`. |
| `Induction` | Induction over numbers and finite sets, functions given by a loop or by a recursion that ends, folds, the least and the greatest of a set, division, pieces of sequences: what the other proofs cite. |

### EngineLoop

The variables are those of the code: `queue`, `free`, `closed` and `wake` are
shared with callers, `active` and everything a loop over it holds (`todo`,
`room`, `cur`, `fin`, `flush`) belong to `Run`, and each request has its slot
(`pos`, `primed`, `generated`, `staged`) and its stream (`out`, `outClosed`,
`cancelled`, `heard`).  `pc` is where `Run` is.

One action is one step of a goroutine between two points at which another can
be seen.  `mu` is held exactly while `pc = "admit"`, so `Submit` is enabled
elsewhere and its own critical section is one action; its signal is a second
one.  A `range` over the map `active` takes any element of `todo`, because Go
randomises the order.  `emit` is the only call of `Run` that may block, so
`finish` is cut in two there: the slot leaves `active` and its sequence
(`Finish`), then the event, the close, the return of the sequence and the signal
(`FinishEnd`).  Both cases of the `select` in `emit` may be taken when both are
ready.

What the backend answers is a choice: end of answer, a token with or without a
complete piece of text, a stop sequence, a draft accepted or not, and, where
`Faults` says so, `ErrNoKVSlot`, another decode error, a refused sampling
configuration or a failed sample.  `MaxDraft` and `CanTrim` say what speculation
may do.  Media, prefix sharing and rewinding are left to `DecodeState`: they
change what is in the cache, not who owns a stream.

### DecodeState

Here tokens have a value.  `Target(h)` is the token the model chooses after the
history `h`: decoding is greedy, so that "the same output" means something.
The backend is its cells (`<<position, token>>` per sequence), the tokens a
recurrent state has been through, the snapshot of `Checkpoint` and the history
of a sampler.  `Sample` returns the model's token only where the cells up to
the sampled position are one history, and the recurrent state has been through
it; anything else is `Garbage`.  `Caches` are the kinds of cache of an instance:
one that `TrimSeq` can cut at a position, one that needs the `Rewinder`, or both,
of which the first state chooses.

Two calls follow the library: after a restored snapshot `Rollback` ignores what
`SeqRm` returns (runner.go:524), and the cut is taken to succeed; and the
`TrimSeq` that engine.go:718 still tries after a rollback that failed is taken
to fail, because the cache is one that position does not cut.

Drafts are arbitrary: at each step of a running stream TLC tries every sequence
of tokens up to the room there is, so every drafter (and a failing one) is
covered.  Streams, the queue and shutdown are those of `EngineLoop`; here a
request starts when a sequence is free.  `DecodeRefused` is what llama.cpp
does with a batch that does not continue where a sequence ends, and what `Run`
does with that error.  A sampling configuration that is refused and a sample
that fails end a request as they do in `EngineLoop` and are not repeated here.

### Service

`main` is where `serve` is: it loads the models one by one, probes and tests
each, starts a goroutine per engine and the listener, and then waits for the
signal or for a listener that fails, at once (`SelftestEnds`) or after it has
served (`ListenerLost`).  Deferred closes run on every path out.  A
handler looks its model up (an entry may have an error by then, or get one right
after), asks the runner to render, submits, and reads its stream; with tools it
holds the text back until the parser has judged it.  The engine is what
`Admission` promises: it queues, serves, emits numbered pieces, ends each stream
with one event, and drains when its context is done or a tick fails.  A client may
leave, and then its stream is ended by `harvest` (`EndGone`) or, where its context
was done before the slot was staged, by nobody: `Strand` leaves it with its sequence
until a full cache (`Evict`) or the drain takes it.  The requests of the self-test
are taken to have ended before the listener serves.  The note
of why an engine ended is a step after its drain, as in registry.go.

### Schedule, Prefill

Both are goroutines around a semaphore.  In `Schedule` a critical section of the
mutex is one action and the list `ready`, empty outside of them, is no variable.
In `Prefill` sends and receives over unbuffered channels are one action of the
two sides; a worker waits in three places and gives up in each of them when the
run is over.

### The parts of Libraries

They are small machines: what an input may be is chosen by the first state (every
text of four pieces, every graph of four units, lists of up to three prompts, the
manifests and the cards of a grid), and the actions are the steps of the
command, with its failures.  Where the code is a pure function, it is an
operator, and the property says what it must be by other means: the components
are the units that reach each other, a shortened chain draws what the whole one
would, a selection is in order, within its budget and says what it left out.

An action whose quantifiers would make the prover guess has its guard as an
operator of its own (`SendReady`, `AcquireReady`, ...); the loops of Tarjan's
search keep, in a frame, the set of successors still to be taken (`left`).

### Definitions marked "Changed"

They are the next definition with a plausible bug in it: a dropped guard, an
off-by-one, a missing reset.  No action uses them; they show that each property
notices the bug it is meant for (`"mutants"` in `PROJECT.json`).  Properties that
join several promises have one for more than one of them.

## What is checked

| Run | Properties | States | Shows |
|---|---|---|---|
| `EngineSafety` | `TypeOK`, `SequenceConserved`, `OneOwner`, `FinalEventFirst`, `NoLostWakeup`, `NobodyLeftBehind`, `TokenLimit`, `DecodeBeforePrefill`, `ImplementsAdmission` | 3.4 M | three callers, two sequences, a queue of one, channels of one event, drafts that cannot be taken back, a full cache, a failing decode, sampling configuration and sample; prompts wait for running streams; the refinement of `Admission` |
| `EngineLiveness` | `AcceptedEnds`, `StopEnds` | 0.5 M | three requests over two sequences and a batch of one token, one waiting request at most, two callers who may cancel and so may keep both sequences: unless they do for ever, who does not cancel is answered; a stop ends `Run` |
| `Decode` | `Transparent`, `CacheHoldsHistory`, `NeverRefused` | 1.3 M | drafts, chunks, shared prefixes, over a cache cut by position and over one with snapshot, rollback and replay, any of which may fail |
| `DecodeFaults` | `TypeOK`, `WindowIsOwn`, `AnswerEnds` | 44 k | a full cache, media, and every fault of a rewind; a replay gets its room however the other stream drafts |
| `Tasks` | `SortSound`, `PrerequisitesDelivered`, `BlockedNamesCause`, `NothingLeftOut`, `ReadingOrder`, `ImplementsTaskOrder`, `ScheduleReturns` | 46 k | every graph of three tasks with up to two dependencies each and every acyclic one of four, over two streams, with failures, a budget and a caller who gives up; the refinement of `TaskOrder` |
| `Service` | `WholeText`, `StopMeansEnded`, `RunnerOutlivesUse`, `ServiceAnswers` | 0.4 M | one model with one or two sequences, a queue of one, two clients, one of whom may leave and keep a sequence; loading, the listener (at first or later), a tick, a sampler and Shutdown may fail, the signal may come at any time; who stays is answered unless all there is stays with who left, and a signal ends the process |
| `Libraries` | `DocumentsSound`, `MergedIsWhole`, `PrefillPromise`, `StorePromise`, `LookupPromise`, `CodegraphPromise`, `SweepPromise`, `SamplerPromise`, `RunnerPromise`, `SharePromise`, `DeploymentPromise` | 1.1 M | each of the other parts on an instance of its own |

What the promises of `Libraries` say:

* `DocumentsSound`: the chunks tile the document, blank cuts apart; none is
  larger than what a stream may take; what is borrowed from a neighbour ends
  where the neighbour does; bridges reach into both sides and go to the severest
  cuts; a selection of passages is in order, in its budget, and says what it
  leaves out.
* `MergedIsWhole`: an answer is merged only of all chunks, and values that print
  differently are reported unless a rule merges them.
* `PrefillPromise`: a run that calls itself complete is complete, a failure stays
  with its chunk under `Continue`, nobody calls the engine after the return, and
  workers, owner and caller never all wait.
* `StorePromise`: what is dropped without being closed has expired or is the
  oldest and is counted; the rest is there, in order, and no session has more
  entries than it may.  The bound on sessions is not among it (`SessionsCapped`).
* `LookupPromise`: the history is what was emitted with nothing rejected in it,
  complete if the drafter was asked in every pass (`HistoryExact` without the
  condition); a proposal did follow the same pattern.
* `CodegraphPromise`: components are the units that reach each other and are on a
  level after what they need, and in the plan after those of them that no kind
  pushed back (`PlanOrdered` without the exception); a verdict without conflicts and with full coverage means
  that no two chunks disagree; no drift means that every promised declaration is
  there.
* `SweepPromise`: no row is a bare zero, every configuration has its rows or was
  told to be skipped, rates come from prompts that fit beside the tokens asked
  for unless a depth asked for more (`PromptsFit` without the exception), and the
  file is a whole prefix of the rows at every crash.
* `SamplerPromise`: the greedy scan and the shortened candidate list draw what
  the whole chain would, where no penalty raises a logit, the window counts and
  there is no grammar; a chain with a grammar that is not narrowed draws what the
  grammar allows (`NarrowingSafe` and `GrammarFirst` without the conditions).
* `RunnerPromise`: who samples has a chain of its own wishes that has heard
  nobody else; what is allocated is freed once on every path, but for the buffers
  of refused grammars (`BuffersGo` says that none is left).
* `SharePromise`: after a share every sequence holds what its prompt begins with
  and has a token left, and the prefix could not have been longer.
* `DeploymentPromise`: an engine speculates only over a cache that takes drafts
  back; a manifest that writes everything out and is accepted fits its context
  and, where its streams times its drafts fit a word, its batch and its logit
  buffer; the three calculations of `fit` agree.

`AcceptedEnds` and `ServiceAnswers` have a hypothesis each: that it is not the case
for ever that every sequence is held by somebody who left.  Without it they are
false, as `EngineClose` explains: a stream closed before it is staged keeps its
sequence.  Both runs have behaviours in which as many callers leave as there are sequences, so
that the hypothesis matters, and behaviours in which one of two sequences is lost and
the others are answered over what is left.  `RunnerOutlivesUse` speaks of every end of
`serve` but that of a listener lost after it served (`ClosedWhenIdle`).
`BlockedNamesCause` says that the named
task failed and is in front; that it is "the nearest one" (schedule.go:37) is not
checked: it is the first whose failure reached the task.

**Bounds.**  Three requests are enough for one to run, one to wait and one to be
refused or cancelled meanwhile; two sequences for two slots to share a batch
and a donor to share with a borrower; a channel of one event makes every
`emit` block, which a channel of 32 does only after 32 events.  Prompts are one
to four tokens against batches of one to four, so that they are chunked, fill a
batch together with drafts, and straddle the budget.  Two drafts are enough for
all, some or none to be accepted, and for a replay of two tokens that does not
fit beside another stream.  `minSharedPrefix` is 2 instead of 256, the reserve
of output 1 instead of 512.  Two streams and three or four tasks make a task wait
for a permit while its prerequisite fails, and three chunks over two permits do
the same to `Prefill`.  In `Service` one model with one sequence and a queue of
one makes the second client wait or be refused, and the first, who may leave, keep
the sequence from it; with two sequences a full cache takes back what was left
(`Evict`).  One request is streamed with tools or names no model, the other is
buffered: the theorems hold for every kind of body; answers have at most one piece,
so that "all of it" and "none of it" differ.  Texts have up to 64 characters and
up to five chunks and windows as small as a few tokens, so that runts, empty
bridges and a window smaller than its reserve occur.  Of the units of a code graph
only the first may need itself.  A store of two sessions sees
three, over four instants and a life of one.  Vocabularies of five tokens with
strides of two keep the histogram of the sampler shorter than the vocabulary.
`Deployment` has the program's own defaults and least shares.  Symmetry is not
used: the prompts, limits and wishes of the requests differ.

`CHECK_DEADLOCK FALSE` is set where a part may be over: a command that has
ended, a list of claims that is full.  That `Prefill` never stops early is part
of its promise (`NeverStuck`).

**Fairness.**  `EngineLoop` assumes that `Run` takes a step while it has one
(one goroutine that never rests, weak fairness of the whole loop), and that a
caller inside `Submit` goes on to its signal and then keeps receiving: both
handlers of `internal/api` range over `Events` until it is closed.
Nothing is assumed of the choices inside the loop (which slot a range takes,
what is drafted, what is sampled), of callers that cancel, or of `Stop`.
`DecodeState` assumes only that the loop goes on.  `Schedule` assumes that its
own goroutine and each worker go on, not that tasks succeed or that a permit goes
to anybody in particular.  `Service` assumes the same of `serve`, of each handler
and of each engine as it drains and returns; that an engine is done with a slot it
serves, because the answer ends or its client has left (weak fairness of
`EndAnswer`, `EndGone` and `Strand` together: `Run` never rests, and answers are
limited by the window); and that who is in the queue is admitted if again and again a
sequence is free (strong fairness of `Admit`: the queue is first come, first
served).  That a sequence comes back from a client who left is not assumed, since
`Strand` will do; nor is anything of the signal, the clients, the listener or the
faults.
A caller that stops reading without closing its stream blocks the one loop in
`emit`; that is outside these runs, and a hazard of the design.

### Where the code and its documents disagree

Five runs check what a comment or a document says, and TLC shows a behaviour of
the code that contradicts it.

* `EngineClose` (`CloseReleasesSlot`).  engine.go:64 says a closed stream's
  "slot is released on the next tick".  Every pass of `tick` skips a slot whose
  context is done (425, 456, 578), `hasLogits` stays false, and `harvest` skips
  it for that (654) before it looks at the context (657).  The slot is only
  released when the cancellation falls between staging and harvest.  Otherwise
  its sequence is lost until shutdown, and `Run` spins without a pause.  Once that
  has happened to every sequence, nobody who waits is ever admitted.
* `DecodeFull` (`NeverRefused`).  INVARIANTS.md:81 says a full cache means
  "evict a sequence and retry".  `tick` evicts and returns (637-641); the other
  slots have already advanced past the tokens in the batch, which the next tick
  clears.  Their next batch leaves a gap, the backend refuses it, and `Run` ends.
* `DecodeMedia` (`Transparent`).  INVARIANTS.md:101 says the first token comes
  "from the prompt's own logits".  After `PrefillMedia` the slot is `primed` with
  `next` still zero, and pass 1 of the same tick stages that zero token and
  samples behind it.
* `DecodeWindow` (`ContextIsFull`).  INVARIANTS.md:325 says "Speculation must
  not change the output".  Room for drafts is counted against the batch but not
  against the window (538): near its end a stream stages positions the sequence
  has no cells for, and is evicted although its own tokens would have fitted.
  The model takes a sequence's cells as its own share of a split pool
  (INVARIANTS.md:27); in a unified pool with free cells the decode succeeds.
* `Outputs` (`OutputsCover`).  autotune.go:40 says `AutoOutputsMax` "bounds the
  logit buffer by what the engine will actually request".  It is given the
  `max_draft` of the manifest as it was written (serve.go:117-123); where that is
  left out, both drafters take up to four of their own accord (lookup.go:49-51,
  speculative.go:93-95), and two streams that draft ask for more outputs than
  the buffer was made for.

Nine more are stated as definitions that no cfg names, because the properties
of the runs leave room for what the code does there.  Each is refuted within half a minute
when it takes the place of the properties in a cfg: `ClosedWhenIdle` in `Service.cfg`,
`SpanReached` in `Tasks.cfg`, the others in `Libraries.cfg`.

* `ClosedWhenIdle`.  engine.go:332 says `Run` "is the only
  goroutine permitted to touch the Backend", and runner.go:17 that every method is
  expected from it.  When Accept fails after the listener has served, `serve`
  returns at once (390-394) and its deferred calls close the runners under loops
  that decode, without `Registry.Wait`.
* `SpanReached`.  schedule.go:51 and 92 say the peak is the widest
  overlap "actually reached".  It counts goroutines from their launch (189),
  before they hold a stream (195), and so may be more than there are streams.
* `SessionsCapped`.  store.go:59 says `MaxSessions` "bounds how many are
  held at once".  `Put` sweeps first and inserts then (165-172): one more is held
  until the next call.
* `HistoryExact`.  lookup.go:139 says the history "matches what was
  really emitted", and that it has to be exact.  The token of a replay pass, and of
  a pass without room, never enters it (engine.go:501-516, 538-539).
* `PromptsFit`.  sweep.go:209 says a prompt has to fit a share "along
  with what it will generate".  At a depth more is generated (441, 505-511) than the
  check counts (213).
* `GrammarFirst`.  INVARIANTS.md:234 says a grammar "must disable
  every fast path".  It does not disable the narrowing (sampler.go:146), which may
  leave nothing it allows.
* `NarrowingSafe`.  sampler.go:137 says what runs before the
  truncation "can only LOWER a logit".  A request may ask for negative penalties
  (api/types.go:71-73), and then what was cut off is missed.
* `BuffersGo`.  sampler.go:91 has the buffer as a chain's own.
  `NewSampler` allocates it (156-160) before it parses the grammar, and frees only
  the chain where that fails (186).
* `PlanOrdered`.  graph.go:23 says "a real edge always wins over a
  kind".  `applyKindPrior` pushes a group of tests back (269) and leaves what
  depends on it in front.

Of the five, the passing runs keep these apart: `Decode` has neither media nor a full cache
and a window no draft reaches the end of, and `DeploymentPromise` speaks of
manifests that write `streams`, `batch` and `max_draft` out.

Two more properties are stated more narrowly than a reader of the code might expect,
each because the wider form does not hold of it:

* `StopMeansEnded` excepts a client whose engine died: `drain` ends a stream with
  the reason of a cancellation, which the client reads as a normal stop
  (server.go:632).
* `TableWhole` does not say that every larger configuration would have failed as
  well, the reason sweep.go:167-170 gives for skipping it; context and
  speculation vary, too.

## What is proved

For every value of the constants, under the named assumption of each module,
and, for four theorems about tokens, the hypotheses in brackets, which are
explained below.  The assumptions are what the code makes of its inputs:
limits of a store are positive, as `ttl()`, `maxSessions()` and `maxEntries()`
make them (`StoreAssumption`); ids of chunks are integers and there is a permit
(`PrefillAssumption`); sequences are numbered (`RunnerAssumption`); a repeat
penalty is a positive number and there is a vocabulary (`SamplerAssumption`: the
quantities of a chain are whole numbers here); a pattern has a token and a prompt is
not empty (`LookupAssumption`, lookup.go:42-55); a token has a character, and the
tokens of a span and of the wording, which are constants of the code, are not negative
(`VcontextAssumption`); the numbers of a grid are unsigned and a prompt to measure has no
fewer than no tokens (`SweepAssumption`).  What may be negative in the code, such as
a reserve, a context, `repeat_last_n` or a depth of lookup, may be so here.

| Theorem | Module | Property |
|---|---|---|
| `Invariance`, `TypeCorrect` | `EngineLoopTheorems` | `Inv`, `TypeOK` |
| `SequencesConserved` | `EngineLoopTheorems` | `SequenceConserved` |
| `OwnershipSafe` | `EngineLoopTheorems` | `OneOwner` |
| `AnswerBeforeClose` | `EngineLoopTheorems` | `FinalEventFirst` |
| `WakeupsKept` | `EngineLoopTheorems` | `NoLostWakeup` |
| `ShutdownComplete` | `EngineLoopTheorems` | `NobodyLeftBehind` |
| `LimitKept` | `EngineLoopTheorems` | `TokenLimit` |
| `PrefillWaits` | `EngineLoopTheorems` | `DecodeBeforePrefill` |
| `LimitsFit` | `EngineLoopTheorems` | `RoomToFinish`, which no run checks: a request with a limit never runs out of context unless the cache is full, where a sequence has a window of its own |
| `Refinement` | `EngineLoopTheorems` | `ImplementsAdmission` |
| `SamplersOwn` | `DecodeTheorems` | `WindowIsOwn` |
| `Types` | `DecodeTheorems` | `TypeOK` (`ChoosesTokens`, `MediaFits`) |
| `SpeculationIsTransparent` | `DecodeTheorems` | `Transparent` (`ChoosesTokens`, `Media = {}`) |
| `CachesHoldHistory` | `DecodeTheorems` | `CacheHoldsHistory` (`ChoosesTokens`, `Sure`) |
| `BatchesContinue` | `DecodeTheorems` | `NeverRefused` (`ChoosesTokens`, `Sure`) |
| `SortIsSound` | `ScheduleProofs` | `SortSound` |
| `Prerequisites` | `ScheduleProofs` | `PrerequisitesDelivered` |
| `Implementation` | `ScheduleProofs` | `ImplementsTaskOrder` |
| `NamedCause` | `ScheduleProofs` | `BlockedNamesCause` |
| `NoHole` | `ScheduleProofs` | `NothingLeftOut` |
| `ReadingInOrder` | `ScheduleProofs` | `ReadingOrder` |
| `Types` | `ScheduleProofs` | `TypeOK` |
| `HonestRun` | `RuntimeProofs` | `PrefillPromise` |
| `NothingLostUntold` | `RuntimeProofs` | `StorePromise` |
| `ChainsAreOwn` | `RuntimeProofs` | `RunnerPromise` |
| `SharedAreOwn` | `RuntimeProofs` | `SharePromise` |
| `ShortCutsAreSafe` | `RuntimeProofs` | `SamplerPromise` |
| `DraftsAreOwn` | `RuntimeProofs` | `LookupPromise` |
| `ServedAsPlanned` | `PlanningProofs` | `DeploymentPromise` |
| `PlannedAndChecked` | `PlanningProofs` | `CodegraphPromise` |
| `AnsweredWhole` | `CommandProofs` | `MergedIsWhole` |
| `DocumentsWhole` | `CommandProofs` | `DocumentsSound` |
| `SweptWhole` | `CommandProofs` | `SweepPromise` |
| `Invariance` | `ServiceProofs` | `Inv` |
| `TextIsWhole` | `ServiceProofs` | `WholeText` |
| `FinishIsHonest` | `ServiceProofs` | `StopMeansEnded` |
| `RunnersOutlive` | `ServiceProofs` | `RunnerOutlivesUse` |

**The engine's invariant.**  The properties are not inductive by themselves: a
step of `harvest` acts on `cur` and `todo`, and `finish` on `fin`, so what `Run`
holds in its hands must be known to agree with `active`.  `Inv` adds `Control`
(`Place`: what `fin`, `flush` and `closed` are at each `pc`; `Batch`: what is left
to visit is still active and has staged entries), `Counters` (no slot stages more
than its position, a request without a slot has none of it, an accepted request
was admissible) and `Unfinished` (a stream that goes on is below its limit, which
is what keeps a burst of drafts from passing it).  `EngineLoopTheorems` first splits
`Next` into the steps that keep `active`, `free`, `queue` and `outClosed` alone
(`Quiet`), the steps that call `Finish`, and the few that hand a request on; each
conjunct of `Inv` then has one lemma over these cases.

**Two strengthenings.**  `DecodeBeforePrefill` needs `PassInv`: pass 1 has staged
every live stream it has passed, and all of them if room is left.
`RoomToFinish` needs `Window`: while the cache is never full, the position of a
primed slot without what it has staged is its prompt and what it generated,
less one.  With `promptBudget` that puts the limit before the end of the window.
Its hypothesis `"nokv" \notin Faults` also covers drafts past the window: there
the backend reports a full cache.

**Refinement of Admission.**  `waiting` is the queue, `serving` the slots in
`active` and the one `finish` is busy with, `leaving` what `drain` took out of the
queue, `settled` the streams that are closed.  `RoomForOne` counts: a free sequence
means that fewer than `NSeqMax` requests run (a surjection from the occupied
sequences).

**Sort.**  `TakenBefore` is the loop of `Sort` as a function of the level
(`TakenFacts`, from `Recursion`).  What is taken is closed under prerequisites
(`TakenClosed`), nothing of a knot is ever taken (`KnotsStay`), and as many levels
as there are ids are enough (`Saturated`: a level that takes nothing is the last,
and each other one takes at least one more).  So what is left is a knot, and
`Involved` is exactly what is behind the knots.  In an accepted graph the tier
of a task is one more than the greatest of its prerequisites (`TierDeps`), and the
recursion of `CriticalPath` ends because every chain needs chains of earlier
tiers only (`Fixpoint`, `WalkFacts`); by induction over tiers each of them has
one task of every tier up to its own (`ChainStep`), so the longest has one of every
tier there is.

**Schedule.**  The counter `pending` of a task is the number of its dependencies
that have not succeeded, counted as often as they are listed (`Counted`): that is
what makes zero mean that all have, whatever the goroutines do between the locks.
From it a launched task has its prerequisites' outputs, and each step of the
detailed machine is one step of `TaskOrder` or none.  `Left` adds what a run
leaves behind: a blocked task is behind the failure it names (`Caused`), no
dependent of a task without an output is open (`Spread`), and a task that waits,
waits for another (`Launched`).  `NoHole` follows: tasks without a result when all
goroutines are gone would wait for each other, and `Sort` has refused such a
knot.  `ReadingInOrder` folds the results: a list is `Lined` when nothing is in it
twice and no tier comes after a later one; `Only` and the joining of tiers keep it.

**Prefill.**  The invariant says where a worker may be with which result
(`Settled`), what each phase of `Process` has behind it (`Phased`) and which of
the flags a policy can have set (`Told`).  That a complete run has evaluated every
chunk then follows because ids that are dense name every chunk (`DenseCovers`, a
fact about permutations of a finite set).  That the run is never stuck is a case
analysis of the guards: while it has not returned, the loop, the owner, a worker
or the one that waits for them finds its guard true.

**Session store.**  The ghosts of the specification must agree with what is there
(`Agreed`), for a session that has not expired to its caller is then one the sweep
counts when it drops it (`Counted`: what a sweep loses is among what it adds to
`evicted`, `SweepFacts` and `Operation`).

**Runner.**  The invariant is an account: what is allocated is exactly what the
runner has come to, and the buffers that refused grammars left (`Accounted`: `alive`
as a union over the steps of opening), so whatever fails, `Close` frees what is there
but for those buffers, each once.  No two sequences have one
chain (`Apart`); a chain is the default's until a request wants another, and one
whose request has not sampled yet has heard nobody (`Suits`).

**Prefix.**  Each sequence holds what the loop of `Share` has come to: the
prefix in its cells and no other position (`Total` sums what is decoded), and
what is reported saved is the prefix once for every prompt after the first.

**Sampler.**  No more tokens than the window has places are penalised
(`FewRepeated`), so among what the short cut keeps there are `top_k` that nothing has
lowered (`EnoughUntouched`), each above whatever was dropped; and a chain that
draws from the greedy end of them draws what the scan would find.  The proof
showed that `Pool` had been a `CASE` two of whose arms could hold at once (no
temperature and a `top_k`); the code returns before it comes to the second.  It
also needs `WindowCounts`: a `repeat_last_n` below -16, which nothing refuses,
makes sampler.go:147 keep fewer candidates than `top_k` asks for.

**Lookup.**  The history is a stretch of what was heard, and its end unless a
token went by (`Occurs`); trimming keeps an end of it, and a proposal is read
behind an earlier place at which the last tokens occur.

**Codegraph.**  The frames are a path of calls, the stack is what has been seen
and not put into a component, and the least number that can be reached from a
unit is known for those that are finished (the invariant of Tarjan's argument);
a root takes exactly those that reach it and that it reaches.

**Deployment.**  The manifest is validated once and what the probe found out
stays (`Deployed`); the three calculations of what fits on a card are compared by the
arithmetic of rounding up and down (`Floor`, `FloorBound`, `TimesMonotone`).

**Split.**  A piece is never empty, and what lies between two pieces is blank
(`Cover`): by induction over what is left of the text, which the recursion of
`SplitAt` makes shorter with every piece (`Fixpoint`).  Cutting in half what is
left of two pieces gives halves of which both fit a stream (`HalvesFit`); the last
one is no runt if nothing was dropped between them (`NoRunt`).  split.go:150-178
says more, that "neither half can then be a runt".  It can: the blanks between
the two last pieces count when the pair is cut and belong to neither, so
behind a long run of blanks the second half may be as short as before.  `RuntFolded` says
what holds.

**Selection.**  In the order of the text a span has as many others in front of it
as its place says (`InPlaceFacts`), so one more span moves those behind it and adds
what it costs (`SpentMore`): what the loop of `Select` has spent is what the spans
cost in the order they are printed in (`FitsIn`).  The loop of `Sort` keeps spans
that do not touch and hold all before (`MergedTo`); behind a full stop the next
sentence begins at the first character that is not blank (`SentencesFacts`),
between two paragraphs are line breaks (`ParagraphsFacts`), and between two chunks
blanks (`ChunksReach`), so whatever is not blank is in the index (`SegmentAllFacts`).
Until there is an index nothing is selected (`SelectInv`).  The budget is positive,
or `Select` refuses; only therefore is it what is left of a stream, since
`Usable` is never below zero.

**Merge.**  `Conclude` merges only what `Dispatch` has all of; the digests are in
the order of their chunks, so every field has them as its sources, and two
values of a field that no rule collects print alike or are in its conflicts.

**Sweep.**  The invariant has a part for the loops (where the grid, the depth and
the repetition are), one for the rows (each was measured or has its reason), and
one for the file: it is a whole prefix of the rows, wherever the sweep is cut
short.

**DecodeState.**  `WindowIsOwn` needs to know that no two sequences are of one
request (`Apart`) and that a request which was never served has no answer
(`Unserved`): otherwise a request that starts would inherit one.  Between `verify`
and `finish` the window may hold the token that ends an answer, which the sampler
has accepted and nobody gets (`Ending`).

The answers need `CacheInv`, which says for every sequence and every `pc` what its
cells and its recurrent state hold of the text of its request (`History`: prompt
and answer).  Between ticks they hold a prefix of it, and if that ends where the
slot says, the slot goes on from there (`Idle`, `Waiting`, `Going`); while a tick
stages, the batch is the piece of the text, or of the text and the draft, from
there on (`Staged`, `Aimed`), and the snapshot is the state before the draft; once
it is decoded, the cache holds the text and the whole draft (`Read`), until
`verify` has judged it and it is trimmed or rolled back (`Undo`, `Judged`).
A cache that ends elsewhere is one the backend refuses a batch for, so such a
stream ends, but never with a wrong token.  The same invariant, made exact by
`Sure`, leaves no such cache.

The hypotheses: `ChoosesTokens`, that the model chooses tokens; `MediaFits`, that the
embeddings of an image fit the context; `Media = {}`, no images; `Sure`, no images,
no full cache (`"nokv" \notin Faults`) and room for the prompt, the answer and a
draft in the window of a sequence.  `Decode` satisfies all of them; `DecodeMedia`
and `DecodeFull` show that the images and the full cache break what is
proved without them.

**Service.**  The invariant has a part for `serve` (`Stage`: where it is says what
can still go on) and one for each request (`Sound`), a relation between the record
of its handler and of its stream: what is still in the channel goes on
where the handler is (`Continues`), what was emitted is what was heard and what is
there (`Accounted`), and once all is read the handler knows why it ended, or the
client is gone, or the answer failed (`Learnt`).  A step changes the records of one
request, `Drain` those of one model.  A client that left is told nothing for certain,
so what is said of its text and of its reason is said of clients that stay.  Where
`serve` returns and the listener was not lost, no handler ever came or every loop
has ended, which is what `RunnersOutlive` needs of `Stage`.

**Induction.**  The library's induction theorems take an operator, which no
installed prover can instantiate, so induction is proved from the existence of a
smallest member of a family of finite sets (`SmallestSet`, `SmallestNumber`,
`Induct`).  `Recursion` and `Fixpoint` give the functions that `LET f[n] == ...`
chooses: the first by its steps, the second for every recursion whose values need
those of earlier levels.  `FoldExists` and `FoldLoop` say what the folds of the
community modules compute.  Facts with an operator as a parameter are stated with a
function or a named predicate in its place.

Liveness under fairness and `ENABLED` are out of the prover's reach and stay with
TLC: `AcceptedEnds`, `StopEnds`, `AnswerEnds`, `ScheduleReturns`, `ServiceAnswers`,
and that the commands in `Libraries` end.  Every other property of a passing run has a
theorem.  Of the runs that show a disagreement nothing is proved: what they check is
false of the code.

## What is not modelled

* **Numbers and text of the model.**  The weights, the distribution a sampler
  draws from, top-p and min-p; a piece of text is complete or not, a stop
  sequence matches or not; the wording of prompts, headings and HTTP bodies.
* **Canonical forms** (`vcontext`: canonical text and symbols; `codegraph`: parsing
  Go, cutting at declarations, normal forms).  They are sequential functions of
  strings, which the models abstract: a symbol or a signature stands for its
  normal form.
* **Runners of vcontext**, `gguf`, `hostinfo`, `catalog` and the C++ shim: adapters
  and readers without state of their own.
* **Engine statistics, logging and `bench`**: counters and timings nothing reads
  back into a decision.
* **The rest of the cgo binding**: batches in C memory, strings, and everything
  llama.cpp does behind them.  What `seq_cp` does to a recurrent state is
  decided there: engine.go shares whatever the cache is, and `Pass1End` models
  the sharing of caches of positions only.
* **A share that copies a part of its cells** (prefixshare.go:72), and a handler
  held up by a client that takes no more bytes.
* **Words of 64 bits.**  The products of a manifest that Go takes in 32 bits wrap as
  they do there (`Word`); that the one of `AutoOutputsMax` (autotune.go:59), taken in
  an `int`, may pass 64 is not modelled.
* **The requests of the self-test**, which have ended when the listener starts.
* **Calls of the library that can only have one outcome behind another**: the cut
  behind a restored snapshot succeeds, the one behind a failed rollback does not.
* **The endpoints that only report** (health, info, metrics, models), and `Names`
  and `Health` of the registry, which read the same state.
* **Command-line flags and output**, and the commands besides `serve`, `sweep`,
  `fit` and `vcontext`.
