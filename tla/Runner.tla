------------------------------- MODULE Runner -------------------------------
(***************************************************************************)
(* The runner (internal/llama/runner.go) as the owner of what the library  *)
(* allocates: weights, context, batch, projector and one sampler chain for *)
(* every sequence, which SetSampling replaces for a request that asks for  *)
(* something of its own.  Every step of opening may fail.  A chain comes   *)
(* and goes with its candidate buffer, except where NewSampler gives up    *)
(* between the two (sampler.go:155-188).                                   *)
(***************************************************************************)
EXTENDS Integers, Sequences, FiniteSets, FiniteSetsExt, Functions

CONSTANTS
  Seqs,      \* 1 .. n: the sequences
  Default,   \* the sampling of the manifest
  Overrides, \* what requests ask for: some of its fields, or none
  MaxChains, \* bound: chains built
  MaxServed  \* bound: requests

ASSUME RunnerAssumption ==
  /\ IsFiniteSet(Seqs) /\ Seqs = 1 .. Cardinality(Seqs)
  /\ Default = [f \in DOMAIN Default |-> Default[f]] /\ "grammar" \in DOMAIN Default

VARIABLES
  owns,    \* OpenRunner loaded the weights; else they are the caller's
  vision,  \* the manifest names a projector
  step,    \* "load", "context", "chains", "vision", "batch", "ready", "failing", "gone"
  alive,   \* what is allocated and not freed
  refused, \* grammars that did not parse so far
  misuse,  \* something was freed twice or used when freed
  chain,   \* samplers: the chain of a sequence, 0 for none
  built,   \* the parameters of every chain built
  heard,   \* the requests whose tokens a chain has accepted since its reset
  custom,
  served,  \* requests so far
  request  \* [Seqs -> [id, wants, set]], id 0 when the sequence is free

runnerVars == <<owns, vision, step, alive, refused, misuse, chain, built, heard, custom, served,
                request>>

\* What is allocated; a chain stands for its candidate buffer, too, which Free
\* frees with it, and Buffer(n) is the one the n-th refused grammar left behind.
Weights == <<"weights">>
Context == <<"context">>
Vision == <<"vision">>
Batch == <<"batch">>
Chain(n) == <<"chain", n>>
Buffer(n) == <<"buffer", n>>

Free == [id |-> 0, wants |-> <<>>, set |-> FALSE]

RunnerInit ==
  /\ owns \in BOOLEAN /\ vision \in BOOLEAN
  /\ step = IF owns THEN "load" ELSE "context"
  /\ alive = IF owns THEN {} ELSE {Weights}
  /\ misuse = FALSE /\ refused = 0
  /\ chain = [s \in Seqs |-> 0] /\ built = <<>> /\ heard = <<>>
  /\ custom = [s \in Seqs |-> FALSE] /\ request = [s \in Seqs |-> Free] /\ served = 0

Objects == <<alive, refused, misuse>>
Chains == <<chain, built, heard>>

\* Several at once; freeing what is not there is noted.
FreeAll(what) ==
  /\ alive' = alive \ what /\ misuse' = (misuse \/ ~(what \subseteq alive))
  /\ UNCHANGED refused

---------------------------------------------------------------------------
(* OpenRunner and OpenRunnerWithModel.                                       *)

Allocate(what) == alive' = alive \cup {what} /\ UNCHANGED <<refused, misuse>>

Load ==
  /\ step = "load"
  /\ \/ step' = "context" /\ Allocate(Weights)
     \/ step' = "gone" /\ UNCHANGED Objects
  /\ UNCHANGED <<owns, vision, served, Chains, custom, request>>

\* NewContext; without one there is no runner to close.
NewContext ==
  /\ step = "context"
  /\ \/ step' = "chains" /\ Allocate(Context)
     \/ step' = "failing" /\ UNCHANGED Objects
  /\ UNCHANGED <<owns, vision, served, Chains, custom, request>>

Build(p) ==
  /\ Len(built) < MaxChains
  /\ built' = Append(built, p) /\ heard' = Append(heard, {})

Missing == {s \in Seqs : chain[s] = 0}

\* What the fields of the runner name, which is what Close frees: the weights only
\* once the runner is OpenRunner's.
Held ==
  {Context} \cup {Chain(chain[s]) : s \in Seqs \ Missing}
  \cup (IF vision /\ step \in {"batch", "ready"} THEN {Vision} ELSE {})
  \cup (IF step = "ready" THEN {Batch} ELSE {})
  \cup (IF step = "ready" /\ owns THEN {Weights} ELSE {})

\* The buffers that are left when NewSampler(p) gives up: none if there is no
\* chain, and one if its grammar does not parse, when only the chain is freed.
Leftovers(p) == {0} \cup IF p.grammar THEN {1} ELSE {}

Stranded == {Buffer(n) : n \in 1 .. refused}

\* Of what is allocated only what keep has, and left buffers more.
Strand(keep, left) ==
  /\ refused' = refused + left
  /\ alive' = keep \cup {Buffer(refused + n) : n \in 1 .. left}

\* A step of opening failed behind the context: Close frees what there is.
Abandon(left) ==
  /\ Strand(alive \ Held, left) /\ misuse' = (misuse \/ ~(Held \subseteq alive))
  /\ chain' = [s \in Seqs |-> 0]
  /\ step' = "failing"
  /\ UNCHANGED <<built, heard>>

NewChain ==
  /\ step = "chains" /\ Missing # {}
  /\ \/ /\ Build(Default)
        /\ chain' = [chain EXCEPT ![Min(Missing)] = Len(built')]
        /\ Allocate(Chain(Len(built'))) /\ UNCHANGED step
     \/ \E left \in Leftovers(Default) : Abandon(left)
  /\ UNCHANGED <<owns, vision, served, custom, request>>

ChainsBuilt ==
  /\ step = "chains" /\ Missing = {}
  /\ step' = IF vision THEN "vision" ELSE "batch"
  /\ UNCHANGED <<owns, vision, served, Objects, Chains, custom, request>>

OpenVision ==
  /\ step = "vision"
  /\ \/ step' = "batch" /\ Allocate(Vision) /\ UNCHANGED Chains
     \/ Abandon(0)
  /\ UNCHANGED <<owns, vision, served, custom, request>>

NewBatch ==
  /\ step = "batch"
  /\ step' = "ready" /\ Allocate(Batch)
  /\ UNCHANGED <<owns, vision, served, Chains, custom, request>>

\* OpenRunner frees the weights of a runner that did not come about.
OpenFailed ==
  /\ step = "failing"
  /\ FreeAll(IF owns THEN {Weights} ELSE {})
  /\ step' = "gone"
  /\ UNCHANGED <<owns, vision, served, Chains, custom, request>>

---------------------------------------------------------------------------
(* A request on a sequence, as the engine uses the runner.                   *)

Merged(wants) == [f \in DOMAIN Default |-> IF f \in DOMAIN wants THEN wants[f] ELSE Default[f]]

\* Changed: a request that asks for nothing takes the chain it finds.
StaysAny(s) == request[s].wants = <<>>

\* A request that asks for nothing keeps a chain that is the default's.
Stays(s) == request[s].wants = <<>> /\ ~custom[s]

Admit(s) ==
  /\ step = "ready" /\ request[s].id = 0 /\ served < MaxServed
  /\ served' = served + 1
  /\ \E w \in Overrides :
       request' = [request EXCEPT ![s] = [id |-> served', wants |-> w, set |-> FALSE]]
  /\ UNCHANGED <<owns, vision, step, Objects, Chains, custom>>

\* SetSampling, before the first sample of the request.
SetSampling(s) ==
  /\ step = "ready" /\ request[s].id > 0 /\ ~request[s].set
  /\ request' = [request EXCEPT ![s].set = TRUE]
  /\ IF Stays(s) THEN UNCHANGED <<Objects, Chains, custom>>
     ELSE /\ Build(Merged(request[s].wants))
          /\ alive' = (alive \cup {Chain(Len(built'))}) \ {Chain(chain[s])}
          /\ misuse' = (misuse \/ Chain(chain[s]) \notin alive)
          /\ UNCHANGED refused
          /\ chain' = [chain EXCEPT ![s] = Len(built')]
          /\ custom' = [custom EXCEPT ![s] = request[s].wants # <<>>]
  /\ UNCHANGED <<owns, vision, served, step>>

Released(s) ==
  /\ heard' = [heard EXCEPT ![chain[s]] = {}]
  /\ request' = [request EXCEPT ![s] = Free]

\* NewSampler refuses, a grammar that does not parse for instance: the sequence
\* keeps the chain it had and the engine ends the request.
SetSamplingFails(s) ==
  /\ step = "ready" /\ request[s].id > 0 /\ ~request[s].set /\ ~Stays(s)
  /\ Released(s)
  /\ \E left \in Leftovers(Merged(request[s].wants)) : Strand(alive, left)
  /\ UNCHANGED <<owns, vision, served, step, misuse, chain, built, custom>>

SampleAt(s) ==
  /\ step = "ready" /\ request[s].set
  /\ heard' = [heard EXCEPT ![chain[s]] = @ \cup {request[s].id}]
  /\ misuse' = (misuse \/ ~({Chain(chain[s]), Context} \subseteq alive))
  /\ UNCHANGED <<owns, vision, served, step, alive, refused, chain, built, custom, request>>

\* FreeSeq: the chain is reset and stays.
FreeSeq(s) ==
  /\ step = "ready" /\ request[s].id > 0
  /\ Released(s)
  /\ UNCHANGED <<owns, vision, served, step, Objects, chain, built, custom>>

CloseRunner ==
  /\ step = "ready" /\ \A s \in Seqs : request[s].id = 0
  /\ FreeAll(Held) /\ chain' = [s \in Seqs |-> 0]
  /\ step' = "gone"
  /\ UNCHANGED <<owns, vision, served, built, heard, custom, request>>

RunnerNext ==
  \/ Load \/ NewContext \/ NewChain \/ ChainsBuilt \/ OpenVision \/ NewBatch \/ OpenFailed
  \/ CloseRunner
  \/ \E s \in Seqs : \/ Admit(s) \/ SetSampling(s) \/ SetSamplingFails(s) \/ SampleAt(s)
                     \/ FreeSeq(s)

---------------------------------------------------------------------------

\* Whoever samples has a chain to itself, built of the defaults and its own wishes,
\* that has heard nobody else (runner.go:26-28, 59-61, 535-538).
ChainIsOwn ==
  \A s \in Seqs :
    /\ request[s].set => /\ built[chain[s]] = Merged(request[s].wants)
                         /\ heard[chain[s]] \subseteq {request[s].id}
    /\ step = "ready" => \A q \in Seqs : q # s => chain[q] # chain[s]

\* What was allocated is freed once on every path, but for weights that belong to
\* the caller and for the buffers of refused grammars (NothingStranded), and nothing
\* is used behind that (runner.go:41-44, 117-119, 211).
FreedOnce ==
  /\ ~misuse
  /\ step = "gone" => alive \ Stranded = IF owns THEN {} ELSE {Weights}

\* "cur is this chain's candidate buffer" (sampler.go:92), and a runner that is gone
\* has no chain left.
NothingStranded == step = "gone" => \A n \in 1 .. refused : Buffer(n) \notin alive

RunnerSound == ChainIsOwn /\ FreedOnce
=============================================================================
