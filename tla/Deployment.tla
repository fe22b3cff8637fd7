----------------------------- MODULE Deployment -----------------------------
(***************************************************************************)
(* From a line of the manifest to an engine that serves                    *)
(* (internal/manifest, cmd/llama-herd/serve.go): Parse validates what was  *)
(* written and only then fills in what was not, runnerConfig bounds the    *)
(* logit buffer, CanSeqRm measures what the cache can take back, and a     *)
(* drafter is opened if it can.  One model; its name, its path and what a  *)
(* device is given are left out.                                           *)
(***************************************************************************)
EXTENDS Integers, FiniteSets, FiniteSetsExt

CONSTANTS
  Manifests,    \* [context, streams, batch, admit, unified, quantized, flash, loadMTP, spec, draft]
  LeastShare,   \* 256
  DefaultBatch, \* 2048
  DefaultDraft, \* 4
  LeastOutputs, \* 8
  Word          \* 2^32: what an unsigned number of a manifest is counted in

\* What a manifest is before anything is validated.
ManifestRecord ==
  [context : 0 .. Word - 1, streams : 0 .. Word - 1, batch : 0 .. Word - 1,
   admit : 0 .. Word - 1, unified : BOOLEAN, quantized : BOOLEAN, flash : BOOLEAN,
   loadMTP : BOOLEAN, spec : {"absent", "none", "lookup", "mtp"}, draft : Int]

ASSUME ManifestAssumption ==
  /\ \A m \in Manifests : m \in ManifestRecord
  /\ Word \in Nat \ {0} /\ LeastOutputs \in 0 .. Word - 1

VARIABLES
  written,
  model,       \* what Parse made of it
  cache,       \* the library: "trims", "recurrent", "none"
  support,     \* what CanSeqRm says, "unasked" before
  drafter,     \* [kind, max]
  needsRewind,
  outputs,     \* NOutputsMax, 0: the library's own
  deployed        \* "written", "refused", "accepted", "loaded", "probed", "serving"

deploymentVars == <<written, model, cache, support, drafter, needsRewind, outputs, deployed>>

NoDrafter == [kind |-> "none", max |-> 0]

DeploymentInit ==
  /\ written \in Manifests /\ model = written
  /\ cache \in {"trims", "recurrent", "none"} /\ support = "unasked"
  /\ drafter = NoDrafter /\ needsRewind = FALSE /\ outputs = 0
  /\ deployed = "written"

---------------------------------------------------------------------------
(* Parse: Validate and applyDefaults.                                        *)

Speculates(m) == m.spec \in {"lookup", "mtp"}

\* The room of a full herd and its drafts, in one word.
DraftsFit(m) ==
  m.draft > 0 /\ m.streams > 0 /\ m.batch > 0 =>
    (m.streams * ((m.draft + 1) % Word)) % Word <= m.batch

PoolFits(m) ==
  m.unified /\ m.streams > 1 => m.admit > 0 /\ m.admit * m.streams <= m.context

AdmitFits(m) == m.admit > 0 /\ m.streams > 0 => m.admit <= m.context \div m.streams

Validate(m) ==
  /\ m.context > 0
  /\ m.quantized => m.flash
  /\ m.spec = "mtp" => m.loadMTP
  /\ m.spec # "absent" => DraftsFit(m)
  /\ m.streams > 0 /\ m.batch > 0 => m.batch >= m.streams
  /\ m.streams > 0 => m.context \div m.streams >= LeastShare
  /\ PoolFits(m)
  /\ AdmitFits(m)

ApplyDefaults(m) ==
  [m EXCEPT !.streams = IF @ = 0 THEN 1 ELSE @, !.batch = IF @ = 0 THEN DefaultBatch ELSE @]

Parse ==
  /\ deployed = "written"
  /\ IF Validate(written) THEN deployed' = "accepted" /\ model' = ApplyDefaults(written)
     ELSE deployed' = "refused" /\ UNCHANGED model
  /\ UNCHANGED <<written, cache, support, drafter, needsRewind, outputs>>

---------------------------------------------------------------------------
(* serve, for one model.                                                     *)

\* Counted in an int, and returned in one word.
AutoOutputsMax(streams, draft, everywhere) ==
  IF everywhere \/ streams < 1 THEN 0
  ELSE Max({LeastOutputs, streams * (1 + Max({draft, 0}))}) % Word

\* runnerConfig.
LoadModel ==
  /\ deployed = "accepted"
  /\ outputs' = AutoOutputsMax(model.streams, IF Speculates(model) THEN model.draft ELSE 0,
                               model.spec = "mtp")
  /\ deployed' = "loaded"
  /\ UNCHANGED <<written, model, cache, support, drafter, needsRewind>>

\* Two tokens are decoded and the second is removed.
CanSeqRm ==
  \/ cache = "none" /\ support' = "none"
  \/ cache = "trims" /\ support' = "partial"
  \/ cache = "recurrent" /\ support' = "whole"
  \/ support' = "none" \* the decode failed

\* Changed: snapshots are only taken for a cache that can be trimmed.
ProbeTrims ==
  /\ deployed = "loaded"
  /\ IF Speculates(model) THEN CanSeqRm ELSE UNCHANGED support
  /\ needsRewind' = (support' = "partial")
  /\ deployed' = "probed"
  /\ UNCHANGED <<written, model, cache, drafter, outputs>>

Probe ==
  /\ deployed = "loaded"
  /\ IF Speculates(model) THEN CanSeqRm ELSE UNCHANGED support
  /\ needsRewind' = (support' = "whole")
  /\ deployed' = "probed"
  /\ UNCHANGED <<written, model, cache, drafter, outputs>>

\* Both drafters take a bound of their own for one that is not given; a head may
\* turn out to be missing.
OpenDrafter ==
  /\ deployed = "probed"
  /\ deployed' = "serving"
  /\ LET new == [kind |-> model.spec, max |-> IF model.draft < 1 THEN DefaultDraft ELSE model.draft]
     IN IF Speculates(model) /\ support # "none"
        THEN drafter' = new \/ (model.spec = "mtp" /\ UNCHANGED drafter)
        ELSE UNCHANGED drafter
  /\ UNCHANGED <<written, model, cache, support, needsRewind, outputs>>

DeploymentNext == Parse \/ LoadModel \/ Probe \/ OpenDrafter

---------------------------------------------------------------------------

\* The most positions of a pass whose logits the engine asks for, one for every
\* stream and every token it drafts.
Asked == model.streams * (1 + drafter.max)

\* Nothing is left to defaults that are filled in behind the validation.
Explicit == written.streams > 0 /\ written.batch > 0 /\ (Speculates(written) => written.draft > 0)

\* Nor is a herd with its drafts more than a word counts.
Countable == Speculates(written) => written.streams * (written.draft + 1) < Word

\* An engine speculates only over a cache that can take drafts back, with snapshots
\* where positions do not (serve.go:188-203).  Where the fields that others are
\* checked against were written out and accepted, no stream is admitted to more
\* context than all of them have, and where their product fits its word a full herd
\* and all its drafts go through one batch and one logit buffer (manifest.go:298-348).
ServesWhatItCan ==
  deployed = "serving" =>
    /\ drafter # NoDrafter => cache = "trims" \/ (cache = "recurrent" /\ needsRewind)
    /\ Explicit => model.admit * model.streams <= model.context
    /\ Explicit /\ Countable =>
         /\ Asked <= model.batch
         /\ outputs = 0 \/ Asked <= outputs

\* "AutoOutputsMax bounds the logit buffer by what the engine will actually request"
\* (autotune.go:40), whatever the manifest leaves out.
OutputsSuffice == deployed = "serving" => outputs = 0 \/ Asked <= outputs
=============================================================================
