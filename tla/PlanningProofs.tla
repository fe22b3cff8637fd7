--------------------------- MODULE PlanningProofs ---------------------------
(***************************************************************************)
(* What is decided before anything runs, for every value of the constants: *)
(* what a manifest gets and a card holds, the plan for a set of code       *)
(* units, the check between chunks and that between tiers.                 *)
(***************************************************************************)
EXTENDS Libraries, Induction, FiniteSetTheorems, TLAPS

---------------------------------------------------------------------------
(* A manifest.                                                               *)

\* What every stage of a deployment has behind it.
Deployed ==
  /\ written \in ManifestRecord
  /\ deployed \in {"written", "refused", "accepted", "loaded", "probed", "serving"}
  /\ deployed \in {"accepted", "loaded", "probed", "serving"} =>
       Validate(written) /\ model = ApplyDefaults(written)
  /\ deployed \in {"loaded", "probed", "serving"} =>
       outputs = AutoOutputsMax(model.streams, IF Speculates(model) THEN model.draft ELSE 0,
                                model.spec = "mtp")
  /\ deployed \in {"probed", "serving"} =>
       /\ Speculates(model) /\ support # "none" =>
            cache = "trims" \/ (cache = "recurrent" /\ needsRewind)
  /\ deployed # "serving" => drafter = NoDrafter
  /\ drafter # NoDrafter =>
       /\ Speculates(model) /\ support # "none"
       /\ model.draft > 0 => drafter.max = model.draft

LEMMA DeployedInit == DeploymentInit => Deployed
  BY ManifestAssumption DEF DeploymentInit, Deployed

LEMMA DeployedNext == Deployed /\ DeploymentNext => Deployed'
<1> SUFFICES ASSUME Deployed, DeploymentNext PROVE Deployed'
  OBVIOUS
<1>1. CASE Parse
  BY <1>1 DEF Parse, Deployed
<1>2. CASE LoadModel
  BY <1>2 DEF LoadModel, Deployed
<1>3. CASE Probe
  <2>1. /\ deployed = "loaded" /\ deployed' = "probed"
        /\ UNCHANGED <<written, model, cache, drafter, outputs>>
        /\ Speculates(model) => CanSeqRm
        /\ needsRewind' = (support' = "whole")
    BY <1>3 DEF Probe
  <2>2. Speculates(model) /\ support' # "none" =>
          cache = "trims" \/ (cache = "recurrent" /\ support' = "whole")
    BY <2>1 DEF CanSeqRm
  <2>3. Speculates(model) /\ support' # "none" =>
          cache' = "trims" \/ (cache' = "recurrent" /\ needsRewind')
    <3>1. cache' = cache
      BY <2>1
    <3>2. (support' = "whole") => needsRewind'
      BY <2>1
    <3> QED
      BY <2>2, <3>1, <3>2
  <2> QED
    BY <2>1, <2>3 DEF Deployed, Speculates
<1>4. CASE OpenDrafter
  <2> DEFINE new == [kind |-> model.spec,
                     max |-> IF model.draft < 1 THEN DefaultDraft ELSE model.draft]
  <2>1. /\ deployed = "probed" /\ deployed' = "serving"
        /\ UNCHANGED <<written, model, cache, support, needsRewind, outputs>>
        /\ drafter' # drafter => drafter' = new /\ Speculates(model) /\ support # "none"
    BY <1>4 DEF OpenDrafter
  <2>2. drafter = NoDrafter
    BY <2>1 DEF Deployed
  <2>3. model.draft \in Int
    BY <2>1 DEF Deployed, ApplyDefaults, ManifestRecord
  <2>4. drafter' # NoDrafter =>
          /\ Speculates(model) /\ support # "none"
          /\ model.draft > 0 => drafter'.max = model.draft
    BY <2>1, <2>2, <2>3
  <2> HIDE DEF new
  <2> QED
    BY <2>1, <2>4 DEF Deployed, Speculates
<1> QED
  BY <1>1, <1>2, <1>3, <1>4 DEF DeploymentNext

LEMMA WrittenOut ==
  ASSUME NEW m \in ManifestRecord, m.streams > 0, m.batch > 0
  PROVE  ApplyDefaults(m) = m
<1>1. m.streams # 0 /\ m.batch # 0
  BY DEF ManifestRecord
<1>2. m = [m EXCEPT !.streams = m.streams] /\ m = [m EXCEPT !.batch = m.batch]
  BY DEF ManifestRecord
<1> QED
  BY <1>1, <1>2 DEF ApplyDefaults

\* What fits a word is what it is counted as.
LEMMA FitsWord ==
  ASSUME NEW n \in Nat, n < Word
  PROVE  n % Word = n
<1>1. PICK w \in Nat \ {0} : w = Word
  BY ManifestAssumption
<1>2. n < w => n % w = n
  OBVIOUS
<1> QED
  BY <1>1, <1>2

LEMMA OutputsBound ==
  ASSUME NEW s \in Nat \ {0}, NEW d \in Nat, NEW everywhere, s * (1 + d) < Word
  PROVE  LET most == AutoOutputsMax(s, d, everywhere)
         IN most \in Int /\ (most = 0 \/ s * (1 + d) <= most)
<1>1. Max({d, 0}) = d
  <2>1. d \in Int /\ 0 \in Int
    OBVIOUS
  <2>2. Max({d, 0}) \in {d, 0} /\ Max({d, 0}) >= d /\ Max({d, 0}) >= 0
    BY ONLY <2>1, MaxOfTwo
  <2> QED
    BY <2>2
<1>2. s * (1 + d) \in Int
  OBVIOUS
<1>3. Max({LeastOutputs, s * (1 + d)}) \in Int /\ Max({LeastOutputs, s * (1 + d)}) >= s * (1 + d)
  BY <1>2, MaxOfTwo, ManifestAssumption
<1>4. \/ AutoOutputsMax(s, d, everywhere) = 0
      \/ AutoOutputsMax(s, d, everywhere) = Max({LeastOutputs, s * (1 + d)}) % Word
  BY <1>1, Zenon DEF AutoOutputsMax
<1>5. PICK m : m = Max({LeastOutputs, s * (1 + d)})
  OBVIOUS
<1>6. m \in {LeastOutputs, s * (1 + d)}
  <2>1. LeastOutputs \in Int
    BY ManifestAssumption
  <2> QED
    BY ONLY <1>2, <1>5, <2>1, MaxOfTwo
<1>7. m \in Nat /\ m < Word /\ m >= s * (1 + d)
  <2>1. PICK p \in Nat : p = s * (1 + d)
    OBVIOUS
  <2>2. p < Word /\ m >= p /\ m \in {LeastOutputs, p}
    BY <1>3, <1>5, <1>6, <2>1
  <2>3. LeastOutputs \in Nat /\ LeastOutputs < Word /\ Word \in Nat
    BY ManifestAssumption
  <2> QED
    BY <2>1, <2>2, <2>3
<1>8. m % Word = m
  BY <1>7, FitsWord
<1>9. PICK most : most = AutoOutputsMax(s, d, everywhere)
  OBVIOUS
<1>10. most = 0 \/ most = m
  BY <1>4, <1>5, <1>8, <1>9
<1>11. most \in Int /\ (most = 0 \/ s * (1 + d) <= most)
  BY <1>7, <1>10
<1> QED
  BY <1>9, <1>11, Zenon

LEMMA SharesFit ==
  ASSUME NEW s \in Nat \ {0}, NEW total \in Nat, NEW share \in Int,
         share > 0 => share <= total \div s
  PROVE  share * s <= total
<1>1. CASE share > 0
  <2>1. total \div s \in Int /\ s * (total \div s) <= total
    BY Floor
  <2>2. s * share <= s * (total \div s) /\ s * share \in Int /\ s * (total \div s) \in Int
    BY <1>1, <2>1, TimesMonotone
  <2>3. share * s = s * share
    OBVIOUS
  <2> QED
    BY <2>1, <2>2, <2>3
<1>2. CASE share <= 0
  <2>1. s * share <= s * 0 /\ s * share \in Int
    BY <1>2, TimesMonotone
  <2>2. share * s = s * share /\ s * 0 = 0
    OBVIOUS
  <2> QED
    BY <2>1, <2>2
<1> QED
  BY <1>1, <1>2

LEMMA DeployedServes == Deployed => ServesWhatItCan
<1> SUFFICES ASSUME Deployed, deployed = "serving" PROVE ServesWhatItCan
  BY DEF ServesWhatItCan
<1>1. /\ written \in ManifestRecord /\ Validate(written) /\ model = ApplyDefaults(written)
      /\ outputs = AutoOutputsMax(model.streams, IF Speculates(model) THEN model.draft ELSE 0,
                                  model.spec = "mtp")
  BY DEF Deployed
<1>2. drafter # NoDrafter => cache = "trims" \/ (cache = "recurrent" /\ needsRewind)
  BY DEF Deployed
<1>3. ASSUME Explicit PROVE model = written
  BY <1>1, <1>3, WrittenOut DEF Explicit, ManifestRecord
<1>4. ASSUME Explicit PROVE model.admit * model.streams <= model.context
  <2>1. PICK s \in Nat \ {0} : s = written.streams
    BY <1>1, <1>4 DEF Explicit, ManifestRecord
  <2>2. written.context \in Nat /\ written.admit \in Int
    BY <1>1 DEF ManifestRecord
  <2>3. written.admit > 0 => written.admit <= written.context \div s
    BY <1>1, <2>1 DEF Validate, AdmitFits
  <2>4. written.admit * s <= written.context
    BY <2>2, <2>3, SharesFit
  <2> QED
    BY <1>3, <1>4, <2>1, <2>4
<1>5. ASSUME Explicit, Countable
      PROVE  /\ Asked <= model.batch
             /\ outputs = 0 \/ Asked <= outputs
  <2>1. model = written
    BY <1>3, <1>5
  <2>2. PICK s \in Nat \ {0} : s = written.streams
    BY <1>1, <1>5 DEF Explicit, ManifestRecord
  <2>3. written.batch \in Nat \ {0} /\ written.draft \in Int
    BY <1>1, <1>5 DEF Explicit, ManifestRecord
  <2>4. PICK d \in Nat : d = IF Speculates(written) THEN written.draft ELSE 0
    BY <1>5, <2>3 DEF Explicit
  <2>5. drafter = NoDrafter \/ (Speculates(written) /\ drafter.max = d)
    BY <1>5, <2>1, <2>4 DEF Explicit, Deployed
  <2>6. drafter.max \in Int /\ drafter.max <= d
    BY <2>5 DEF NoDrafter
  <2>7. s * (1 + drafter.max) \in Int /\ s * (1 + drafter.max) <= s * (1 + d) /\ s * (1 + d) \in Int
    <3>1. s \in Nat /\ 1 + drafter.max \in Int /\ 1 + d \in Int /\ 1 + drafter.max <= 1 + d
      BY <2>6
    <3> QED
      BY ONLY <3>1, TimesMonotone
  <2>8. s * (1 + d) <= written.batch /\ s * (1 + d) < Word
    <3>1. CASE Speculates(written)
      <4>1. written.draft > 0 /\ d = written.draft
        BY <1>5, <2>4, <3>1 DEF Explicit
      <4>2. PICK e \in Nat : e = written.draft + 1
        BY <2>3, <4>1
      <4>3. s * e \in Nat /\ s * e < Word
        BY <1>5, <2>2, <3>1, <4>2 DEF Countable
      <4>4. 1 <= s /\ e <= s * e
        <5>1. e \in Nat /\ 1 \in Int /\ s \in Int /\ 1 <= s
          OBVIOUS
        <5>2. e * 1 <= e * s
          BY ONLY <5>1, TimesMonotone
        <5> QED
          BY <5>1, <5>2
      <4>5. e % Word = e
        <5>1. e < Word
          BY <4>3, <4>4, ManifestAssumption
        <5> QED
          BY <5>1, FitsWord
      <4>6. (s * e) % Word = s * e
        BY <4>3, FitsWord
      <4>7. (s * (e % Word)) % Word <= written.batch
        BY <1>1, <2>2, <2>3, <3>1, <4>1, <4>2 DEF Validate, DraftsFit, Speculates
      <4>8. e = 1 + d
        BY <2>3, <4>1, <4>2
      <4>9. s * e <= written.batch
        BY <4>5, <4>6, <4>7
      <4> QED
        BY <4>3, <4>8, <4>9
    <3>2. CASE ~Speculates(written)
      <4>1. s <= written.batch
        BY <1>1, <2>2, <2>3 DEF Validate
      <4>2. s < Word
        BY <1>1, <2>2, ManifestAssumption DEF ManifestRecord
      <4>3. s * (1 + d) = s
        BY <2>4, <3>2
      <4> QED
        BY <4>1, <4>2, <4>3
    <3> QED
      BY <3>1, <3>2
  <2>9. outputs \in Int /\ (outputs = 0 \/ s * (1 + d) <= outputs)
    <3>1. outputs = AutoOutputsMax(s, d, written.spec = "mtp")
      BY <1>1, <2>1, <2>2, <2>4
    <3> QED
      BY <2>8, <3>1, OutputsBound
  <2>10. Asked = s * (1 + drafter.max) /\ model.batch = written.batch
    BY <2>1, <2>2 DEF Asked
  <2> QED
    BY <2>3, <2>7, <2>8, <2>9, <2>10
<1> QED
  BY <1>2, <1>4, <1>5 DEF ServesWhatItCan

---------------------------------------------------------------------------
(* What fits on a card.                                                      *)

LEMMA Positive ==
  ASSUME NEW a \in Nat \ {0}, NEW b \in Nat \ {0}
  PROVE  a * b \in Nat \ {0}
  OBVIOUS

\* What a file and a card may be.
CapacityTyped ==
  /\ in \in [shape : Shapes, mtp : Heads, speculate : BOOLEAN, weights : WeightSizes,
             vram : Cards, overhead : Overheads]
  /\ target \in [streams : Int, perStream : Nat]

LEMMA CapacityTypedInit == CapacityInit => CapacityTyped
  BY DEF CapacityInit, CapacityTyped

LEMMA CapacityTypedNext == CapacityTyped /\ CapacityNext => CapacityTyped'
  BY CapacityAssumption DEF CapacityTyped, CapacityNext, Ask

\* A token costs a positive number of whole bytes.
LEMMA TokenCost ==
  ASSUME CapacityTyped, NEW p \in Precisions
  PROVE  \E k \in Nat \ {0} : PerToken(in, p) = 4 * k
<1>1. /\ in.shape \in [layers : Nat \ {0}, interval : Int, heads : Nat \ {0}, width : Nat \ {0}]
      /\ (in.shape.width * p) % 4 = 0 /\ p \in Nat \ {0} /\ in.mtp \in Int
  BY CapacityAssumption DEF CapacityTyped
<1>2. PICK h \in Nat \ {0}, w \in Nat \ {0}, q \in Nat \ {0} :
        h = in.shape.heads /\ w = in.shape.width /\ q = p /\ (w * q) % 4 = 0
  BY <1>1
<1>3. PICK z \in Nat \ {0} : w * q = 4 * z
  <2>1. w * q \in Nat \ {0}
    BY Positive
  <2>2. w * q = 4 * ((w * q) \div 4) /\ (w * q) \div 4 \in Nat
    BY <1>2, <2>1
  <2> QED
    BY <2>1, <2>2
<1>4. PICK l \in Nat \ {0} : l = KVLayers(in.shape)
  <2>1. CASE in.shape.interval > 1
    <3>1. PICK r \in Int : r = (in.shape.layers + in.shape.interval - 1) \div in.shape.interval
      BY <1>1, <2>1
    <3>2. Max({1, r}) \in {1, r} /\ Max({1, r}) >= 1
      <4>1. 1 \in Int /\ r \in Int
        OBVIOUS
      <4> QED
        BY ONLY <4>1, MaxOfTwo
    <3>3. KVLayers(in.shape) = Max({1, r})
      BY <2>1, <3>1 DEF KVLayers
    <3> QED
      BY <3>2, <3>3
  <2>2. CASE ~(in.shape.interval > 1)
    BY <1>1, <2>2 DEF KVLayers
  <2> QED
    BY <2>1, <2>2
<1>5. PICK k \in Nat \ {0} : KVBytesPerToken(in.shape, p) = 4 * k
  <2>1. KVBytesPerToken(in.shape, p) = l * h * w * q
    BY <1>2, <1>4 DEF KVBytesPerToken
  <2>2. l * h * w * q = 4 * (l * h * z)
    <3>1. l * h * w * q = l * h * (w * q)
      OBVIOUS
    <3>2. l * h * (4 * z) = 4 * (l * h * z)
      OBVIOUS
    <3> QED
      BY <1>3, <3>1, <3>2
  <2>3. l * h * z \in Nat \ {0}
    <3>1. l * h \in Nat \ {0}
      BY Positive
    <3> QED
      BY <3>1, Positive
  <2> QED
    BY <2>1, <2>2, <2>3
<1>6. PICK j \in Nat : MTPPerToken(in, p) = 4 * j
  <2>1. CASE in.speculate /\ in.mtp > 0
    <3>1. PICK m \in Nat : m = in.mtp
      BY <1>1, <2>1
    <3>2. MTPPerToken(in, p) = m * h * w * q
      BY <1>2, <2>1, <3>1 DEF MTPPerToken
    <3>3. m * h * w * q = 4 * (m * h * z)
      <4>1. m * h * w * q = m * h * (w * q)
        OBVIOUS
      <4>2. m * h * (4 * z) = 4 * (m * h * z)
        OBVIOUS
      <4> QED
        BY <1>3, <4>1, <4>2
    <3>4. m * h * z \in Nat
      OBVIOUS
    <3> QED
      BY <3>2, <3>3, <3>4
  <2>2. CASE ~(in.speculate /\ in.mtp > 0)
    <3>1. MTPPerToken(in, p) = 4 * 0
      BY <2>2 DEF MTPPerToken
    <3> QED
      BY <3>1
  <2> QED
    BY <2>1, <2>2
<1>7. PerToken(in, p) = 4 * (k + j) /\ k + j \in Nat \ {0}
  BY <1>5, <1>6 DEF PerToken
<1> QED
  BY <1>7

LEMMA CapacityAgrees == CapacityTyped => PlansAgree
<1> SUFFICES ASSUME CapacityTyped, target.streams > 0, NEW p \in Precisions
             PROVE  /\ Fits(in, p) <=> KVBudget(in) >= 0 /\ Wanted <= TotalTokens(in, p)
                    /\ Fits(in, p) <=> in.weights <= WeightBudget(in, p)
                    /\ ~Fits(in, p) =>
                         /\ Fits([in EXCEPT !.vram = @ + ShortBy(in, p)], p)
                         /\ ~Fits([in EXCEPT !.vram = @ + ShortBy(in, p) - 1], p)
  BY DEF PlansAgree
<1>1. PICK k \in Nat \ {0} : PerToken(in, p) = 4 * k
  BY TokenCost
<1>2. PICK t \in Nat : t = Wanted
  <2>1. target.streams \in Nat /\ target.perStream \in Nat
    BY DEF CapacityTyped
  <2>2. target.streams * target.perStream \in Nat
    BY <2>1
  <2> QED
    BY <2>2 DEF Wanted
<1>3. /\ in.vram \in Int /\ in.weights \in Int /\ Overhead(in) \in Int
      /\ KVBudget(in) = in.vram - in.weights - Overhead(in)
  <2>1. /\ in.vram \in Nat /\ in.weights \in Nat /\ in.overhead \in Nat /\ DefaultOverhead \in Nat
    BY CapacityAssumption DEF CapacityTyped
  <2>2. Overhead(in) \in {DefaultOverhead, in.overhead}
    BY Zenon DEF Overhead
  <2> QED
    BY <2>1, <2>2 DEF KVBudget
<1>4. Need(in, p) = t * k /\ t * k \in Nat
  <2>1. t * (4 * k) = 4 * (t * k) /\ t * k \in Nat
    OBVIOUS
  <2>2. (4 * (t * k)) \div 4 = t * k
    BY <2>1
  <2>3. Need(in, p) = (t * (4 * k)) \div 4
    BY <1>1, <1>2 DEF Need
  <2> QED
    BY <2>1, <2>2, <2>3
<1>5. Fits(in, p) <=> KVBudget(in) >= t * k
  BY <1>4 DEF Fits
<1>6. Fits(in, p) <=> KVBudget(in) >= 0 /\ t <= TotalTokens(in, p)
  <2> PICK b \in Int : b = KVBudget(in)
    BY <1>3
  <2>1. CASE b > 0
    <3>1. TotalTokens(in, p) = (4 * b) \div (4 * k)
      BY <1>1, <2>1 DEF TotalTokens
    <3>2. t <= (4 * b) \div (4 * k) <=> (4 * k) * t <= 4 * b
      BY FloorBound
    <3>3. (4 * k) * t = 4 * (t * k)
      OBVIOUS
    <3> QED
      BY <1>4, <1>5, <2>1, <3>1, <3>2, <3>3
  <2>2. CASE b = 0
    <3>1. TotalTokens(in, p) = 0
      BY <2>2 DEF TotalTokens
    <3>2. t * k <= 0 <=> t <= 0
      <4>1. t > 0 => t * k > 0
        BY Positive
      <4>2. t = 0 => t * k = 0
        OBVIOUS
      <4> QED
        BY <1>4, <4>1, <4>2
    <3> QED
      BY <1>4, <1>5, <2>2, <3>1, <3>2
  <2>3. CASE b < 0
    BY <1>4, <1>5, <2>3
  <2> QED
    BY <2>1, <2>2, <2>3
<1>7. Fits(in, p) <=> in.weights <= WeightBudget(in, p)
  BY <1>3, <1>4, <1>5 DEF WeightBudget
<1>8. ASSUME ~Fits(in, p), NEW more \in Int
      PROVE  Fits([in EXCEPT !.vram = @ + more], p) <=> KVBudget(in) + more >= t * k
  <2> DEFINE j == [in EXCEPT !.vram = @ + more]
  <2>1. /\ j.vram = in.vram + more /\ j.weights = in.weights /\ j.overhead = in.overhead
        /\ j.shape = in.shape /\ j.mtp = in.mtp /\ j.speculate = in.speculate
    BY DEF CapacityTyped
  <2>2. Overhead(j) = Overhead(in) /\ PerToken(j, p) = PerToken(in, p)
    BY <2>1 DEF Overhead, PerToken, MTPPerToken
  <2>3. Need(j, p) = t * k
    BY <1>4, <2>2 DEF Need
  <2>4. KVBudget(j) = KVBudget(in) + more
    BY <1>3, <2>1, <2>2 DEF KVBudget
  <2> HIDE DEF j
  <2>5. Fits(j, p) <=> KVBudget(in) + more >= t * k
    BY <2>3, <2>4 DEF Fits
  <2> QED
    BY <2>5 DEF j
<1>9. ASSUME ~Fits(in, p)
      PROVE  /\ Fits([in EXCEPT !.vram = @ + ShortBy(in, p)], p)
             /\ ~Fits([in EXCEPT !.vram = @ + ShortBy(in, p) - 1], p)
  <2>1. PICK short \in Int : short = ShortBy(in, p) /\ short = t * k - KVBudget(in)
    BY <1>3, <1>4, <1>9 DEF ShortBy
  <2>2. Fits([in EXCEPT !.vram = @ + short], p)
    <3>1. KVBudget(in) + short >= t * k
      BY <1>3, <1>4, <2>1
    <3> QED
      BY <1>8, <1>9, <3>1
  <2>3. ~Fits([in EXCEPT !.vram = @ + (short - 1)], p)
    <3>1. ~(KVBudget(in) + (short - 1) >= t * k) /\ short - 1 \in Int
      BY <1>3, <1>4, <2>1
    <3> QED
      BY <1>8, <1>9, <3>1
  <2>4. [in EXCEPT !.vram = @ + (short - 1)] = [in EXCEPT !.vram = @ + short - 1]
    BY <1>3
  <2> QED
    BY <2>1, <2>2, <2>3, <2>4
<1> QED
  BY <1>2, <1>6, <1>7, <1>9

---------------------------------------------------------------------------

LEMMA DeploymentPart ==
  ASSUME [Next]_vars
  PROVE  /\ part' = part
         /\ part = "deployment" => DeploymentNext \/ UNCHANGED deploymentVars
         /\ part = "capacity" => CapacityNext \/ UNCHANGED capacityVars
  BY DEF Next, vars

\* Whatever a manifest says and a card holds: an engine speculates only over a cache
\* that can take drafts back; where streams, batch and the bound of a drafter are written
\* out, no accepted manifest admits more than the context, and where its streams times
\* its drafts fit a word, a full herd and its drafts fit one batch and one logit buffer;
\* and the three calculations of what fits agree (serve.go:188-203,
\* manifest.go:298-348, autotune.go:51-66, fit.go:214-249).
THEOREM ServedAsPlanned == Spec => []DeploymentPromise
<1> DEFINE I == /\ part = "deployment" => Deployed
                /\ part = "capacity" => CapacityTyped
<1>1. Init => I
  BY DeployedInit, CapacityTypedInit DEF Init
<1>2. I /\ [Next]_vars => I'
  <2> SUFFICES ASSUME I, [Next]_vars PROVE I'
    OBVIOUS
  <2>1. part = "deployment" => Deployed'
    <3>1. UNCHANGED deploymentVars /\ Deployed => Deployed'
      BY DEF deploymentVars, Deployed
    <3> QED
      BY <3>1, DeploymentPart, DeployedNext
  <2>2. part = "capacity" => CapacityTyped'
    <3>1. UNCHANGED capacityVars /\ CapacityTyped => CapacityTyped'
      BY DEF capacityVars, CapacityTyped
    <3> QED
      BY <3>1, DeploymentPart, CapacityTypedNext
  <2> QED
    BY <2>1, <2>2, DeploymentPart
<1>3. I => DeploymentPromise
  BY DeployedServes, CapacityAgrees DEF DeploymentPromise
<1> QED
  BY <1>1, <1>2, <1>3, PTL DEF Spec

---------------------------------------------------------------------------
(* The check between chunks.                                                 *)

\* What a chunk asserts is a definition or a use.
ClaimsTyped == \A a \in claims : a.role \in {"defines", "uses"}

LEMMA ClaimsTypedInit == JudgeInit => ClaimsTyped
  BY DEF JudgeInit, ClaimsTyped

LEMMA ClaimsTypedNext == ClaimsTyped /\ JudgeNext => ClaimsTyped'
<1> SUFFICES ASSUME ClaimsTyped, Claim PROVE ClaimsTyped'
  BY DEF JudgeNext
<1>1. PICK c \in Chunks, s \in Symbols, r \in {"defines", "uses"}, a \in Arities, g \in Sigs :
        claims' = claims \cup {[chunk |-> c, symbol |-> s, role |-> r, arity |-> a, sig |-> g]}
  BY DEF Claim
<1> QED
  BY <1>1 DEF ClaimsTyped

\* Where nothing was found about a defined symbol some definition agrees with all.
LEMMA FrontAgrees ==
  ASSUME NEW s, Defs(s) # {}, {} \in Findings(s)
  PROVE  \E d \in Defs(s) : /\ \A e \in Defs(s) : sameClaim(d, e)
                            /\ \A u \in Uses(s) : Contradicts(d, u) = {}
<1>1. PICK d \in First(s) : Conflicts(s, d) = {}
  BY DEF Findings
<1>2. d \in Defs(s)
  BY DEF First
<1>3. \A e \in Defs(s) : sameClaim(d, e)
  BY <1>1, Zenon DEF Conflicts
<1>4. UNION {Contradicts(d, u) : u \in Uses(s)} = {}
  BY <1>1, Zenon DEF Conflicts
<1>5. \A u \in Uses(s) : Contradicts(d, u) = {}
  BY <1>4
<1> QED
  BY <1>2, <1>3, <1>5

LEMMA VerdictRight == ClaimsTyped => VerdictMeans
<1> SUFFICES ASSUME ClaimsTyped, NoConflictsFound PROVE VerdictMeans
  BY DEF VerdictMeans
<1>1. ASSUME NEW a \in Counted, NEW b \in Counted, a.symbol = b.symbol, a.role = "defines"
      PROVE  IF b.role = "defines" THEN a.arity = b.arity /\ a.sig = b.sig
             ELSE Contradicts(a, b) = {}
  <2>1. a \in Defs(a.symbol) /\ a.symbol \in symbols
    BY <1>1 DEF Defs, symbols
  <2>2. PICK d \in Defs(a.symbol) : /\ \A e \in Defs(a.symbol) : sameClaim(d, e)
                                   /\ \A u \in Uses(a.symbol) : Contradicts(d, u) = {}
    BY <2>1, FrontAgrees DEF NoConflictsFound
  <2>3. a.arity = d.arity /\ a.sig = d.sig
    BY <2>1, <2>2 DEF sameClaim
  <2>4. CASE b.role = "defines"
    <3>1. b \in Defs(a.symbol)
      BY <1>1, <2>4 DEF Defs
    <3> QED
      BY <2>2, <2>3, <2>4, <3>1 DEF sameClaim
  <2>5. CASE b.role # "defines"
    <3>1. b \in Uses(a.symbol)
      BY <1>1, <2>5 DEF Uses, ClaimsTyped, Counted
    <3>2. Contradicts(d, b) = {}
      BY <2>2, <3>1
    <3>3. Contradicts(a, b) = Contradicts(d, b)
      BY <2>3, Zenon DEF Contradicts
    <3> QED
      BY <2>5, <3>2, <3>3
  <2> QED
    BY <2>4, <2>5
<1>2. ASSUME Covered
      PROVE  /\ \A s \in Known : Defs(s) # {}
             /\ \A c \in Chunks : \E a \in claims : a.chunk = c
  <2>1. ASSUME NEW s \in Known PROVE Defs(s) # {}
    <3>1. s \in symbols
      BY <1>2 DEF Covered, Unasserted
    <3>2. {} \in Findings(s)
      BY <3>1 DEF NoConflictsFound
    <3> QED
      BY <3>2 DEF Findings
  <2>2. ASSUME NEW c \in Chunks PROVE \E a \in claims : a.chunk = c
    <3>1. c \notin Silent
      BY <1>2 DEF Covered
    <3> QED
      BY <3>1 DEF Silent, Counted
  <2> QED
    BY <2>1, <2>2
<1> QED
  BY <1>1, <1>2 DEF VerdictMeans

---------------------------------------------------------------------------
(* The check between tiers.                                                  *)

\* A source is a sequence of declarations.
DriftTyped == source \in Seq([name : Names, sig : Signature])

LEMMA DriftTypedInit == DriftInit => DriftTyped
  BY DEF DriftInit, DriftTyped

LEMMA DriftTypedNext == DriftTyped /\ DriftNext => DriftTyped'
  BY DEF DriftTyped, DriftNext, Declare

LEMMA DriftRight == DriftTyped => DriftMeans
<1> SUFFICES ASSUME DriftTyped, CheckDrift = {}, NEW n \in DOMAIN contract
             PROVE  /\ Required(n) => \E i \in DOMAIN source : source[i] = [name |-> n, sig |-> contract[n]]
                    /\ \A i \in DOMAIN source : source[i].name = n =>
                         \E j \in i .. Len(source) : source[j] = [name |-> n, sig |-> contract[n]]
  BY DEF DriftMeans
<1>1. DriftOf(n) = {}
  <2>1. ASSUME NEW kind \in {"missing", "changed", "redeclared"}, kind \in DriftOf(n) PROVE FALSE
    <3> DEFINE d == <<n, kind>>
    <3>1. d \in (DOMAIN contract) \X {"missing", "changed", "redeclared"}
      OBVIOUS
    <3>2. d[2] \in DriftOf(d[1])
      BY <2>1
    <3> HIDE DEF d
    <3> QED
      BY <3>1, <3>2 DEF CheckDrift
  <2>2. DriftOf(n) \subseteq {"missing", "changed", "redeclared"}
    BY DEF DriftOf
  <2> QED
    BY <2>1, <2>2
<1>2. Len(source) \in Nat /\ DOMAIN source = 1 .. Len(source)
      /\ \A i \in DOMAIN source : source[i] \in [name : Names, sig : Signature]
  <2> DEFINE R == [name : Names, sig : Signature]
  <2>1. source \in Seq(R)
    BY DEF DriftTyped
  <2> HIDE DEF R
  <2>2. Len(source) \in Nat /\ DOMAIN source = 1 .. Len(source)
        /\ \A i \in DOMAIN source : source[i] \in R
    BY <2>1
  <2> QED
    BY <2>2 DEF R
<1> DEFINE at == {i \in DOMAIN source : source[i].name = n}
<1>3. n \in DOMAIN Extracted <=> at # {}
  BY DEF Extracted
<1>4. ASSUME at # {}
      PROVE  /\ Max(at) \in at /\ \A i \in at : i <= Max(at)
             /\ source[Max(at)] = [name |-> n, sig |-> contract[n]]
  <2>1. Max(at) \in at /\ \A i \in at : i <= Max(at)
    <3>1. at \in SUBSET (0 .. Len(source))
      BY <1>2
    <3> HIDE DEF at
    <3> QED
      BY <1>2, <1>4, <3>1, MaxOfSome
  <2>2. Extracted[n] = source[Max(at)].sig
    BY <1>3, <1>4 DEF Extracted
  <2>3. Extracted[n] = contract[n]
    BY <1>1, <1>3, <1>4 DEF DriftOf
  <2> QED
    BY <1>2, <2>1, <2>2, <2>3
<1>5. ASSUME Required(n) PROVE at # {}
  BY <1>1, <1>3, <1>5 DEF DriftOf
<1>6. ASSUME Required(n)
      PROVE  \E i \in DOMAIN source : source[i] = [name |-> n, sig |-> contract[n]]
  BY <1>4, <1>5, <1>6
<1>7. ASSUME NEW i \in DOMAIN source, source[i].name = n
      PROVE  \E j \in i .. Len(source) : source[j] = [name |-> n, sig |-> contract[n]]
  <2>1. i \in at /\ at # {}
    BY <1>7
  <2>2. Max(at) \in i .. Len(source)
    BY <1>2, <1>4, <2>1
  <2> QED
    BY <1>4, <2>1, <2>2
<1> QED
  BY <1>6, <1>7

---------------------------------------------------------------------------
(* Tarjan's search for the strongly connected components of any graph: what   *)
(* is true of the numbers, the low links, the stack, the calls and the        *)
(* components found, and that every step of the search keeps it so.           *)


\* What a node needs and all that needs in turn is in every closed set it is in.
Reaches(d, u, v) ==
  \A s \in SUBSET DOMAIN d : u \in s /\ (\A x \in s : d[x] \subseteq s) => v \in s

LEMMA ReachSelf == ASSUME NEW d, NEW u PROVE Reaches(d, u, u)
  BY DEF Reaches

LEMMA ReachEdge ==
  ASSUME NEW d, NEW u, NEW v \in d[u]
  PROVE  Reaches(d, u, v)
  BY DEF Reaches

LEMMA ReachOn ==
  ASSUME NEW d, NEW u, NEW v, NEW w, Reaches(d, u, v), Reaches(d, v, w)
  PROVE  Reaches(d, u, w)
  BY DEF Reaches

\* A search of the graph d: the numbers and the low links of the nodes seen, the
\* set S of those on the stack, the k calls with their nodes and the successors
\* they have not taken, and the q components found.
SearchTypes(d, num, lo, S, k, nd, lf, q, cs) ==
  /\ d \in [DOMAIN d -> SUBSET DOMAIN d]
  /\ k \in Nat /\ q \in Nat
  /\ DOMAIN num \subseteq DOMAIN d
  /\ num \in [DOMAIN num -> Nat] /\ lo \in [DOMAIN num -> Nat]
  /\ S \subseteq DOMAIN num
  /\ nd \in [1 .. k -> S] /\ lf \in [1 .. k -> SUBSET DOMAIN d]
  /\ cs \in [1 .. q -> SUBSET DOMAIN num]

\* Nodes are numbered as they are seen, and a call is made by the one below it.
SearchOrder(d, num, lo, S, k, nd, lf) ==
  /\ \A x, y \in DOMAIN num : num[x] = num[y] => x = y
  /\ \A i, j \in 1 .. k : i < j => num[nd[i]] < num[nd[j]]
  /\ \A i \in 1 .. k : i + 1 \in 1 .. k => nd[i + 1] \in d[nd[i]]
  /\ \A i \in 1 .. k : lf[i] \subseteq d[nd[i]]
  /\ \A x \in DOMAIN num : \A w \in d[x] :
       w \in DOMAIN num \/ \E i \in 1 .. k : nd[i] = x /\ w \in lf[i]
  /\ k = 0 => S = {}
  /\ \A x \in S : num[nd[1]] <= num[x]

\* The components found: each is one, is closed with those before it, and no node
\* on the stack is in one.
SearchFound(d, num, S, q, cs) ==
  /\ \A x \in DOMAIN num : x \in S \/ \E c \in 1 .. q : x \in cs[c]
  /\ \A c \in 1 .. q : cs[c] \cap S = {}
  /\ \A b, c \in 1 .. q : b # c => cs[b] \cap cs[c] = {}
  /\ \A c \in 1 .. q : \A x \in cs[c] : \A w \in d[x] : \E b \in 1 .. c : w \in cs[b]
  /\ \A c \in 1 .. q : \A x, y \in cs[c] : Reaches(d, x, y)

\* x is a node on the stack that belongs to call i and to none above it.
Under(num, k, nd, i, x) ==
  /\ num[nd[i]] <= num[x]
  /\ i + 1 \in 1 .. k => num[x] < num[nd[i + 1]]

\* The low link of a call is a node on the stack that it reaches, and no later than
\* whatever on the stack its own nodes have an edge to that was looked at.
SearchLow(d, num, lo, S, k, nd, lf) ==
  /\ \A i \in 1 .. k : lo[nd[i]] <= num[nd[i]]
  /\ \A i \in 1 .. k : \E w \in S : num[w] = lo[nd[i]] /\ Reaches(d, nd[i], w)
  /\ \A i \in 1 .. k, x \in S : Under(num, k, nd, i, x) =>
       \A w \in d[x] \cap S :
         (x = nd[i] => w \notin lf[i] /\ (i + 1 \in 1 .. k => w # nd[i + 1])) =>
           lo[nd[i]] <= num[w]

\* A call reaches all above it on the stack, and what is not above the next call
\* reaches it.
SearchReach(d, num, S, k, nd) ==
  /\ \A i \in 1 .. k, x \in S : num[nd[i]] <= num[x] => Reaches(d, nd[i], x)
  /\ \A i \in 1 .. k, x \in S :
       (i + 1 \in 1 .. k => num[x] < num[nd[i + 1]]) => Reaches(d, x, nd[i])

Search(d, num, lo, S, k, nd, lf, q, cs) ==
  /\ SearchTypes(d, num, lo, S, k, nd, lf, q, cs)
  /\ SearchOrder(d, num, lo, S, k, nd, lf)
  /\ SearchFound(d, num, S, q, cs)
  /\ SearchLow(d, num, lo, S, k, nd, lf)
  /\ SearchReach(d, num, S, k, nd)

---------------------------------------------------------------------------

\* What a node that is seen for the first time does to the search.
Enters(d, num, lo, k, nd, lf, w, m, num2, lo2, nd2, lf2) ==
  /\ w \in DOMAIN d /\ w \notin DOMAIN num /\ m \in Nat /\ \A x \in DOMAIN num : num[x] < m
  /\ k # 0 => w \in lf[k]
  /\ num2 = [x \in DOMAIN num \cup {w} |-> IF x = w THEN m ELSE num[x]]
  /\ lo2 = [x \in DOMAIN num \cup {w} |-> IF x = w THEN m ELSE lo[x]]
  /\ nd2 = [i \in 1 .. k + 1 |-> IF i = k + 1 THEN w ELSE nd[i]]
  /\ lf2 = [i \in 1 .. k + 1 |-> IF i = k + 1 THEN d[w]
                                ELSE IF i = k THEN lf[i] \ {w} ELSE lf[i]]

\* A node is seen for the first time: as a root, or from the call on top.
LEMMA SearchEnter ==
  ASSUME NEW d, NEW num, NEW lo, NEW S, NEW k, NEW nd, NEW lf, NEW q, NEW cs,
         Search(d, num, lo, S, k, nd, lf, q, cs),
         NEW w, NEW m, NEW num2, NEW lo2, NEW nd2, NEW lf2,
         Enters(d, num, lo, k, nd, lf, w, m, num2, lo2, nd2, lf2)
  PROVE  Search(d, num2, lo2, S \cup {w}, k + 1, nd2, lf2, q, cs)
<1> DEFINE S2 == S \cup {w}
<1> USE DEF Search, Enters
<1>1. /\ SearchTypes(d, num, lo, S, k, nd, lf, q, cs) /\ SearchOrder(d, num, lo, S, k, nd, lf)
      /\ SearchFound(d, num, S, q, cs) /\ SearchLow(d, num, lo, S, k, nd, lf)
      /\ SearchReach(d, num, S, k, nd)
  OBVIOUS
<1>2. /\ k \in Nat /\ q \in Nat /\ DOMAIN num \subseteq DOMAIN d
      /\ num \in [DOMAIN num -> Nat] /\ lo \in [DOMAIN num -> Nat] /\ S \subseteq DOMAIN num
      /\ nd \in [1 .. k -> S] /\ lf \in [1 .. k -> SUBSET DOMAIN d]
      /\ d \in [DOMAIN d -> SUBSET DOMAIN d] /\ cs \in [1 .. q -> SUBSET DOMAIN num]
  BY <1>1 DEF SearchTypes
<1>3. /\ DOMAIN num2 = DOMAIN num \cup {w} /\ num2[w] = m /\ lo2[w] = m
      /\ \A x \in DOMAIN num : num2[x] = num[x] /\ lo2[x] = lo[x] /\ num2[x] < m /\ x # w
      /\ nd2[k + 1] = w /\ \A i \in 1 .. k : nd2[i] = nd[i] /\ i # k + 1 /\ i \in 1 .. k + 1
      /\ lf2[k + 1] = d[w] /\ \A i \in 1 .. k : lf2[i] = IF i = k THEN lf[i] \ {w} ELSE lf[i]
      /\ \A i \in 1 .. k + 1 : i \in 1 .. k \/ i = k + 1
  BY <1>2
<1>4. SearchTypes(d, num2, lo2, S2, k + 1, nd2, lf2, q, cs)
  <2>1. nd2 \in [1 .. k + 1 -> S2] /\ lf2 \in [1 .. k + 1 -> SUBSET DOMAIN d]
    BY <1>2, <1>3
  <2>2. num2 \in [DOMAIN num2 -> Nat] /\ lo2 \in [DOMAIN num2 -> Nat]
    BY <1>2, <1>3
  <2>3. cs \in [1 .. q -> SUBSET DOMAIN num2] /\ k + 1 \in Nat
    BY <1>2, <1>3
  <2>4. DOMAIN num2 \subseteq DOMAIN d /\ S2 \subseteq DOMAIN num2
    BY <1>2, <1>3
  <2> QED
    BY <1>2, <2>1, <2>2, <2>3, <2>4 DEF SearchTypes
<1>5. SearchOrder(d, num2, lo2, S2, k + 1, nd2, lf2)
  <2>1. \A x, y \in DOMAIN num2 : num2[x] = num2[y] => x = y
    BY <1>1, <1>2, <1>3 DEF SearchOrder
  <2>2. \A i, j \in 1 .. k + 1 : i < j => num2[nd2[i]] < num2[nd2[j]]
    <3> SUFFICES ASSUME NEW i \in 1 .. k + 1, NEW j \in 1 .. k + 1, i < j
                 PROVE  num2[nd2[i]] < num2[nd2[j]]
      OBVIOUS
    <3>1. i \in 1 .. k /\ nd2[i] = nd[i] /\ nd[i] \in DOMAIN num
      BY <1>2, <1>3
    <3>2. CASE j \in 1 .. k
      <4>1. nd2[j] = nd[j] /\ nd[j] \in DOMAIN num
        BY <1>2, <1>3, <3>2
      <4>2. num[nd[i]] < num[nd[j]]
        BY <1>1, <3>1, <3>2 DEF SearchOrder
      <4> QED
        BY <1>3, <3>1, <4>1, <4>2
    <3>3. CASE j = k + 1
      BY <1>3, <3>1, <3>3
    <3> QED
      BY <1>3, <3>2, <3>3
  <2>3. \A i \in 1 .. k + 1 : i + 1 \in 1 .. k + 1 => nd2[i + 1] \in d[nd2[i]]
    <3> SUFFICES ASSUME NEW i \in 1 .. k + 1, i + 1 \in 1 .. k + 1
                 PROVE  nd2[i + 1] \in d[nd2[i]]
      OBVIOUS
    <3>1. i \in 1 .. k /\ nd2[i] = nd[i]
      BY <1>2, <1>3
    <3>2. CASE i + 1 \in 1 .. k
      BY <1>1, <1>3, <3>1, <3>2 DEF SearchOrder
    <3>3. CASE i = k
      <4>1. w \in lf[k] /\ lf[k] \subseteq d[nd[k]]
        BY <1>1, <3>1, <3>3 DEF SearchOrder
      <4> QED
        BY <1>3, <3>1, <3>3, <4>1
    <3> QED
      BY <1>2, <3>2, <3>3
  <2>4. \A i \in 1 .. k + 1 : lf2[i] \subseteq d[nd2[i]]
    BY <1>1, <1>3 DEF SearchOrder
  <2>5. ASSUME NEW x \in DOMAIN num2, NEW y \in d[x]
        PROVE  y \in DOMAIN num2 \/ \E i \in 1 .. k + 1 : nd2[i] = x /\ y \in lf2[i]
    <3>1. CASE x = w
      BY <1>3, <1>2, <3>1
    <3>2. CASE x # w
      <4>1. y \in DOMAIN num \/ \E i \in 1 .. k : nd[i] = x /\ y \in lf[i]
        BY <1>1, <1>3, <2>5, <3>2 DEF SearchOrder
      <4>2. ASSUME NEW i \in 1 .. k, nd[i] = x, y \in lf[i], y # w
            PROVE  nd2[i] = x /\ y \in lf2[i] /\ i \in 1 .. k + 1
        BY <1>3, <4>2
      <4> QED
        BY <1>3, <4>1, <4>2
    <3> QED
      BY <3>1, <3>2
  <2>6. \A x \in S2 : num2[nd2[1]] <= num2[x]
    <3>1. CASE k = 0
      <4>1. S = {} /\ nd2[1] = w
        BY <1>1, <1>3, <3>1 DEF SearchOrder
      <4> QED
        BY <1>3, <4>1
    <3>2. CASE k # 0
      <4>0. 1 \in 1 .. k
        BY <1>2, <3>2
      <4>1. nd2[1] = nd[1] /\ nd[1] \in DOMAIN num /\ num[nd[1]] \in Nat
        BY <1>2, <1>3, <4>0
      <4>2. \A x \in S : num[nd[1]] <= num[x] /\ x \in DOMAIN num
        BY <1>1, <1>2 DEF SearchOrder
      <4> QED
        BY <1>3, <4>1, <4>2
    <3> QED
      BY <3>1, <3>2
  <2>7. k + 1 # 0
    BY <1>2
  <2> QED
    BY <2>1, <2>2, <2>3, <2>4, <2>5, <2>6, <2>7 DEF SearchOrder
<1>6. SearchFound(d, num2, S2, q, cs)
  BY <1>1, <1>2, <1>3 DEF SearchFound
<1>7. ASSUME k # 0
      PROVE  k \in 1 .. k /\ nd[k] \in S /\ w \in d[nd[k]] /\ \A x \in S : Reaches(d, x, w)
  <2>1. k \in 1 .. k /\ nd[k] \in S /\ w \in d[nd[k]] /\ k + 1 \notin 1 .. k
    BY <1>1, <1>2, <1>7 DEF SearchOrder
  <2>2. \A x \in S : Reaches(d, x, nd[k])
    BY <1>1, <2>1 DEF SearchReach
  <2>3. Reaches(d, nd[k], w)
    BY <2>1, ReachEdge
  <2> QED
    BY <2>1, <2>2, <2>3, ReachOn
<1>8. SearchReach(d, num2, S2, k + 1, nd2)
  <2>1. ASSUME NEW i \in 1 .. k + 1, NEW x \in S2, num2[nd2[i]] <= num2[x]
        PROVE  Reaches(d, nd2[i], x)
    <3>1. CASE i = k + 1
      <4>1. x = w
        BY <1>2, <1>3, <2>1, <3>1
      <4> QED
        BY <1>3, <3>1, <4>1, ReachSelf
    <3>2. CASE i \in 1 .. k /\ x = w
      <4>1. nd2[i] = nd[i] /\ nd[i] \in S /\ k # 0
        BY <1>2, <1>3, <3>2
      <4> QED
        BY <1>7, <3>2, <4>1
    <3>3. CASE i \in 1 .. k /\ x \in S
      BY <1>1, <1>2, <1>3, <2>1, <3>3 DEF SearchReach
    <3> QED
      BY <1>3, <3>1, <3>2, <3>3
  <2>2. ASSUME NEW i \in 1 .. k + 1, NEW x \in S2,
               i + 1 \in 1 .. k + 1 => num2[x] < num2[nd2[i + 1]]
        PROVE  Reaches(d, x, nd2[i])
    <3>1. CASE i = k + 1
      <4>1. nd2[i] = w
        BY <1>3, <3>1
      <4>2. CASE x = w
        BY <4>1, <4>2, ReachSelf
      <4>3. CASE x \in S
        <5>1. k # 0
          BY <1>1, <4>3 DEF SearchOrder
        <5> QED
          BY <1>7, <4>1, <4>3, <5>1
      <4> QED
        BY <4>2, <4>3
    <3>2. CASE i \in 1 .. k
      <4>1. i + 1 \in 1 .. k + 1 /\ num2[x] < num2[nd2[i + 1]] /\ nd2[i + 1] \in S2
        BY <1>2, <1>3, <2>2, <3>2
      <4>2. x \in S /\ x \in DOMAIN num
        BY <1>2, <1>3, <4>1
      <4>3. i + 1 \in 1 .. k => num[x] < num[nd[i + 1]]
        BY <1>2, <1>3, <4>1, <4>2
      <4>4. Reaches(d, x, nd[i])
        BY <1>1, <3>2, <4>2, <4>3 DEF SearchReach
      <4> QED
        BY <1>3, <3>2, <4>4
    <3> QED
      BY <1>3, <3>1, <3>2
  <2> QED
    BY <2>1, <2>2 DEF SearchReach
<1>9. SearchLow(d, num2, lo2, S2, k + 1, nd2, lf2)
  <2>1. \A i \in 1 .. k + 1 : lo2[nd2[i]] <= num2[nd2[i]]
    BY <1>1, <1>2, <1>3 DEF SearchLow
  <2>2. ASSUME NEW i \in 1 .. k + 1
        PROVE  \E y \in S2 : num2[y] = lo2[nd2[i]] /\ Reaches(d, nd2[i], y)
    <3>1. CASE i = k + 1
      BY <1>3, <3>1, ReachSelf
    <3>2. CASE i \in 1 .. k
      BY <1>1, <1>2, <1>3, <3>2 DEF SearchLow
    <3> QED
      BY <1>3, <3>1, <3>2
  <2>3. ASSUME NEW i \in 1 .. k + 1, NEW x \in S2, Under(num2, k + 1, nd2, i, x),
               NEW y \in d[x] \cap S2,
               x = nd2[i] => y \notin lf2[i] /\ (i + 1 \in 1 .. k + 1 => y # nd2[i + 1])
        PROVE  lo2[nd2[i]] <= num2[y]
    <3>1. CASE i = k + 1
      <4>1. x = w
        BY <1>2, <1>3, <2>3, <3>1 DEF Under
      <4> QED
        BY <1>3, <2>3, <3>1, <4>1
    <3>2. CASE i \in 1 .. k
      <4>1. i + 1 \in 1 .. k + 1 /\ num2[x] < num2[nd2[i + 1]] /\ nd2[i + 1] \in S2
        BY <1>2, <1>3, <2>3, <3>2 DEF Under
      <4>2. x \in S /\ x \in DOMAIN num /\ nd2[i] = nd[i] /\ nd[i] \in DOMAIN num
        BY <1>2, <1>3, <3>2, <4>1
      <4>3. Under(num, k, nd, i, x)
        BY <1>2, <1>3, <2>3, <3>2, <4>1, <4>2 DEF Under
      <4>4. y # w
        <5> SUFFICES ASSUME y = w PROVE FALSE
          OBVIOUS
        <5>1. PICK j \in 1 .. k : nd[j] = x /\ w \in lf[j]
          BY <1>1, <2>3, <4>2 DEF SearchOrder
        <5>2. CASE j = i
          <6>1. x = nd2[i] /\ w # nd2[i + 1]
            BY <2>3, <4>1, <4>2, <5>1, <5>2
          <6>2. i # k
            BY <1>3, <6>1
          <6>3. lf2[i] = lf[i]
            BY <1>3, <3>2, <6>2
          <6> QED
            BY <2>3, <5>1, <5>2, <6>1, <6>3
        <5>3. CASE j < i
          <6>1. num[nd[j]] < num[nd[i]]
            BY <1>1, <3>2, <5>3 DEF SearchOrder
          <6>2. num[nd[i]] <= num[x]
            BY <4>3 DEF Under
          <6>3. num[x] \in Nat /\ num[nd[i]] \in Nat
            BY <1>2, <4>2
          <6> QED
            BY <5>1, <6>1, <6>2, <6>3
        <5>4. CASE i < j
          <6>1. i + 1 \in 1 .. k /\ (i + 1 = j \/ i + 1 < j)
            <7>1. k \in Nat
              BY <1>2
            <7> QED
              BY ONLY <7>1, i \in 1 .. k, j \in 1 .. k, <5>4
          <6>2. num[nd[i + 1]] <= num[nd[j]]
            <7>1. i + 1 < j => num[nd[i + 1]] < num[nd[j]]
              BY <1>1, <6>1 DEF SearchOrder
            <7>2. num[nd[i + 1]] \in Nat /\ num[nd[j]] \in Nat
              <8>1. nd[i + 1] \in DOMAIN num /\ nd[j] \in DOMAIN num
                BY ONLY <1>2, <6>1, j \in 1 .. k
              <8> QED
                BY ONLY <1>2, <8>1
            <7>3. i + 1 = j \/ i + 1 < j
              BY ONLY <6>1
            <7> QED
              BY ONLY <7>1, <7>2, <7>3
          <6>3. num[x] < num[nd[i + 1]]
            BY <4>3, <6>1 DEF Under
          <6> QED
            BY <1>2, <5>1, <6>1, <6>2, <6>3
        <5> QED
          BY <1>2, <3>2, <5>2, <5>3, <5>4
      <4>5. y \in d[x] \cap S /\ y \in DOMAIN num
        BY <1>2, <2>3, <4>4
      <4>6. x = nd[i] => y \notin lf[i] /\ (i + 1 \in 1 .. k => y # nd[i + 1])
        BY <1>3, <2>3, <3>2, <4>2, <4>4
      <4>7. lo[nd[i]] <= num[y]
        BY <1>1, <3>2, <4>2, <4>3, <4>5, <4>6 DEF SearchLow
      <4> QED
        BY <1>3, <4>2, <4>5, <4>7
    <3> QED
      BY <1>3, <3>1, <3>2
  <2> QED
    BY <2>1, <2>2, <2>3 DEF SearchLow
<1> HIDE DEF S2, Search, Enters
<1>10. S2 = S \cup {w}
  BY DEF S2
<1> QED
  BY <1>4, <1>5, <1>6, <1>8, <1>9, <1>10 DEF Search

\* An edge to a node that has been seen.
LEMMA SearchBack ==
  ASSUME NEW d, NEW num, NEW lo, NEW S, NEW k, NEW nd, NEW lf, NEW q, NEW cs,
         Search(d, num, lo, S, k, nd, lf, q, cs),
         k # 0, NEW w \in lf[k], w \in DOMAIN num,
         NEW l, l = IF w \in S /\ num[w] <= lo[nd[k]] THEN num[w] ELSE lo[nd[k]],
         NEW lo2, lo2 = [x \in DOMAIN num |-> IF x = nd[k] THEN l ELSE lo[x]],
         NEW lf2, lf2 = [i \in 1 .. k |-> IF i = k THEN lf[i] \ {w} ELSE lf[i]]
  PROVE  Search(d, num, lo2, S, k, nd, lf2, q, cs)
<1> USE DEF Search
<1>1. /\ SearchTypes(d, num, lo, S, k, nd, lf, q, cs) /\ SearchOrder(d, num, lo, S, k, nd, lf)
      /\ SearchFound(d, num, S, q, cs) /\ SearchLow(d, num, lo, S, k, nd, lf)
      /\ SearchReach(d, num, S, k, nd)
  OBVIOUS
<1>2. /\ k \in Nat /\ q \in Nat /\ DOMAIN num \subseteq DOMAIN d
      /\ num \in [DOMAIN num -> Nat] /\ lo \in [DOMAIN num -> Nat] /\ S \subseteq DOMAIN num
      /\ nd \in [1 .. k -> S] /\ lf \in [1 .. k -> SUBSET DOMAIN d]
      /\ d \in [DOMAIN d -> SUBSET DOMAIN d] /\ cs \in [1 .. q -> SUBSET DOMAIN num]
  BY <1>1 DEF SearchTypes
<1>3. /\ k \in 1 .. k /\ k + 1 \notin 1 .. k /\ nd[k] \in S /\ nd[k] \in DOMAIN num /\ w \in d[nd[k]]
      /\ lo[nd[k]] \in Nat /\ num[w] \in Nat /\ l \in Nat /\ l <= lo[nd[k]]
      /\ w \in S => l <= num[w]
  <2>1. k \in 1 .. k /\ k + 1 \notin 1 .. k
    BY <1>2
  <2>2. nd[k] \in S /\ nd[k] \in DOMAIN num /\ w \in d[nd[k]]
    BY <1>1, <1>2, <2>1 DEF SearchOrder
  <2>3. lo[nd[k]] \in Nat /\ num[w] \in Nat
    BY <1>2, <2>2
  <2> QED
    BY <2>1, <2>2, <2>3
<1>4. \A i \in 1 .. k : i # k => nd[i] # nd[k] /\ lf2[i] = lf[i] /\ lo2[nd[i]] = lo[nd[i]]
  <2> SUFFICES ASSUME NEW i \in 1 .. k, i # k
               PROVE  nd[i] # nd[k] /\ lf2[i] = lf[i] /\ lo2[nd[i]] = lo[nd[i]]
    OBVIOUS
  <2>1. i < k /\ nd[i] \in DOMAIN num
    BY <1>2
  <2>2. num[nd[i]] < num[nd[k]] /\ num[nd[i]] \in Nat
    BY <1>1, <1>2, <1>3, <2>1 DEF SearchOrder
  <2> QED
    BY <2>1, <2>2
<1>5. lf2[k] = lf[k] \ {w} /\ lo2[nd[k]] = l
  BY <1>3
<1>6. SearchTypes(d, num, lo2, S, k, nd, lf2, q, cs)
  <2>1. lo2 \in [DOMAIN num -> Nat]
    BY <1>2, <1>3
  <2>2. lf2 \in [1 .. k -> SUBSET DOMAIN d]
    BY <1>2
  <2> QED
    BY <1>2, <2>1, <2>2 DEF SearchTypes
<1>7. SearchOrder(d, num, lo2, S, k, nd, lf2)
  <2>1. \A i \in 1 .. k : lf2[i] \subseteq d[nd[i]]
    BY <1>1, <1>4, <1>5 DEF SearchOrder
  <2>2. ASSUME NEW x \in DOMAIN num, NEW y \in d[x]
        PROVE  y \in DOMAIN num \/ \E i \in 1 .. k : nd[i] = x /\ y \in lf2[i]
    <3>1. CASE y = w
      BY <3>1
    <3>2. CASE y # w
      <4>1. y \in DOMAIN num \/ \E i \in 1 .. k : nd[i] = x /\ y \in lf[i]
        BY <1>1, <2>2 DEF SearchOrder
      <4>2. \A i \in 1 .. k : y \in lf[i] => y \in lf2[i]
        BY <3>2
      <4> QED
        BY <4>1, <4>2
    <3> QED
      BY <3>1, <3>2
  <2> QED
    BY <1>1, <2>1, <2>2 DEF SearchOrder
<1>8. SearchLow(d, num, lo2, S, k, nd, lf2)
  <2>1. ASSUME NEW i \in 1 .. k PROVE lo2[nd[i]] <= num[nd[i]]
    <3>1. lo[nd[i]] <= num[nd[i]] /\ num[nd[i]] \in Nat
      BY <1>1, <1>2 DEF SearchLow
    <3> QED
      BY <1>3, <1>4, <1>5, <3>1
  <2>2. ASSUME NEW i \in 1 .. k PROVE \E y \in S : num[y] = lo2[nd[i]] /\ Reaches(d, nd[i], y)
    <3>1. \E y \in S : num[y] = lo[nd[i]] /\ Reaches(d, nd[i], y)
      BY <1>1 DEF SearchLow
    <3>2. CASE i = k /\ w \in S /\ l = num[w]
      BY <1>3, <1>5, <3>2, ReachEdge
    <3>3. CASE i = k /\ l = lo[nd[k]]
      BY <1>5, <3>1, <3>3
    <3>4. CASE i # k
      BY <1>4, <3>1, <3>4
    <3> QED
      BY <3>2, <3>3, <3>4
  <2>3. ASSUME NEW i \in 1 .. k, NEW x \in S, Under(num, k, nd, i, x), NEW y \in d[x] \cap S,
               x = nd[i] => y \notin lf2[i] /\ (i + 1 \in 1 .. k => y # nd[i + 1])
        PROVE  lo2[nd[i]] <= num[y]
    <3>1. ASSUME x = nd[i] => y \notin lf[i] PROVE lo[nd[i]] <= num[y]
      BY <1>1, <2>3, <3>1 DEF SearchLow
    <3>2. num[y] \in Nat
      BY <1>2
    <3>3. CASE i # k
      BY <1>4, <2>3, <3>1, <3>3
    <3>4. CASE i = k /\ y = w
      BY <1>3, <1>5, <3>4
    <3>5. CASE i = k /\ y # w
      <4>1. lo[nd[k]] <= num[y]
        BY <1>5, <2>3, <3>1, <3>5
      <4> QED
        BY <1>3, <1>5, <3>2, <3>5, <4>1
    <3> QED
      BY <3>3, <3>4, <3>5
  <2> QED
    BY <2>1, <2>2, <2>3 DEF SearchLow
<1> QED
  BY <1>1, <1>6, <1>7, <1>8

\* A call returns whose low link is another node: it is no root of a component.
LEMMA SearchKeep ==
  ASSUME NEW d, NEW num, NEW lo, NEW S, NEW k, NEW nd, NEW lf, NEW q, NEW cs,
         Search(d, num, lo, S, k, nd, lf, q, cs),
         k # 0, lf[k] = {}, lo[nd[k]] # num[nd[k]],
         NEW l, l = IF lo[nd[k]] <= lo[nd[k - 1]] THEN lo[nd[k]] ELSE lo[nd[k - 1]],
         NEW lo2, lo2 = [x \in DOMAIN num |-> IF x = nd[k - 1] THEN l ELSE lo[x]],
         NEW nd2, nd2 = [i \in 1 .. k - 1 |-> nd[i]],
         NEW lf2, lf2 = [i \in 1 .. k - 1 |-> lf[i]]
  PROVE  k # 1 /\ Search(d, num, lo2, S, k - 1, nd2, lf2, q, cs)
<1> USE DEF Search
<1>1. /\ SearchTypes(d, num, lo, S, k, nd, lf, q, cs) /\ SearchOrder(d, num, lo, S, k, nd, lf)
      /\ SearchFound(d, num, S, q, cs) /\ SearchLow(d, num, lo, S, k, nd, lf)
      /\ SearchReach(d, num, S, k, nd)
  OBVIOUS
<1>2. /\ k \in Nat /\ q \in Nat /\ DOMAIN num \subseteq DOMAIN d
      /\ num \in [DOMAIN num -> Nat] /\ lo \in [DOMAIN num -> Nat] /\ S \subseteq DOMAIN num
      /\ nd \in [1 .. k -> S] /\ lf \in [1 .. k -> SUBSET DOMAIN d]
      /\ d \in [DOMAIN d -> SUBSET DOMAIN d] /\ cs \in [1 .. q -> SUBSET DOMAIN num]
  BY <1>1 DEF SearchTypes
<1>3. k \in 1 .. k /\ k + 1 \notin 1 .. k /\ nd[k] \in S /\ nd[k] \in DOMAIN num
  BY <1>2
<1>4. PICK z \in S : num[z] = lo[nd[k]] /\ Reaches(d, nd[k], z)
  BY <1>1, <1>3 DEF SearchLow
<1>5. num[z] < num[nd[k]] /\ num[z] \in Nat /\ num[nd[k]] \in Nat
  <2>1. lo[nd[k]] <= num[nd[k]]
    BY <1>1, <1>3 DEF SearchLow
  <2> QED
    BY <1>2, <1>3, <1>4, <2>1
<1>6. k # 1
  BY <1>1, <1>4, <1>5 DEF SearchOrder
<1>7. /\ k - 1 \in 1 .. k /\ (k - 1) + 1 = k /\ k - 1 \in Nat /\ nd[k - 1] \in S
      /\ nd[k - 1] \in DOMAIN num /\ nd[k] \in d[nd[k - 1]]
      /\ \A i \in 1 .. k - 1 : i \in 1 .. k /\ nd2[i] = nd[i] /\ lf2[i] = lf[i]
      /\ \A i \in 1 .. k : i = k \/ i \in 1 .. k - 1
  <2>1. k - 1 \in 1 .. k /\ (k - 1) + 1 = k /\ k - 1 \in Nat
    BY <1>2, <1>6
  <2>2. \A i \in 1 .. k - 1 : i \in 1 .. k /\ nd2[i] = nd[i] /\ lf2[i] = lf[i]
    BY <1>2
  <2>3. \A i \in 1 .. k : i = k \/ i \in 1 .. k - 1
    BY <1>2
  <2>4. nd[k - 1] \in S /\ nd[k - 1] \in DOMAIN num
    BY <1>2, <2>1
  <2>5. nd[k] \in d[nd[k - 1]]
    BY <1>1, <1>3, <2>1 DEF SearchOrder
  <2> QED
    BY <2>1, <2>2, <2>3, <2>4, <2>5
<1>8. /\ lo[nd[k]] \in Nat /\ lo[nd[k - 1]] \in Nat /\ l \in Nat
      /\ l <= lo[nd[k]] /\ l <= lo[nd[k - 1]] /\ lo2[nd[k - 1]] = l
  BY <1>2, <1>3, <1>7
<1>9. \A i \in 1 .. k - 1 : i # k - 1 => nd[i] # nd[k - 1] /\ lo2[nd[i]] = lo[nd[i]] /\ i + 1 \in 1 .. k - 1
  <2> SUFFICES ASSUME NEW i \in 1 .. k - 1, i # k - 1
               PROVE  nd[i] # nd[k - 1] /\ lo2[nd[i]] = lo[nd[i]] /\ i + 1 \in 1 .. k - 1
    OBVIOUS
  <2>1. i < k - 1 /\ i + 1 \in 1 .. k - 1 /\ i \in 1 .. k
    BY <1>2
  <2>2. nd[i] \in DOMAIN num
    BY <1>2, <2>1
  <2>3. num[nd[i]] < num[nd[k - 1]] /\ num[nd[i]] \in Nat
    BY <1>1, <1>2, <1>7, <2>1, <2>2 DEF SearchOrder
  <2> QED
    BY <2>1, <2>2, <2>3
<1>10. SearchTypes(d, num, lo2, S, k - 1, nd2, lf2, q, cs)
  <2>1. lo2 \in [DOMAIN num -> Nat]
    BY <1>2, <1>8
  <2>2. nd2 \in [1 .. k - 1 -> S] /\ lf2 \in [1 .. k - 1 -> SUBSET DOMAIN d]
    BY <1>2, <1>7
  <2> QED
    BY <1>2, <1>7, <2>1, <2>2 DEF SearchTypes
<1>11. SearchOrder(d, num, lo2, S, k - 1, nd2, lf2)
  <2>1. \A x, y \in DOMAIN num : num[x] = num[y] => x = y
    BY <1>1 DEF SearchOrder
  <2>2. \A i, j \in 1 .. k - 1 : i < j => num[nd2[i]] < num[nd2[j]]
    BY <1>1, <1>7 DEF SearchOrder
  <2>3. \A i \in 1 .. k - 1 : i + 1 \in 1 .. k - 1 => nd2[i + 1] \in d[nd2[i]]
    BY <1>1, <1>7 DEF SearchOrder
  <2>4. \A i \in 1 .. k - 1 : lf2[i] \subseteq d[nd2[i]]
    BY <1>1, <1>7 DEF SearchOrder
  <2>5. ASSUME NEW x \in DOMAIN num, NEW y \in d[x]
        PROVE  y \in DOMAIN num \/ \E i \in 1 .. k - 1 : nd2[i] = x /\ y \in lf2[i]
    <3>1. y \in DOMAIN num \/ \E i \in 1 .. k : nd[i] = x /\ y \in lf[i]
      BY <1>1, <2>5 DEF SearchOrder
    <3> QED
      BY <1>7, <3>1
  <2>6. \A x \in S : num[nd2[1]] <= num[x]
    <3>1. 1 \in 1 .. k - 1
      BY <1>2, <1>6
    <3> QED
      BY <1>1, <1>7, <3>1 DEF SearchOrder
  <2>7. k - 1 # 0
    BY <1>2, <1>6
  <2> QED
    BY <2>1, <2>2, <2>3, <2>4, <2>5, <2>6, <2>7 DEF SearchOrder
<1>12. \A x \in S : Reaches(d, x, nd[k - 1])
  <2> SUFFICES ASSUME NEW x \in S PROVE Reaches(d, x, nd[k - 1])
    OBVIOUS
  <2>1. Reaches(d, x, nd[k])
    BY <1>1, <1>3 DEF SearchReach
  <2>2. Reaches(d, z, nd[k - 1])
    BY <1>1, <1>4, <1>5, <1>7 DEF SearchReach
  <2> QED
    BY <1>4, <2>1, <2>2, ReachOn
<1>13. SearchReach(d, num, S, k - 1, nd2)
  <2>1. ASSUME NEW i \in 1 .. k - 1, NEW x \in S, num[nd2[i]] <= num[x] PROVE Reaches(d, nd2[i], x)
    BY <1>1, <1>7, <2>1 DEF SearchReach
  <2>2. ASSUME NEW i \in 1 .. k - 1, NEW x \in S,
               i + 1 \in 1 .. k - 1 => num[x] < num[nd2[i + 1]]
        PROVE  Reaches(d, x, nd2[i])
    <3>1. CASE i = k - 1
      BY <1>7, <1>12, <3>1
    <3>2. CASE i # k - 1
      <4>1. i \in 1 .. k /\ num[x] < num[nd[i + 1]]
        BY <1>7, <1>9, <2>2, <3>2
      <4> QED
        BY <1>1, <1>7, <4>1 DEF SearchReach
    <3> QED
      BY <3>1, <3>2
  <2> QED
    BY <2>1, <2>2 DEF SearchReach
<1>14. SearchLow(d, num, lo2, S, k - 1, nd2, lf2)
  <2>1. ASSUME NEW i \in 1 .. k - 1 PROVE lo2[nd2[i]] <= num[nd2[i]]
    <3>1. lo[nd[i]] <= num[nd[i]] /\ num[nd[i]] \in Nat /\ nd2[i] = nd[i]
      BY <1>1, <1>2, <1>7 DEF SearchLow
    <3> QED
      BY <1>8, <1>9, <3>1
  <2>2. ASSUME NEW i \in 1 .. k - 1
        PROVE  \E y \in S : num[y] = lo2[nd2[i]] /\ Reaches(d, nd2[i], y)
    <3>1. nd2[i] = nd[i] /\ \E y \in S : num[y] = lo[nd[i]] /\ Reaches(d, nd[i], y)
      BY <1>1, <1>7 DEF SearchLow
    <3>2. CASE i = k - 1 /\ l = lo[nd[k]]
      <4>1. Reaches(d, nd[k - 1], z)
        BY <1>4, <1>7, ReachEdge, ReachOn
      <4> QED
        BY <1>4, <1>8, <3>1, <3>2, <4>1
    <3>3. CASE i = k - 1 /\ l = lo[nd[k - 1]]
      BY <1>8, <3>1, <3>3
    <3>4. CASE i # k - 1
      BY <1>9, <3>1, <3>4
    <3> QED
      BY <3>2, <3>3, <3>4
  <2>3. ASSUME NEW i \in 1 .. k - 1, NEW x \in S, Under(num, k - 1, nd2, i, x),
               NEW y \in d[x] \cap S,
               x = nd2[i] => y \notin lf2[i] /\ (i + 1 \in 1 .. k - 1 => y # nd2[i + 1])
        PROVE  lo2[nd2[i]] <= num[y]
    <3>1. nd2[i] = nd[i] /\ lf2[i] = lf[i] /\ i \in 1 .. k /\ num[y] \in Nat /\ num[x] \in Nat
      BY <1>2, <1>7
    <3>2. CASE i # k - 1
      <4>1. i + 1 \in 1 .. k - 1 /\ nd2[i + 1] = nd[i + 1] /\ i + 1 \in 1 .. k
        BY <1>7, <1>9, <3>2
      <4>2. Under(num, k, nd, i, x)
        BY <2>3, <3>1, <4>1 DEF Under
      <4>3. lo[nd[i]] <= num[y]
        BY <1>1, <2>3, <3>1, <4>1, <4>2 DEF SearchLow
      <4> QED
        BY <1>9, <3>1, <3>2, <4>3
    <3>3. CASE i = k - 1 /\ num[nd[k]] <= num[x]
      <4>1. Under(num, k, nd, k, x)
        BY <1>3, <3>3 DEF Under
      <4>2. lo[nd[k]] <= num[y]
        BY <1>1, <1>3, <4>1 DEF SearchLow
      <4> QED
        BY <1>8, <3>1, <3>3, <4>2
    <3>4. CASE i = k - 1 /\ num[x] < num[nd[k]]
      <4>1. Under(num, k, nd, i, x)
        BY <1>7, <2>3, <3>1, <3>4 DEF Under
      <4>2. CASE y = nd[k]
        <5>1. lo[nd[k]] <= num[nd[k]]
          BY <1>1, <1>3 DEF SearchLow
        <5> QED
          BY <1>5, <1>8, <3>1, <3>4, <4>2, <5>1
      <4>3. CASE y # nd[k]
        <5>1. x = nd[i] => y \notin lf[i] /\ (i + 1 \in 1 .. k => y # nd[i + 1])
          BY <1>7, <2>3, <3>1, <3>4, <4>3
        <5>2. lo[nd[i]] <= num[y]
          BY <1>1, <3>1, <4>1, <5>1 DEF SearchLow
        <5> QED
          BY <1>8, <3>1, <3>4, <5>2
      <4> QED
        BY <4>2, <4>3
    <3>5. num[nd[k]] <= num[x] \/ num[x] < num[nd[k]]
      BY <1>5, <3>1
    <3> QED
      BY <3>2, <3>3, <3>4, <3>5
  <2> QED
    BY <2>1, <2>2, <2>3 DEF SearchLow
<1> QED
  BY <1>1, <1>6, <1>10, <1>11, <1>13, <1>14

\* What is in S from the node v on.
From(num, S, v) == {x \in S : num[v] <= num[x]}

\* What a call whose low link is its own node does to the search when it returns.
Pops(num, lo, S, k, nd, lf, q, cs, S2, nd2, lf2, cs2) ==
  LET C == From(num, S, nd[k])
  IN /\ k # 0 /\ lf[k] = {} /\ lo[nd[k]] = num[nd[k]]
     /\ S2 = S \ C
     /\ nd2 = [i \in 1 .. k - 1 |-> nd[i]] /\ lf2 = [i \in 1 .. k - 1 |-> lf[i]]
     /\ cs2 = [c \in 1 .. q + 1 |-> IF c = q + 1 THEN C ELSE cs[c]]

\* A call returns whose low link is its own node: all that is on the stack from there
\* on is a component.
LEMMA SearchPop ==
  ASSUME NEW d, NEW num, NEW lo, NEW S, NEW k, NEW nd, NEW lf, NEW q, NEW cs,
         Search(d, num, lo, S, k, nd, lf, q, cs),
         NEW S2, NEW nd2, NEW lf2, NEW cs2, Pops(num, lo, S, k, nd, lf, q, cs, S2, nd2, lf2, cs2)
  PROVE  Search(d, num, lo, S2, k - 1, nd2, lf2, q + 1, cs2)
<1>0. PICK C : C = {x \in S : num[nd[k]] <= num[x]}
  OBVIOUS
<1>a. /\ k # 0 /\ lf[k] = {} /\ lo[nd[k]] = num[nd[k]] /\ S2 = S \ C
      /\ nd2 = [i \in 1 .. k - 1 |-> nd[i]] /\ lf2 = [i \in 1 .. k - 1 |-> lf[i]]
      /\ cs2 = [c \in 1 .. q + 1 |-> IF c = q + 1 THEN C ELSE cs[c]]
  BY <1>0 DEF Pops, From
<1> USE <1>0, <1>a DEF Search
<1>1. /\ SearchTypes(d, num, lo, S, k, nd, lf, q, cs) /\ SearchOrder(d, num, lo, S, k, nd, lf)
      /\ SearchFound(d, num, S, q, cs) /\ SearchLow(d, num, lo, S, k, nd, lf)
      /\ SearchReach(d, num, S, k, nd)
  OBVIOUS
<1>2. /\ k \in Nat /\ q \in Nat /\ DOMAIN num \subseteq DOMAIN d
      /\ num \in [DOMAIN num -> Nat] /\ lo \in [DOMAIN num -> Nat] /\ S \subseteq DOMAIN num
      /\ nd \in [1 .. k -> S] /\ lf \in [1 .. k -> SUBSET DOMAIN d]
      /\ d \in [DOMAIN d -> SUBSET DOMAIN d] /\ cs \in [1 .. q -> SUBSET DOMAIN num]
  BY <1>1 DEF SearchTypes
<1>3. /\ k \in 1 .. k /\ k + 1 \notin 1 .. k /\ nd[k] \in S /\ nd[k] \in DOMAIN num
      /\ num[nd[k]] \in Nat
  <2>1. k \in 1 .. k /\ k + 1 \notin 1 .. k
    BY <1>2
  <2> QED
    BY <1>2, <2>1
<1>4. /\ k - 1 \in Nat
      /\ \A i \in 1 .. k - 1 : i \in 1 .. k /\ i < k /\ nd2[i] = nd[i] /\ lf2[i] = lf[i]
      /\ \A i \in 1 .. k : i = k \/ i \in 1 .. k - 1
      /\ \A i \in 1 .. k - 1 : i + 1 = k \/ i + 1 \in 1 .. k - 1
  BY <1>2
<1>5. \A x \in S : x \in S2 <=> num[x] < num[nd[k]]
  BY <1>2, <1>3
<1>6. \A i \in 1 .. k - 1 : nd[i] \in S2 /\ num[nd[i]] \in Nat /\ num[nd[i]] < num[nd[k]]
  <2> SUFFICES ASSUME NEW i \in 1 .. k - 1
               PROVE  nd[i] \in S2 /\ num[nd[i]] \in Nat /\ num[nd[i]] < num[nd[k]]
    OBVIOUS
  <2>1. num[nd[i]] < num[nd[k]]
    BY <1>1, <1>3, <1>4 DEF SearchOrder
  <2>2. nd[i] \in S /\ num[nd[i]] \in Nat
    BY <1>2, <1>4
  <2> QED
    BY <1>5, <2>1, <2>2
<1>7. /\ C \subseteq S /\ S2 \subseteq S /\ C \cap S2 = {} /\ nd[k] \in C
      /\ \A x \in S : x \in C \/ x \in S2
      /\ cs2[q + 1] = C /\ \A c \in 1 .. q : cs2[c] = cs[c] /\ c \in 1 .. q + 1 /\ c # q + 1
      /\ \A c \in 1 .. q + 1 : c \in 1 .. q \/ c = q + 1
  <2>1. C \subseteq S /\ S2 \subseteq S /\ C \cap S2 = {} /\ \A x \in S : x \in C \/ x \in S2
    OBVIOUS
  <2>2. nd[k] \in C
    BY <1>3
  <2>3. cs2[q + 1] = C /\ \A c \in 1 .. q : cs2[c] = cs[c] /\ c \in 1 .. q + 1 /\ c # q + 1
    BY <1>2
  <2>4. \A c \in 1 .. q + 1 : c \in 1 .. q \/ c = q + 1
    BY <1>2
  <2> QED
    BY <2>1, <2>2, <2>3, <2>4
<1>8. SearchTypes(d, num, lo, S2, k - 1, nd2, lf2, q + 1, cs2)
  <2>1. nd2 \in [1 .. k - 1 -> S2] /\ lf2 \in [1 .. k - 1 -> SUBSET DOMAIN d]
    BY <1>2, <1>4, <1>6
  <2>2. C \subseteq DOMAIN num /\ S2 \subseteq DOMAIN num
    BY <1>2, <1>7
  <2>3. cs2 \in [1 .. q + 1 -> SUBSET DOMAIN num] /\ q + 1 \in Nat
    BY <1>2, <2>2
  <2> QED
    BY <1>2, <1>4, <2>1, <2>2, <2>3 DEF SearchTypes
<1>9. SearchOrder(d, num, lo, S2, k - 1, nd2, lf2)
  <2>1. \A x, y \in DOMAIN num : num[x] = num[y] => x = y
    BY <1>1 DEF SearchOrder
  <2>2. \A i, j \in 1 .. k - 1 : i < j => num[nd2[i]] < num[nd2[j]]
    BY <1>1, <1>4 DEF SearchOrder
  <2>3. \A i \in 1 .. k - 1 : i + 1 \in 1 .. k - 1 => nd2[i + 1] \in d[nd2[i]]
    BY <1>1, <1>4 DEF SearchOrder
  <2>4. \A i \in 1 .. k - 1 : lf2[i] \subseteq d[nd2[i]]
    BY <1>1, <1>4 DEF SearchOrder
  <2>5. ASSUME NEW x \in DOMAIN num, NEW y \in d[x]
        PROVE  y \in DOMAIN num \/ \E i \in 1 .. k - 1 : nd2[i] = x /\ y \in lf2[i]
    <3>1. y \in DOMAIN num \/ \E i \in 1 .. k : nd[i] = x /\ y \in lf[i]
      BY <1>1, <2>5 DEF SearchOrder
    <3> QED
      BY <1>4, <3>1
  <2>6. ASSUME k = 1 PROVE S2 = {}
    <3>1. \A x \in S : num[nd[k]] <= num[x]
      BY <1>1, <2>6 DEF SearchOrder
    <3> QED
      BY <3>1
  <2>7. ASSUME NEW x \in S2 PROVE num[nd2[1]] <= num[x]
    <3>0. k \in Nat /\ k # 0 /\ k # 1
      BY <1>2, <2>6, <2>7
    <3>1. 1 \in 1 .. k - 1
      BY ONLY <3>0
    <3>2. nd2[1] = nd[1]
      BY <1>4, <3>1
    <3>3. num[nd[1]] <= num[x]
      BY <1>1, <1>7 DEF SearchOrder
    <3> QED
      BY <3>2, <3>3
  <2>8. k - 1 = 0 => S2 = {}
    BY <1>2, <2>6
  <2> QED
    BY <2>1, <2>2, <2>3, <2>4, <2>5, <2>7, <2>8 DEF SearchOrder
<1>10. SearchReach(d, num, S2, k - 1, nd2)
  <2>1. ASSUME NEW i \in 1 .. k - 1, NEW x \in S2, num[nd2[i]] <= num[x] PROVE Reaches(d, nd2[i], x)
    BY <1>1, <1>4, <1>7, <2>1 DEF SearchReach
  <2>2. ASSUME NEW i \in 1 .. k - 1, NEW x \in S2,
               i + 1 \in 1 .. k - 1 => num[x] < num[nd2[i + 1]]
        PROVE  Reaches(d, x, nd2[i])
    <3>1. i \in 1 .. k /\ x \in S /\ nd2[i] = nd[i]
      BY <1>4, <1>7
    <3>2. i + 1 \in 1 .. k => num[x] < num[nd[i + 1]]
      BY <1>4, <1>5, <2>2, <3>1
    <3> QED
      BY <1>1, <3>1, <3>2 DEF SearchReach
  <2> QED
    BY <2>1, <2>2 DEF SearchReach
<1>11. SearchLow(d, num, lo, S2, k - 1, nd2, lf2)
  <2>1. \A i \in 1 .. k - 1 : lo[nd2[i]] <= num[nd2[i]]
    BY <1>1, <1>4 DEF SearchLow
  <2>2. ASSUME NEW i \in 1 .. k - 1
        PROVE  \E y \in S2 : num[y] = lo[nd2[i]] /\ Reaches(d, nd2[i], y)
    <3>1. nd2[i] = nd[i] /\ i \in 1 .. k
      BY <1>4
    <3>2. PICK y \in S : num[y] = lo[nd[i]] /\ Reaches(d, nd[i], y)
      BY <1>1, <3>1 DEF SearchLow
    <3>3. lo[nd[i]] <= num[nd[i]]
      BY <1>1, <3>1 DEF SearchLow
    <3>4. num[y] \in Nat
      BY <1>2
    <3>5. num[y] < num[nd[k]]
      BY <1>3, <1>6, <3>2, <3>3, <3>4
    <3> QED
      BY <1>5, <3>1, <3>2, <3>5
  <2>3. ASSUME NEW i \in 1 .. k - 1, NEW x \in S2, Under(num, k - 1, nd2, i, x),
               NEW y \in d[x] \cap S2,
               x = nd2[i] => y \notin lf2[i] /\ (i + 1 \in 1 .. k - 1 => y # nd2[i + 1])
        PROVE  lo[nd2[i]] <= num[y]
    <3>1. nd2[i] = nd[i] /\ lf2[i] = lf[i] /\ i \in 1 .. k /\ x \in S /\ y \in d[x] \cap S
      BY <1>4, <1>7
    <3>2. Under(num, k, nd, i, x)
      BY <1>4, <1>5, <2>3, <3>1 DEF Under
    <3>3. x = nd[i] => y \notin lf[i] /\ (i + 1 \in 1 .. k => y # nd[i + 1])
      BY <1>4, <1>7, <2>3, <3>1
    <3> QED
      BY <1>1, <3>1, <3>2, <3>3 DEF SearchLow
  <2> QED
    BY <2>1, <2>2, <2>3 DEF SearchLow
<1>12. ASSUME NEW x \in C, NEW y \in d[x] PROVE \E b \in 1 .. q + 1 : y \in cs2[b]
  <2>1. x \in S /\ x \in DOMAIN num /\ num[nd[k]] <= num[x] /\ num[x] \in Nat
    BY <1>2
  <2>2. y \in DOMAIN num
    <3>1. \A i \in 1 .. k : nd[i] = x => i = k
      BY <1>3, <1>4, <1>6, <2>1
    <3> QED
      BY <1>1, <2>1, <3>1, <1>12 DEF SearchOrder
  <2>3. CASE \E c \in 1 .. q : y \in cs[c]
    BY <1>7, <2>3
  <2>4. CASE y \in S
    <3>1. Under(num, k, nd, k, x)
      BY <1>3, <2>1 DEF Under
    <3>2. lo[nd[k]] <= num[y]
      BY <1>1, <1>3, <1>12, <2>1, <2>4, <3>1 DEF SearchLow
    <3>3. y \in C
      BY <2>4, <3>2
    <3>4. q + 1 \in 1 .. q + 1
      BY <1>2
    <3> QED
      BY <1>7, <3>3, <3>4
  <2> QED
    BY <1>1, <2>2, <2>3, <2>4 DEF SearchFound
<1>13. \A x, y \in C : Reaches(d, x, y)
  <2> SUFFICES ASSUME NEW x \in C, NEW y \in C PROVE Reaches(d, x, y)
    OBVIOUS
  <2>1. Reaches(d, x, nd[k])
    BY <1>1, <1>3, <1>7 DEF SearchReach
  <2>2. Reaches(d, nd[k], y)
    BY <1>1, <1>3, <1>7 DEF SearchReach
  <2> QED
    BY <2>1, <2>2, ReachOn
<1>14. SearchFound(d, num, S2, q + 1, cs2)
  <2>1. ASSUME NEW x \in DOMAIN num PROVE x \in S2 \/ \E c \in 1 .. q + 1 : x \in cs2[c]
    <3>1. x \in S \/ \E c \in 1 .. q : x \in cs[c]
      BY <1>1 DEF SearchFound
    <3>2. q + 1 \in 1 .. q + 1
      BY <1>2
    <3> QED
      BY <1>7, <3>1, <3>2
  <2>2. \A c \in 1 .. q + 1 : cs2[c] \cap S2 = {}
    BY <1>1, <1>7 DEF SearchFound
  <2>3. \A b, c \in 1 .. q + 1 : b # c => cs2[b] \cap cs2[c] = {}
    BY <1>1, <1>7 DEF SearchFound
  <2>4. ASSUME NEW c \in 1 .. q + 1, NEW x \in cs2[c], NEW y \in d[x]
        PROVE  \E b \in 1 .. c : y \in cs2[b]
    <3>1. CASE c = q + 1
      BY <1>7, <1>12, <2>4, <3>1
    <3>2. CASE c \in 1 .. q
      <4>1. x \in cs[c]
        BY <1>7, <2>4, <3>2
      <4>2. PICK b \in 1 .. c : y \in cs[b]
        BY <1>1, <2>4, <3>2, <4>1 DEF SearchFound
      <4>3. b \in 1 .. q
        BY <1>2, <3>2
      <4> QED
        BY <1>7, <4>2, <4>3
    <3> QED
      BY <1>7, <3>1, <3>2
  <2>5. \A c \in 1 .. q + 1 : \A x, y \in cs2[c] : Reaches(d, x, y)
    BY <1>1, <1>7, <1>13 DEF SearchFound
  <2> QED
    BY <2>1, <2>2, <2>3, <2>4, <2>5 DEF SearchFound
<1> QED
  BY <1>8, <1>9, <1>10, <1>11, <1>14

---------------------------------------------------------------------------

\* What has been found when all calls are done.
Partition(d, q, cs) ==
  /\ d \in [DOMAIN d -> SUBSET DOMAIN d] /\ q \in Nat /\ cs \in [1 .. q -> SUBSET DOMAIN d]
  /\ \A x \in DOMAIN d : \E c \in 1 .. q : x \in cs[c]
  /\ \A b, c \in 1 .. q : b # c => cs[b] \cap cs[c] = {}
  /\ \A c \in 1 .. q : \A x \in cs[c] : \A w \in d[x] : \E b \in 1 .. c : w \in cs[b]
  /\ \A c \in 1 .. q : \A x, y \in cs[c] : Reaches(d, x, y)

LEMMA SearchDone ==
  ASSUME NEW d, NEW num, NEW lo, NEW S, NEW k, NEW nd, NEW lf, NEW q, NEW cs,
         Search(d, num, lo, S, k, nd, lf, q, cs), k = 0, DOMAIN num = DOMAIN d
  PROVE  Partition(d, q, cs)
<1>1. /\ SearchTypes(d, num, lo, S, k, nd, lf, q, cs) /\ SearchOrder(d, num, lo, S, k, nd, lf)
      /\ SearchFound(d, num, S, q, cs)
  BY DEF Search
<1>2. S = {}
  BY <1>1 DEF SearchOrder
<1> QED
  BY <1>1, <1>2 DEF SearchTypes, SearchFound, Partition

\* What a node reaches is in no later component.
LEMMA ReachesBack ==
  ASSUME NEW d, NEW q, NEW cs, Partition(d, q, cs), NEW u \in DOMAIN d, NEW v, Reaches(d, u, v),
         NEW c \in 1 .. q, u \in cs[c]
  PROVE  \E b \in 1 .. c : v \in cs[b]
<1> DEFINE s == UNION {cs[b] : b \in 1 .. c}
<1>1. \A b \in 1 .. c : b \in 1 .. q /\ \A e \in 1 .. b : e \in 1 .. c
  BY DEF Partition
<1>2. s \in SUBSET DOMAIN d /\ u \in s
  <2>1. c \in 1 .. c
    BY DEF Partition
  <2> QED
    BY <1>1, <2>1 DEF Partition
<1>3. \A x \in s : d[x] \subseteq s
  <2> SUFFICES ASSUME NEW x \in s, NEW w \in d[x] PROVE w \in s
    OBVIOUS
  <2>1. PICK b \in 1 .. c : x \in cs[b]
    OBVIOUS
  <2>2. PICK e \in 1 .. b : w \in cs[e]
    BY <1>1, <2>1 DEF Partition
  <2> QED
    BY <1>1, <2>1, <2>2
<1>4. v \in s
  <2> HIDE DEF s
  <2> QED
    BY <1>2, <1>3 DEF Reaches
<1> QED
  BY <1>4

---------------------------------------------------------------------------
(* The plan for a set of code units.                                         *)

\* A sequence that rises.
Rises(num, s) == \A i, j \in 1 .. Len(s) : i < j => num[s[i]] < num[s[j]]

CutOff(s, f) == SubSeq(s, 1, f - 1)

\* It is cut at one of its places.
LEMMA Cut ==
  ASSUME NEW T, NEW s \in Seq(T), NEW num \in [T -> Nat], Rises(num, s),
         NEW f \in 1 .. Len(s),
         NEW below, below = CutOff(s, f),
         NEW C, C = From(num, ToSet(s), s[f])
  PROVE  /\ ToSet(SubSeq(s, f, Len(s))) = C
         /\ ToSet(below) = ToSet(s) \ C
         /\ below \in Seq(T)
         /\ Rises(num, below)
<1> DEFINE above == SubSeq(s, f, Len(s))
<1> USE DEF From, Rises, CutOff
<1>1. /\ Len(s) \in Nat /\ DOMAIN s = 1 .. Len(s) /\ f \in Nat /\ 1 <= f /\ f <= Len(s)
      /\ \A i \in 1 .. Len(s) : s[i] \in T /\ num[s[i]] \in Nat
  OBVIOUS
<1>2. /\ Len(below) = f - 1 /\ DOMAIN below = 1 .. f - 1
      /\ \A i \in 1 .. f - 1 : below[i] = s[i] /\ i \in 1 .. Len(s)
  BY <1>1
<1>3. below \in Seq(T)
  BY <1>1
<1>4. DOMAIN above = 1 .. Len(s) - f + 1 /\ \A i \in 1 .. Len(s) - f + 1 : above[i] = s[i + f - 1]
  BY <1>1
<1>5. \A i \in 1 .. Len(s) : num[s[f]] <= num[s[i]] <=> f <= i
  BY <1>1, SMTT(60)
<1>6. ToSet(above) = C
  <2>1. ASSUME NEW x \in ToSet(above) PROVE x \in C
    <3>1. PICK i \in 1 .. Len(s) - f + 1 : x = s[i + f - 1]
      BY <1>4 DEF ToSet
    <3>2. i + f - 1 \in 1 .. Len(s) /\ f <= i + f - 1
      BY <1>1
    <3> QED
      BY <1>1, <1>5, <3>1, <3>2 DEF ToSet
  <2>2. ASSUME NEW x \in C PROVE x \in ToSet(above)
    <3>1. PICK i \in 1 .. Len(s) : x = s[i]
      BY <1>1 DEF ToSet
    <3>2. f <= i
      BY <1>5, <3>1
    <3>3. i - f + 1 \in 1 .. Len(s) - f + 1 /\ (i - f + 1) + f - 1 = i
      BY <1>1, <3>2
    <3>4. above[i - f + 1] = s[i]
      BY <1>4, <3>3
    <3> HIDE DEF above
    <3> QED
      BY <1>4, <3>1, <3>3, <3>4 DEF ToSet
  <2> QED
    BY <2>1, <2>2
<1>7. ToSet(below) = ToSet(s) \ C
  <2>1. ASSUME NEW x \in ToSet(below) PROVE x \in ToSet(s) \ C
    <3>1. PICK i \in 1 .. f - 1 : x = s[i] /\ i \in 1 .. Len(s)
      BY <1>2 DEF ToSet
    <3>2. ~(f <= i)
      BY <1>1
    <3> QED
      BY <1>1, <1>5, <3>1, <3>2 DEF ToSet
  <2>2. ASSUME NEW x \in ToSet(s) \ C PROVE x \in ToSet(below)
    <3>1. PICK i \in 1 .. Len(s) : x = s[i]
      BY <1>1 DEF ToSet
    <3>2. ~(f <= i)
      BY <1>5, <3>1
    <3>3. i \in 1 .. f - 1
      BY <1>1, <3>2
    <3> QED
      BY <1>2, <3>1, <3>3 DEF ToSet
  <2> QED
    BY <2>1, <2>2
<1>8. Rises(num, below)
  BY <1>2
<1> QED
  BY <1>3, <1>6, <1>7, <1>8

---------------------------------------------------------------------------

\* The search as the model keeps it.
Graph == [u \in Nodes |-> Deps(u)]
Calls(s) == [i \in 1 .. Len(s) |-> s[i].node]
Lefts(s) == [i \in 1 .. Len(s) |-> s[i].left]

GraphSearch ==
  Search(Graph, visit, low, ToSet(stack), Len(frames), Calls(frames), Lefts(frames),
         Len(comps), comps)

Call == [node : Nodes, left : SUBSET Nodes]

GraphInv ==
  /\ units \in UnitSets
  /\ stage \in {"scc", "built"}
  /\ stage = "built" => frames = <<>> /\ todo = <<>>
  /\ frames \in Seq(Call) /\ stack \in Seq(Seen) /\ comps \in Seq(SUBSET Nodes)
  /\ \A x \in Seen : visit[x] < Cardinality(Seen)
  /\ Rises(visit, stack)
  /\ todo \in Seq(Nodes)
  /\ \A u \in Nodes \ Seen : \E i \in 1 .. Len(todo) : todo[i] = u
  /\ GraphSearch

LEMMA GraphTypes ==
  ASSUME GraphInv
  PROVE  /\ Nodes = 1 .. Len(units) /\ Len(units) \in Nat /\ IsFiniteSet(Nodes)
         /\ \A u \in Nodes : Deps(u) \subseteq Nodes
         /\ DOMAIN Graph = Nodes
         /\ Seen \subseteq Nodes /\ IsFiniteSet(Seen) /\ Cardinality(Seen) \in Nat
         /\ visit \in [Seen -> Nat] /\ low \in [Seen -> Nat]
         /\ Len(frames) \in Nat /\ DOMAIN frames = 1 .. Len(frames)
         /\ \A i \in 1 .. Len(frames) :
              frames[i].node \in ToSet(stack) /\ frames[i].node \in Seen
         /\ \A i \in 1 .. Len(frames) : frames[i].left \subseteq Nodes
         /\ ToSet(stack) \subseteq Seen
<1>1. Nodes = 1 .. Len(units) /\ Len(units) \in Nat
  BY GraphAssumption DEF GraphInv, Nodes
<1>2. IsFiniteSet(Nodes)
  <2>1. 1 \in Int /\ Len(units) \in Int
    BY <1>1
  <2> QED
    BY <1>1, <2>1, FS_Interval
<1>3. \A u \in Nodes : Deps(u) \subseteq Nodes
  BY DEF Deps, Owners
<1>4. SearchTypes(Graph, visit, low, ToSet(stack), Len(frames), Calls(frames),
                  Lefts(frames), Len(comps), comps)
  BY DEF GraphInv, GraphSearch, Search
<1>5. DOMAIN Graph = Nodes
  BY DEF Graph
<1>6. Seen \subseteq Nodes /\ visit \in [Seen -> Nat] /\ low \in [Seen -> Nat] /\ ToSet(stack) \subseteq Seen
  BY <1>4, <1>5 DEF SearchTypes, Seen
<1>7. IsFiniteSet(Seen) /\ Cardinality(Seen) \in Nat
  BY <1>2, <1>6, FS_Subset, FS_CardinalityType
<1>8. Len(frames) \in Nat /\ DOMAIN frames = 1 .. Len(frames)
  BY DEF GraphInv
<1>9. Calls(frames) \in [1 .. Len(frames) -> ToSet(stack)]
  BY <1>4 DEF SearchTypes
<1>10. Lefts(frames) \in [1 .. Len(frames) -> SUBSET Nodes]
  BY <1>4, <1>5 DEF SearchTypes
<1> QED
  BY <1>1, <1>2, <1>3, <1>5, <1>6, <1>7, <1>8, <1>9, <1>10 DEF Calls, Lefts

LEMMA GraphInvInit == GraphInit => GraphInv
<1> SUFFICES ASSUME GraphInit PROVE GraphInv
  OBVIOUS
<1>1. /\ units \in UnitSets /\ stage = "scc" /\ frames = <<>> /\ stack = <<>>
      /\ visit = <<>> /\ low = <<>> /\ comps = <<>> /\ todo = [i \in 1 .. Len(units) |-> i]
  BY DEF GraphInit
<1>2. Nodes = 1 .. Len(units) /\ Len(units) \in Nat
  BY <1>1, GraphAssumption DEF Nodes
<1>3. todo \in Seq(Nodes) /\ Len(todo) = Len(units)
  BY <1>1, <1>2
<1>4. Seen = {} /\ ToSet(stack) = {} /\ Len(frames) = 0 /\ Len(comps) = 0 /\ Len(stack) = 0
  BY <1>1 DEF Seen, ToSet
<1>5. \A i : i \notin 1 .. 0
  OBVIOUS
<1>6. GraphSearch
  <2>1. DOMAIN Graph = Nodes /\ \A u \in Nodes : Deps(u) \subseteq Nodes
    BY DEF Graph, Deps, Owners
  <2>2. Graph \in [Nodes -> SUBSET Nodes]
    BY <2>1 DEF Graph
  <2>3. DOMAIN visit = {} /\ visit \in [{} -> Nat] /\ low \in [{} -> Nat] /\ comps \in [1 .. 0 -> SUBSET {}]
    BY <1>1
  <2>4. Calls(frames) \in [1 .. 0 -> {}] /\ Lefts(frames) \in [1 .. 0 -> SUBSET Nodes]
    BY <1>4, <1>5 DEF Calls, Lefts
  <2>5. SearchTypes(Graph, visit, low, {}, 0, Calls(frames), Lefts(frames), 0, comps)
    BY <2>1, <2>2, <2>3, <2>4 DEF SearchTypes
  <2>6. SearchOrder(Graph, visit, low, {}, 0, Calls(frames), Lefts(frames))
    BY <2>3, <1>5 DEF SearchOrder
  <2>7. SearchFound(Graph, visit, {}, 0, comps)
    BY <2>3, <1>5 DEF SearchFound
  <2>8. SearchLow(Graph, visit, low, {}, 0, Calls(frames), Lefts(frames))
    BY <1>5 DEF SearchLow
  <2>9. SearchReach(Graph, visit, {}, 0, Calls(frames))
    BY <1>5 DEF SearchReach
  <2> QED
    BY <1>4, <2>5, <2>6, <2>7, <2>8, <2>9 DEF GraphSearch, Search
<1>7. frames \in Seq(Call) /\ stack \in Seq(Seen) /\ comps \in Seq(SUBSET Nodes)
  BY <1>1
<1>8. \A u \in Nodes \ Seen : \E i \in 1 .. Len(todo) : todo[i] = u
  BY <1>1, <1>2, <1>3
<1>9. Rises(visit, stack)
  BY <1>4, <1>5 DEF Rises
<1> QED
  BY <1>1, <1>3, <1>4, <1>6, <1>7, <1>8, <1>9 DEF GraphInv

\* A node is entered.
LEMMA Entered ==
  ASSUME GraphInv, NEW w \in Nodes, w \notin Seen,
         frames # <<>> => w \in frames[Len(frames)].left,
         NEW calls \in Seq(Call), Len(calls) = Len(frames),
         \A i \in 1 .. Len(frames) :
           /\ calls[i].node = frames[i].node
           /\ calls[i].left = IF i = Len(frames) THEN frames[i].left \ {w} ELSE frames[i].left,
         Enter(w, calls), units' = units, comps' = comps
  PROVE  /\ frames' \in Seq(Call) /\ stack' \in Seq(Seen') /\ Seen' = Seen \cup {w}
         /\ \A x \in Seen' : visit'[x] < Cardinality(Seen')
         /\ Rises(visit', stack')
         /\ GraphSearch'
<1> USE DEF Rises
<1>1. PICK num, lo, k, m, S, fr, st :
        num = visit /\ lo = low /\ k = Len(frames) /\ m = Cardinality(Seen) /\ S = ToSet(stack)
        /\ fr = frames /\ st = stack
  OBVIOUS
<1>2. /\ DOMAIN num = Seen /\ IsFiniteSet(Seen) /\ m \in Nat /\ k \in Nat /\ num \in [Seen -> Nat]
      /\ DOMAIN Graph = Nodes /\ Deps(w) \subseteq Nodes
      /\ fr \in Seq(Call) /\ DOMAIN fr = 1 .. k /\ Len(fr) = k /\ Seen \subseteq Nodes
  BY <1>1, GraphTypes DEF Seen, GraphInv
<1>3. /\ visit' = [v \in Seen \cup {w} |-> IF v = w THEN m ELSE num[v]]
      /\ low' = [v \in Seen \cup {w} |-> IF v = w THEN m ELSE lo[v]]
      /\ stack' = Append(st, w)
      /\ frames' = Append(calls, [node |-> w, left |-> Deps(w)])
  BY <1>1 DEF Enter
<1>4. Seen' = Seen \cup {w} /\ Cardinality(Seen') = m + 1
  <2>1. Seen' = Seen \cup {w}
    BY <1>3 DEF Seen
  <2> QED
    BY <1>1, <1>2, <2>1, FS_AddElement
<1>5. Graph' = Graph /\ Nodes' = Nodes
  BY DEF Graph, Nodes, Deps, Owners
<1>6. /\ frames' \in Seq(Call) /\ Len(frames') = k + 1
      /\ \A i \in 1 .. k : frames'[i] = calls[i]
      /\ frames'[k + 1].node = w /\ frames'[k + 1].left = Deps(w)
  <2> DEFINE R == Call
             c == [node |-> w, left |-> Deps(w)]
  <2>1. c \in R
    BY <1>2 DEF Call
  <2>2. calls \in Seq(R) /\ Len(calls) = k /\ k \in Nat
    BY <1>1, <1>2
  <2>3. frames' = Append(calls, c) /\ c.node = w /\ c.left = Deps(w)
    BY <1>3
  <2> HIDE DEF R, c
  <2>4. frames' \in Seq(R) /\ Len(frames') = k + 1 /\ frames'[k + 1] = c
        /\ \A i \in 1 .. k : frames'[i] = calls[i]
    BY <2>1, <2>2, <2>3
  <2> QED
    BY <2>3, <2>4 DEF R
<1>7. Calls(frames') = [i \in 1 .. k + 1 |-> IF i = k + 1 THEN w ELSE Calls(fr)[i]]
  <2>1. \A i \in 1 .. k + 1 : i \in 1 .. k \/ i = k + 1
    BY <1>2
  <2>2. \A i \in 1 .. k : i # k + 1 /\ Calls(fr)[i] = fr[i].node
    BY <1>2 DEF Calls
  <2> QED
    BY <1>1, <1>6, <2>1, <2>2 DEF Calls
<1>8. Lefts(frames') = [i \in 1 .. k + 1 |-> IF i = k + 1 THEN Graph[w]
                                          ELSE IF i = k THEN Lefts(fr)[i] \ {w} ELSE Lefts(fr)[i]]
  <2>1. \A i \in 1 .. k + 1 : i \in 1 .. k \/ i = k + 1
    BY <1>2
  <2>2. \A i \in 1 .. k : i # k + 1 /\ Lefts(fr)[i] = fr[i].left
    BY <1>2 DEF Lefts
  <2>3. Graph[w] = Deps(w)
    BY DEF Graph
  <2> QED
    BY <1>1, <1>6, <2>1, <2>2, <2>3, ZenonT(60) DEF Lefts
<1>9. k # 0 => w \in Lefts(fr)[k]
  BY <1>1, <1>2 DEF Lefts
<1>10. \A x \in DOMAIN num : num[x] < m
  BY <1>1, <1>2 DEF GraphInv
<1>11. st \in Seq(Seen) /\ Rises(num, st)
  BY <1>1 DEF GraphInv
<1>12. /\ Len(st) \in Nat /\ DOMAIN st = 1 .. Len(st) /\ \A i \in 1 .. Len(st) : st[i] \in Seen
       /\ Len(stack') = Len(st) + 1 /\ stack'[Len(st) + 1] = w
       /\ DOMAIN stack' = 1 .. Len(st) + 1
       /\ \A i \in 1 .. Len(st) : stack'[i] = st[i]
       /\ \A i \in 1 .. Len(st) + 1 : i \in 1 .. Len(st) \/ i = Len(st) + 1
  BY <1>3, <1>11
<1>13. ToSet(stack') = S \cup {w}
  <2>1. S = {st[i] : i \in 1 .. Len(st)} /\ Len(st) + 1 \in 1 .. Len(st) + 1
        /\ \A i \in 1 .. Len(st) : i \in 1 .. Len(st) + 1
    BY <1>1, <1>12 DEF ToSet
  <2>2. ToSet(stack') = {stack'[i] : i \in 1 .. Len(st) + 1}
    BY <1>12 DEF ToSet
  <2> QED
    BY <1>12, <2>1, <2>2
<1>14. GraphSearch'
  <2>1. Search(Graph, num, lo, S, k, Calls(fr), Lefts(fr), Len(comps), comps)
    BY <1>1 DEF GraphInv, GraphSearch
  <2>2. /\ visit' = [x \in DOMAIN num \cup {w} |-> IF x = w THEN m ELSE num[x]]
        /\ low' = [x \in DOMAIN num \cup {w} |-> IF x = w THEN m ELSE lo[x]]
    BY <1>2, <1>3
  <2>3. w \in DOMAIN Graph /\ w \notin DOMAIN num
    BY <1>2
  <2>4. PICK nd, lf : nd = Calls(fr) /\ lf = Lefts(fr)
    OBVIOUS
  <2>5. /\ Search(Graph, num, lo, S, k, nd, lf, Len(comps), comps) /\ m \in Nat
        /\ k # 0 => w \in lf[k]
        /\ Calls(frames') = [i \in 1 .. k + 1 |-> IF i = k + 1 THEN w ELSE nd[i]]
        /\ Lefts(frames') = [i \in 1 .. k + 1 |-> IF i = k + 1 THEN Graph[w]
                                          ELSE IF i = k THEN lf[i] \ {w} ELSE lf[i]]
    BY <1>2, <1>7, <1>8, <1>9, <2>1, <2>4
  <2>6. Enters(Graph, num, lo, k, nd, lf, w, m, visit', low', Calls(frames'), Lefts(frames'))
    BY ONLY <1>10, <2>2, <2>3, <2>5 DEF Enters
  <2>7. Search(Graph, visit', low', S \cup {w}, k + 1, Calls(frames'), Lefts(frames'), Len(comps), comps)
    BY ONLY <2>5, <2>6, SearchEnter
  <2> QED
    BY <1>5, <1>6, <1>13, <2>7 DEF GraphSearch, Calls, Lefts
<1>15. stack' \in Seq(Seen')
  <2>1. st \in Seq(Seen \cup {w})
    BY <1>11, <1>12
  <2> QED
    BY <1>3, <1>4, <2>1
<1>16. ASSUME NEW x \in Seen' PROVE visit'[x] < m + 1
  BY <1>2, <1>3, <1>4, <1>10
<1>17. ASSUME NEW i \in 1 .. Len(stack'), NEW j \in 1 .. Len(stack'), i < j
       PROVE  visit'[stack'[i]] < visit'[stack'[j]]
  <2>1. i \in 1 .. Len(st) /\ stack'[i] = st[i] /\ visit'[st[i]] = num[st[i]] /\ st[i] \in Seen
    BY <1>3, <1>12, <1>17
  <2>2. CASE j \in 1 .. Len(st)
    <3>1. visit'[st[j]] = num[st[j]] /\ stack'[j] = st[j]
      BY <1>3, <1>12, <2>2
    <3> QED
      BY <1>11, <1>17, <2>1, <2>2, <3>1
  <2>3. CASE j = Len(st) + 1
    <3>1. visit'[stack'[j]] = m
      BY <1>3, <1>12, <2>3
    <3> QED
      BY <1>2, <1>10, <2>1, <3>1
  <2> QED
    BY <1>12, <2>2, <2>3
<1> QED
  BY <1>4, <1>6, <1>14, <1>15, <1>16, <1>17

---------------------------------------------------------------------------

LEMMA RootNext == ASSUME GraphInv, Root PROVE GraphInv'
<1>1. /\ units' = units /\ comps' = comps /\ stage' = stage /\ stage = "scc" /\ frames = <<>>
      /\ todo # <<>> /\ todo' = Tail(todo)
  BY DEF Root
<1>2. Nodes' = Nodes /\ Graph' = Graph
  BY <1>1 DEF Graph, Nodes, Deps, Owners
<1>3. todo \in Seq(Nodes) /\ todo[1] \in Nodes /\ todo' \in Seq(Nodes) /\ Len(todo) \in Nat
      /\ Len(todo') = Len(todo) - 1 /\ \A i \in 1 .. Len(todo') : todo'[i] = todo[i + 1]
  BY <1>1 DEF GraphInv
<1>4. ASSUME todo[1] \in Seen'
      PROVE  \A u \in Nodes \ Seen : u \in Seen' \/ \E i \in 1 .. Len(todo') : todo'[i] = u
  <2> SUFFICES ASSUME NEW u \in Nodes \ Seen, u \notin Seen'
               PROVE  \E i \in 1 .. Len(todo') : todo'[i] = u
    OBVIOUS
  <2>1. PICK i \in 1 .. Len(todo) : todo[i] = u
    BY DEF GraphInv
  <2>2. i # 1
    BY <1>4, <2>1
  <2>3. i - 1 \in 1 .. Len(todo') /\ (i - 1) + 1 = i
    BY <1>3, <2>2
  <2> QED
    BY <1>3, <2>1, <2>3
<1>5. CASE todo[1] \in Seen
  <2>1. /\ frames' = frames /\ stack' = stack /\ visit' = visit /\ low' = low /\ Seen' = Seen
    BY <1>5 DEF Root, Seen
  <2>2. GraphSearch'
    BY <1>1, <1>2, <2>1 DEF GraphInv, GraphSearch, Calls, Lefts
  <2>3. \A u \in Nodes \ Seen : \E i \in 1 .. Len(todo') : todo'[i] = u
    BY <1>4, <1>5, <2>1
  <2> QED
    BY <1>1, <1>2, <1>3, <2>1, <2>2, <2>3 DEF GraphInv, Call
<1>6. CASE todo[1] \notin Seen
  <2>1. PICK w : w = todo[1]
    OBVIOUS
  <2>2. Enter(w, <<>>)
    BY <1>6, <2>1 DEF Root
  <2>3. /\ frames' \in Seq(Call) /\ stack' \in Seq(Seen') /\ Seen' = Seen \cup {w}
        /\ \A x \in Seen' : visit'[x] < Cardinality(Seen')
        /\ Rises(visit', stack')
        /\ GraphSearch'
    <3>1. PICK calls : calls = <<>>
      OBVIOUS
    <3>2. calls \in Seq(Call) /\ Len(calls) = Len(frames) /\ Len(frames) = 0 /\ frames = <<>>
      BY <1>1, <3>1
    <3>3. \A i : i \notin 1 .. 0
      OBVIOUS
    <3>4. Enter(w, calls) /\ w \in Nodes /\ w \notin Seen
      BY <1>3, <1>6, <2>1, <2>2, <3>1
    <3> QED
      BY <1>1, <3>2, <3>3, <3>4, Entered
  <2>4. \A u \in Nodes \ Seen' : \E i \in 1 .. Len(todo') : todo'[i] = u
    BY <1>4, <2>1, <2>3
  <2>5. Call' = Call
    BY <1>2 DEF Call
  <2>6. /\ units' \in UnitSets /\ stage' \in {"scc", "built"} /\ stage' # "built"
        /\ comps' \in Seq(SUBSET Nodes)
    BY <1>1 DEF GraphInv
  <2> QED
    BY <1>2, <1>3, <2>3, <2>4, <2>5, <2>6 DEF GraphInv
<1> QED
  BY <1>5, <1>6

\* The call on top, and what it takes next.
LEMMA OnTop ==
  ASSUME GraphInv, More
  PROVE  /\ Len(frames) \in Nat \ {0} /\ Len(frames) \in 1 .. Len(frames)
         /\ Top = frames[Len(frames)] /\ NextSucc \in frames[Len(frames)].left
         /\ NextSucc \in Nodes
         /\ Advanced \in Seq(Call) /\ Len(Advanced) = Len(frames)
         /\ \A i \in 1 .. Len(frames) :
              /\ Advanced[i].node = frames[i].node
              /\ Advanced[i].left = IF i = Len(frames) THEN frames[i].left \ {NextSucc}
                                    ELSE frames[i].left
<1>1. frames # <<>> /\ Top.left # {} /\ Top = frames[Len(frames)] /\ frames \in Seq(Call)
  BY DEF More, Top, Last, GraphInv
<1>2. PICK k, fr : k = Len(frames) /\ fr = frames
  OBVIOUS
<1>3. k \in Nat \ {0} /\ k \in 1 .. k /\ fr[k] \in Call /\ DOMAIN fr = 1 .. k
  <2> DEFINE R == Call
  <2>1. fr \in Seq(R) /\ fr # <<>> /\ k = Len(fr)
    BY <1>1, <1>2
  <2> HIDE DEF R
  <2>2. k \in Nat \ {0} /\ k \in 1 .. k /\ fr[k] \in R /\ DOMAIN fr = 1 .. k
    BY <2>1
  <2> QED
    BY <2>2 DEF R
<1>4. NextSucc \in fr[k].left
  <2>1. fr[k].left \subseteq Nat /\ fr[k].left # {}
    BY <1>1, <1>2, <1>3, GraphTypes DEF Call
  <2>2. NextSucc = Min(fr[k].left)
    BY <1>1, <1>2 DEF NextSucc
  <2> QED
    BY <2>1, <2>2, MinOfSome
<1>5. PICK w : w = NextSucc
  OBVIOUS
<1>6. Advanced = [fr EXCEPT ![k] = [fr[k] EXCEPT !.left = fr[k].left \ {w}]]
  BY <1>2, <1>5 DEF Advanced
<1>7. [fr[k] EXCEPT !.left = fr[k].left \ {w}] \in Call
  BY <1>3 DEF Call
<1>8. \A i \in 1 .. k : fr[i] \in Call
  BY <1>1, <1>2
<1>9. Advanced \in Seq(Call) /\ Len(Advanced) = k
  <2> DEFINE R == Call
             c == [fr[k] EXCEPT !.left = fr[k].left \ {w}]
  <2>1. fr \in Seq(R) /\ k = Len(fr) /\ k \in Nat /\ c \in R /\ Advanced = [fr EXCEPT ![k] = c]
    BY <1>1, <1>2, <1>3, <1>6, <1>7
  <2> HIDE DEF R, c
  <2>0. fr \in [1 .. k -> R]
    BY ONLY <2>1
  <2>2. Advanced \in [1 .. k -> R]
    BY ONLY <2>0, <2>1
  <2>3. Advanced \in Seq(R) /\ Len(Advanced) = k
    BY ONLY <2>1, <2>2
  <2> QED
    BY <2>3 DEF R
<1>10. \A i \in 1 .. k :
         /\ Advanced[i].node = fr[i].node
         /\ Advanced[i].left = IF i = k THEN fr[i].left \ {w} ELSE fr[i].left
  BY <1>3, <1>6, <1>8 DEF Call
<1> QED
  BY <1>1, <1>2, <1>3, <1>4, <1>5, <1>9, <1>10 DEF Call

LEMMA DescendNext == ASSUME GraphInv, Descend PROVE GraphInv'
<1>1. /\ More /\ NextSucc \notin Seen /\ Enter(NextSucc, Advanced)
      /\ units' = units /\ comps' = comps /\ stage' = stage /\ todo' = todo
  BY DEF Descend
<1>2. Nodes' = Nodes /\ Graph' = Graph /\ Call' = Call
  BY <1>1 DEF Graph, Nodes, Deps, Owners, Call
<1>3. /\ frames' \in Seq(Call) /\ stack' \in Seq(Seen') /\ Seen' = Seen \cup {NextSucc}
      /\ \A x \in Seen' : visit'[x] < Cardinality(Seen')
      /\ Rises(visit', stack')
      /\ GraphSearch'
  BY <1>1, OnTop, Entered
<1>4. stage # "built"
  BY <1>1 DEF GraphInv, More
<1>5. \A u \in Nodes \ Seen' : \E i \in 1 .. Len(todo) : todo[i] = u
  BY <1>3 DEF GraphInv
<1> QED
  BY <1>1, <1>2, <1>3, <1>4, <1>5 DEF GraphInv

LEMMA BackNext == ASSUME GraphInv, Back PROVE GraphInv'
<1>1. /\ More /\ NextSucc \in Seen /\ frames' = Advanced
      /\ units' = units /\ comps' = comps /\ stage' = stage /\ todo' = todo
      /\ stack' = stack /\ visit' = visit
  BY DEF Back
<1>2. Nodes' = Nodes /\ Graph' = Graph /\ Call' = Call /\ Seen' = Seen
  BY <1>1 DEF Graph, Nodes, Deps, Owners, Call, Seen
<1>3. PICK num, lo, k, S, fr, w :
        num = visit /\ lo = low /\ k = Len(frames) /\ S = ToSet(stack) /\ fr = frames /\ w = NextSucc
  OBVIOUS
<1>4. /\ k \in Nat \ {0} /\ k \in 1 .. k /\ w \in fr[k].left /\ w \in Seen /\ DOMAIN num = Seen
      /\ num \in [Seen -> Nat] /\ lo \in [Seen -> Nat] /\ fr[k].node \in Seen
      /\ Top.node = fr[k].node
  BY <1>1, <1>3, OnTop, GraphTypes DEF Seen
<1>5. /\ frames' \in Seq(Call) /\ Len(frames') = k
      /\ \A i \in 1 .. k : frames'[i].node = fr[i].node
      /\ \A i \in 1 .. k : frames'[i].left = IF i = k THEN fr[i].left \ {w} ELSE fr[i].left
  BY <1>1, <1>3, OnTop
<1>6. PICK v, l : v = fr[k].node
                  /\ l = IF w \in S /\ num[w] <= lo[v] THEN num[w] ELSE lo[v]
  OBVIOUS
<1>7. low' = [x \in DOMAIN num |-> IF x = v THEN l ELSE lo[x]]
  <2>1. lo[v] \in Nat /\ num[w] \in Nat /\ lo = [x \in DOMAIN num |-> lo[x]]
    BY <1>4, <1>6
  <2>2. Min({lo[v], num[w]}) = IF num[w] <= lo[v] THEN num[w] ELSE lo[v]
    <3>1. lo[v] \in Int /\ num[w] \in Int
      BY <2>1
    <3> QED
      BY ONLY <3>1, MinOfTwo
  <2>3. low' = IF w \in S THEN [lo EXCEPT ![v] = Min({lo[v], num[w]})] ELSE lo
    BY <1>3, <1>4, <1>6 DEF Back
  <2>4. CASE w \in S
    <3>1. l = Min({lo[v], num[w]})
      BY <1>6, <2>2, <2>4
    <3> QED
      BY <1>4, <2>3, <2>4, <3>1
  <2>5. CASE w \notin S
    <3>1. l = lo[v] /\ low' = lo
      BY <1>6, <2>3, <2>5
    <3> QED
      BY <2>1, <3>1
  <2> QED
    BY <2>4, <2>5
<1>8. Calls(frames') = Calls(fr)
  BY <1>3, <1>5 DEF Calls
<1>9. Lefts(frames') = [i \in 1 .. k |-> IF i = k THEN Lefts(fr)[i] \ {w} ELSE Lefts(fr)[i]]
  BY <1>3, <1>5 DEF Lefts
<1>10. Calls(fr)[k] = v /\ w \in Lefts(fr)[k]
  BY <1>3, <1>4, <1>6 DEF Calls, Lefts
<1>11. GraphSearch'
  <2>1. Search(Graph, num, lo, S, k, Calls(fr), Lefts(fr), Len(comps), comps)
    BY <1>3 DEF GraphInv, GraphSearch
  <2>2. PICK nd, lf : nd = Calls(fr) /\ lf = Lefts(fr)
    OBVIOUS
  <2>3. /\ Search(Graph, num, lo, S, k, nd, lf, Len(comps), comps) /\ w \in lf[k] /\ nd[k] = v
        /\ w \in DOMAIN num /\ k # 0
    BY <1>4, <1>10, <2>1, <2>2
  <2>4. Lefts(frames') = [i \in 1 .. k |-> IF i = k THEN lf[i] \ {w} ELSE lf[i]]
    BY <1>9, <2>2
  <2>5. /\ low' = [x \in DOMAIN num |-> IF x = nd[k] THEN l ELSE lo[x]]
        /\ l = IF w \in S /\ num[w] <= lo[nd[k]] THEN num[w] ELSE lo[nd[k]]
    BY <1>6, <1>7, <2>3
  <2>6. Search(Graph, num, low', S, k, nd, Lefts(frames'), Len(comps), comps)
    BY ONLY <2>3, <2>4, <2>5, SearchBack
  <2> QED
    BY <1>1, <1>2, <1>3, <1>5, <1>8, <2>2, <2>6 DEF GraphSearch, Calls, Lefts
<1>12. stage # "built"
  BY <1>1 DEF GraphInv, More
<1> QED
  BY <1>1, <1>2, <1>5, <1>11, <1>12 DEF GraphInv


\* A call is done.
LEMMA FinishNext == ASSUME GraphInv, Finish PROVE GraphInv'
<1>1. /\ frames # <<>> /\ ~More /\ frames' = Front(frames)
      /\ units' = units /\ stage' = stage /\ todo' = todo /\ visit' = visit
  BY DEF Finish
<1>2. Nodes' = Nodes /\ Graph' = Graph /\ Call' = Call /\ Seen' = Seen
  BY <1>1 DEF Graph, Nodes, Deps, Owners, Call, Seen
<1>3. PICK num, lo, k, S, fr, st, nd, lf, q, cs :
        num = visit /\ lo = low /\ k = Len(frames) /\ S = ToSet(stack) /\ fr = frames /\ st = stack
        /\ nd = Calls(frames) /\ lf = Lefts(frames) /\ q = Len(comps) /\ cs = comps
  OBVIOUS
<1>4. /\ k \in Nat \ {0} /\ k \in 1 .. k /\ DOMAIN num = Seen /\ DOMAIN fr = 1 .. k
      /\ num \in [Seen -> Nat] /\ lo \in [Seen -> Nat] /\ fr[k].node \in S /\ S \subseteq Seen
      /\ fr[k].left = {} /\ Top = fr[k] /\ q \in Nat /\ Seen \subseteq Nodes
  <2>1. k \in Nat \ {0} /\ k \in 1 .. k
    BY <1>1, <1>3 DEF GraphInv
  <2>2. Top = fr[k] /\ fr[k].left = {}
    BY <1>1, <1>3 DEF Top, Last, More
  <2>3. q \in Nat
    BY <1>3 DEF GraphInv
  <2> QED
    BY <1>3, <2>1, <2>2, <2>3, GraphTypes DEF Seen
<1>5. Search(Graph, num, lo, S, k, nd, lf, q, cs)
  BY <1>3 DEF GraphInv, GraphSearch
<1>6. PICK v : v = fr[k].node
  OBVIOUS
<1>7. nd[k] = v /\ lf[k] = {} /\ v \in S /\ v \in Seen
  BY <1>3, <1>4, <1>6 DEF Calls, Lefts
<1>8. /\ frames' \in Seq(Call) /\ Len(frames') = k - 1
      /\ \A i \in 1 .. k - 1 : frames'[i] = fr[i] /\ i \in 1 .. k
  <2> DEFINE R == Call
  <2>1. fr \in Seq(R) /\ frames' = SubSeq(fr, 1, k - 1) /\ Len(fr) = k /\ k \in Nat \ {0}
    BY <1>1, <1>3, <1>4 DEF Front, GraphInv
  <2> HIDE DEF R
  <2>2. frames' \in Seq(R) /\ Len(frames') = k - 1 /\ \A i \in 1 .. k - 1 : frames'[i] = fr[i] /\ i \in 1 .. k
    BY ONLY <2>1
  <2> QED
    BY <2>2 DEF R
<1>9. /\ Calls(frames') = [i \in 1 .. k - 1 |-> nd[i]]
      /\ Lefts(frames') = [i \in 1 .. k - 1 |-> lf[i]]
  BY <1>3, <1>8 DEF Calls, Lefts
<1>10. low' = IF k = 1 THEN lo ELSE [lo EXCEPT ![nd[k - 1]] = Min({lo[nd[k - 1]], lo[v]})]
  <2>1. low' = IF Front(frames) = <<>> THEN low
               ELSE [low EXCEPT ![Last(Front(frames)).node] = Min({@, low[Top.node]})]
    BY DEF Finish
  <2>2. CASE k = 1
    BY <1>1, <1>3, <1>8, <2>1, <2>2
  <2>3. CASE k # 1
    <3>1. Front(frames) # <<>> /\ Last(Front(frames)) = fr[k - 1] /\ k - 1 \in 1 .. k - 1
      BY <1>1, <1>4, <1>8, <2>3 DEF Last
    <3>2. nd[k - 1] = fr[k - 1].node
      BY <1>3, <1>8, <3>1 DEF Calls
    <3> QED
      BY <1>3, <1>4, <1>6, <2>1, <2>3, <3>1, <3>2
  <2> QED
    BY <2>2, <2>3
<1>11. /\ st \in Seq(Seen) /\ Rises(num, st)
       /\ cs \in Seq(SUBSET Nodes)
  BY <1>3 DEF GraphInv
<1>12. k # 1 => lo[nd[k - 1]] \in Nat /\ lo[v] \in Nat /\ lo[nd[k - 1]] <= num[nd[k - 1]]
                /\ num[nd[k - 1]] \in Nat /\ num[nd[k - 1]] < num[v]
  <2> SUFFICES ASSUME k # 1
               PROVE  /\ lo[nd[k - 1]] \in Nat /\ lo[v] \in Nat /\ lo[nd[k - 1]] <= num[nd[k - 1]]
                      /\ num[nd[k - 1]] \in Nat /\ num[nd[k - 1]] < num[v]
    OBVIOUS
  <2>1. k - 1 \in 1 .. k /\ k - 1 < k
    BY <1>4
  <2>2. nd[k - 1] \in S
    BY <1>5, <2>1 DEF Search, SearchTypes
  <2>3. lo[nd[k - 1]] <= num[nd[k - 1]]
    BY <1>5, <2>1 DEF Search, SearchLow
  <2>4. num[nd[k - 1]] < num[nd[k]]
    BY <1>4, <1>5, <2>1 DEF Search, SearchOrder
  <2> QED
    BY <1>4, <1>7, <2>2, <2>3, <2>4
<1>13. CASE lo[v] # num[v]
  <2>1. comps' = comps /\ stack' = stack
    BY <1>3, <1>4, <1>6, <1>13 DEF Finish
  <2>2. PICK l : l = IF lo[nd[k]] <= lo[nd[k - 1]] THEN lo[nd[k]] ELSE lo[nd[k - 1]]
    OBVIOUS
  <2>3. PICK lo2 : lo2 = [x \in DOMAIN num |-> IF x = nd[k - 1] THEN l ELSE lo[x]]
    OBVIOUS
  <2>4. k # 1 /\ Search(Graph, num, lo2, S, k - 1, Calls(frames'), Lefts(frames'), q, cs)
    <3>1. k # 0 /\ lf[k] = {} /\ lo[nd[k]] # num[nd[k]]
      BY <1>4, <1>7, <1>13
    <3> QED
      BY ONLY <1>5, <1>9, <2>2, <2>3, <3>1, SearchKeep
  <2>5. low' = lo2
    <3>1. lo[nd[k - 1]] \in Int /\ lo[v] \in Int
      BY <1>12, <2>4
    <3>2. Min({lo[nd[k - 1]], lo[v]}) = IF lo[v] <= lo[nd[k - 1]] THEN lo[v] ELSE lo[nd[k - 1]]
      BY ONLY <3>1, MinOfTwo
    <3>3. low' = [lo EXCEPT ![nd[k - 1]] = l]
      BY <1>7, <1>10, <2>2, <2>4, <3>2
    <3> QED
      BY <1>4, <2>3, <3>3
  <2>6. GraphSearch'
    BY <1>1, <1>2, <1>3, <1>8, <2>1, <2>4, <2>5 DEF GraphSearch, Calls, Lefts
  <2>7. stage # "built"
    BY <1>1 DEF GraphInv
  <2> QED
    BY <1>1, <1>2, <1>8, <2>1, <2>6, <2>7 DEF GraphInv
<1>14. CASE lo[v] = num[v]
  <2>1. PICK f : f = SelectInSeq(stack, LAMBDA w : w = Top.node)
    OBVIOUS
  <2>2. comps' = Append(cs, ToSet(SubSeq(st, f, Len(st)))) /\ stack' = SubSeq(st, 1, f - 1)
    BY <1>3, <1>4, <1>6, <1>14, <2>1 DEF Finish
  <2>3. f \in 1 .. Len(st) /\ st[f] = v
    <3>1. DOMAIN st = 1 .. Len(st) /\ Len(st) \in Nat
      BY <1>11
    <3>2. PICK i \in 1 .. Len(st) : st[i] = v
      BY <1>3, <1>7, <3>1 DEF ToSet
    <3>3. PICK I : I = {j \in 1 .. Len(st) : st[j] = v}
      OBVIOUS
    <3>4. I \in SUBSET Nat /\ I # {}
      BY <3>1, <3>2, <3>3
    <3>5. f = Min(I)
      BY <1>3, <1>4, <1>6, <2>1, <3>3, <3>4 DEF SelectInSeq
    <3> QED
      BY <3>3, <3>4, <3>5, MinOfSome
  <2>4. PICK C, S2 : C = From(num, S, v) /\ S2 = S \ C
    OBVIOUS
  <2>5. /\ ToSet(SubSeq(st, f, Len(st))) = C /\ ToSet(stack') = S2 /\ stack' \in Seq(Seen)
        /\ Rises(num, stack')
    <3>1. C = From(num, ToSet(st), st[f]) /\ S = ToSet(st)
      BY <1>3, <2>3, <2>4
    <3>2. PICK below : below = stack'
      OBVIOUS
    <3>3. f \in 1 .. Len(st) /\ num \in [Seen -> Nat] /\ below = CutOff(st, f)
      BY <1>4, <2>2, <2>3, <3>2 DEF CutOff
    <3>4. /\ ToSet(SubSeq(st, f, Len(st))) = C /\ ToSet(below) = ToSet(st) \ C /\ below \in Seq(Seen)
          /\ Rises(num, below)
      BY ONLY <1>11, <3>3, Cut, <3>1
    <3> QED
      BY <2>4, <3>1, <3>2, <3>4
  <2>6. comps' = [c \in 1 .. q + 1 |-> IF c = q + 1 THEN C ELSE cs[c]] /\ Len(comps') = q + 1
    <3>1. q = Len(cs) /\ cs \in Seq(SUBSET Nodes) /\ comps' = Append(cs, C)
      BY <1>3, <1>11, <2>2, <2>5
    <3>2. /\ Len(comps') = q + 1 /\ DOMAIN comps' = 1 .. q + 1 /\ comps'[q + 1] = C
          /\ \A c \in 1 .. q : comps'[c] = cs[c] /\ c # q + 1
          /\ \A c \in 1 .. q + 1 : c \in 1 .. q \/ c = q + 1
      BY ONLY <3>1
    <3>3. comps' = [c \in 1 .. q + 1 |-> comps'[c]]
      <4>1. C \in SUBSET Nodes
        BY <1>4, <2>4 DEF From
      <4>2. comps' \in Seq(SUBSET Nodes)
        BY ONLY <3>1, <4>1
      <4>3. comps' \in [1 .. q + 1 -> SUBSET Nodes]
        BY ONLY <3>2, <4>2
      <4> QED
        BY ONLY <4>3
    <3> QED
      BY ONLY <3>2, <3>3
  <2>7. Search(Graph, num, lo, S2, k - 1, Calls(frames'), Lefts(frames'), q + 1, comps')
    <3>1. k # 0 /\ lf[k] = {} /\ lo[nd[k]] = num[nd[k]] /\ C = From(num, S, nd[k])
      BY <1>4, <1>7, <1>14, <2>4
    <3>2. Pops(num, lo, S, k, nd, lf, q, cs, S2, Calls(frames'), Lefts(frames'), comps')
      BY ONLY <1>9, <2>4, <2>6, <3>1 DEF Pops
    <3> QED
      BY ONLY <1>5, <3>2, SearchPop
  <2>8. low' = lo
    <3>1. CASE k = 1
      BY <1>10, <3>1
    <3>2. CASE k # 1
      <4>1. lo[nd[k - 1]] \in Int /\ lo[v] \in Int /\ ~(lo[v] <= lo[nd[k - 1]])
        BY <1>12, <1>14, <3>2
      <4>2. Min({lo[nd[k - 1]], lo[v]}) = lo[nd[k - 1]]
        BY ONLY <4>1, MinOfTwo
      <4> QED
        BY <1>4, <1>10, <3>2, <4>2
    <3> QED
      BY <3>1, <3>2
  <2>9. GraphSearch'
    BY <1>1, <1>2, <1>3, <1>8, <2>5, <2>6, <2>7, <2>8 DEF GraphSearch, Calls, Lefts
  <2>10. comps' \in Seq(SUBSET Nodes)
    <3>1. C \in SUBSET Nodes
      BY <1>4, <2>4 DEF From
    <3> QED
      BY <1>11, <2>2, <2>5, <3>1
  <2>11. stage # "built"
    BY <1>1 DEF GraphInv
  <2>12. /\ \A x \in Seen : visit[x] < Cardinality(Seen) /\ stage \in {"scc", "built"} /\ units \in UnitSets
         /\ todo \in Seq(Nodes) /\ \A u \in Nodes \ Seen : \E i \in 1 .. Len(todo) : todo[i] = u
    BY DEF GraphInv
  <2> QED
    BY <1>1, <1>2, <1>3, <1>8, <2>5, <2>9, <2>10, <2>11, <2>12 DEF GraphInv
<1> QED
  BY <1>13, <1>14

LEMMA GraphInvNext == GraphInv /\ GraphNext => GraphInv'
<1> SUFFICES ASSUME GraphInv, GraphNext PROVE GraphInv'
  OBVIOUS
<1>1. ASSUME Built PROVE GraphInv'
  <2>1. /\ frames = <<>> /\ todo = <<>> /\ stage' = "built"
        /\ UNCHANGED <<units, todo, frames, stack, visit, low, comps>>
    BY <1>1 DEF Built
  <2>2. GraphSearch' /\ Nodes' = Nodes /\ Seen' = Seen /\ Call' = Call
    BY <2>1 DEF GraphInv, GraphSearch, Graph, Calls, Lefts, Nodes, Deps, Owners, Seen, Call
  <2> QED
    BY <2>1, <2>2 DEF GraphInv
<1> QED
  BY <1>1, RootNext, DescendNext, BackNext, FinishNext DEF GraphNext

---------------------------------------------------------------------------

LEMMA BuiltGraph ==
  ASSUME GraphInv, stage = "built"
  PROVE  /\ Partition(Graph, Len(comps), comps) /\ DOMAIN Graph = Nodes /\ Len(comps) \in Nat
         /\ DOMAIN comps = 1 .. Len(comps) /\ comps \in [1 .. Len(comps) -> SUBSET Nodes]
         /\ \A u \in Nodes : Graph[u] = Deps(u) /\ Deps(u) \subseteq Nodes
<1>1. /\ frames = <<>> /\ todo = <<>> /\ Len(frames) = 0 /\ Len(todo) = 0
  BY DEF GraphInv
<1>2. DOMAIN Graph = Nodes /\ Seen = Nodes /\ \A u \in Nodes : Deps(u) \subseteq Nodes
  <2>1. \A i : i \notin 1 .. 0
    OBVIOUS
  <2> QED
    BY <1>1, <2>1, GraphTypes DEF GraphInv
<1>3. PICK num, lo, S, k, nd, lf, q, cs :
        /\ num = visit /\ lo = low /\ S = ToSet(stack) /\ k = Len(frames) /\ nd = Calls(frames)
        /\ lf = Lefts(frames) /\ q = Len(comps) /\ cs = comps
  OBVIOUS
<1>4. Search(Graph, num, lo, S, k, nd, lf, q, cs) /\ k = 0 /\ DOMAIN num = DOMAIN Graph
  BY <1>1, <1>2, <1>3 DEF GraphInv, GraphSearch, Seen
<1>5. Partition(Graph, q, cs)
  BY <1>4, SearchDone
<1>6. comps \in Seq(SUBSET Nodes)
  BY DEF GraphInv
<1> QED
  BY <1>2, <1>3, <1>5, <1>6 DEF Graph

\* The component a node is in.
LEMMA CompOfIs ==
  ASSUME GraphInv, stage = "built", NEW u \in Nodes
  PROVE  /\ CompOf(u) \in 1 .. Len(comps) /\ u \in comps[CompOf(u)]
         /\ \A c \in 1 .. Len(comps) : u \in comps[c] => c = CompOf(u)
<1>1. \E c \in DOMAIN comps : u \in comps[c]
  BY BuiltGraph DEF Partition
<1>2. CompOf(u) \in DOMAIN comps /\ u \in comps[CompOf(u)]
  BY <1>1 DEF CompOf
<1>3. \A b, c \in 1 .. Len(comps) : b # c => comps[b] \cap comps[c] = {}
  BY BuiltGraph DEF Partition
<1> QED
  BY <1>2, <1>3, BuiltGraph

\* A component needs earlier ones only.
LEMMA DepsBefore ==
  ASSUME GraphInv, stage = "built", NEW c \in 1 .. Len(comps)
  PROVE  CompDeps(c) \subseteq 1 .. c - 1
<1> SUFFICES ASSUME NEW e \in CompDeps(c) PROVE e \in 1 .. c - 1
  OBVIOUS
<1>0. PICK u \in comps[c] : \E x \in Deps(u) : e = CompOf(x) /\ e # c
  BY DEF CompDeps
<1>1. PICK w \in Deps(u) : e = CompOf(w) /\ e # c
  BY <1>0
<1>2. u \in Nodes /\ w \in Nodes /\ Graph[u] = Deps(u)
  BY <1>1, BuiltGraph
<1>3. PICK b \in 1 .. c : w \in comps[b]
  BY <1>1, <1>2, BuiltGraph DEF Partition
<1>4. Len(comps) \in Nat
  BY BuiltGraph
<1>5. b \in 1 .. Len(comps)
  BY <1>4
<1>6. e = b
  BY <1>1, <1>2, <1>3, <1>5, CompOfIs
<1> QED
  BY <1>1, <1>6

\* The levels exist, and the first n components are on the first n of them.
LEMMA BelowIs ==
  ASSUME GraphInv, stage = "built"
  PROVE  /\ Below = [n \in 0 .. Len(comps) |->
                       IF n = 0 THEN {} ELSE {c \in DOMAIN comps : CompDeps(c) \subseteq Below[n - 1]}]
         /\ \A n \in 0 .. Len(comps) : 1 .. n \subseteq Below[n]
<1>1. PICK cnt, X : cnt = Len(comps) /\ X = DOMAIN comps
  OBVIOUS
<1>2. cnt \in Nat /\ X = 1 .. cnt
  BY <1>1, BuiltGraph
<1> DEFINE V == SUBSET X
           up == [n \in Nat |-> [s \in V |-> {c \in X : CompDeps(c) \subseteq s}]]
           body(f) == [n \in 0 .. cnt |-> IF n = 0 THEN {} ELSE {c \in X : CompDeps(c) \subseteq f[n - 1]}]
<1>3. \E f : f = body(f)
  <2>1. up \in [Nat -> [V -> V]] /\ {} \in V
    OBVIOUS
  <2>2. PICK f : Recurs(f, cnt, V, {}, up)
    <3> HIDE DEF V, up
    <3>1. up \in Steps(V)
      BY <2>1 DEF Steps
    <3>2. PICK z : z = {}
      OBVIOUS
    <3>3. \E f : Recurs(f, cnt, V, z, up)
      BY <1>2, <2>1, <3>1, <3>2, Recursion
    <3> QED
      BY <3>2, <3>3
  <2>3. /\ f \in [0 .. cnt -> V] /\ f[0] = {}
        /\ \A n \in 1 .. cnt : f[n] = up[n][f[n - 1]]
    BY <2>2 DEF Recurs
  <2>4. \A n \in 1 .. cnt : f[n] = {c \in X : CompDeps(c) \subseteq f[n - 1]}
    <3> SUFFICES ASSUME NEW n \in 1 .. cnt PROVE f[n] = {c \in X : CompDeps(c) \subseteq f[n - 1]}
      OBVIOUS
    <3>1. n \in Nat /\ n - 1 \in 0 .. cnt
      BY <1>2
    <3>2. f[n - 1] \in V
      BY <2>3, <3>1
    <3> QED
      BY <2>3, <3>1, <3>2
  <2>5. \A n \in 0 .. cnt : n = 0 \/ n \in 1 .. cnt
    BY <1>2
  <2>6. f = [n \in 0 .. cnt |-> f[n]]
    BY <2>3
  <2>7. f = body(f)
    BY <2>3, <2>4, <2>5, <2>6
  <2> QED
    BY <2>7
<1>4. Below = body(Below)
  <2>1. Below = CHOOSE f : f = body(f)
    BY <1>1 DEF Below
  <2> HIDE DEF body
  <2> QED
    BY <1>3, <2>1
<1>5. Below[0] = {} /\ \A n \in 1 .. cnt : Below[n] = {c \in X : CompDeps(c) \subseteq Below[n - 1]}
  <2>1. 0 \in 0 .. cnt /\ \A n \in 1 .. cnt : n \in 0 .. cnt /\ n # 0
    BY <1>2
  <2>2. PICK b : b = Below
    OBVIOUS
  <2>3. b = body(b)
    BY <1>4, <2>2
  <2>4. b[0] = {} /\ \A n \in 1 .. cnt : b[n] = {c \in X : CompDeps(c) \subseteq b[n - 1]}
    BY <2>1, <2>3
  <2> QED
    BY <2>2, <2>4
<1> DEFINE Lower == {n \in Nat : n <= cnt => 1 .. n \subseteq Below[n]}
<1>6. 0 \in Lower
  OBVIOUS
<1>7. ASSUME NEW n \in Nat, n \in Lower PROVE n + 1 \in Lower
  <2> SUFFICES ASSUME n + 1 <= cnt, NEW c \in 1 .. n + 1 PROVE c \in Below[n + 1]
    OBVIOUS
  <2>1. 1 .. n \subseteq Below[n] /\ n + 1 \in 1 .. cnt /\ (n + 1) - 1 = n /\ c \in 1 .. cnt /\ 1 .. c - 1 \subseteq 1 .. n
    BY <1>2, <1>7
  <2>2. CompDeps(c) \subseteq Below[n]
    BY <1>1, <2>1, DepsBefore
  <2> QED
    BY <1>2, <1>5, <2>1, <2>2
<1>8. Nat \subseteq Lower
  <2> HIDE DEF Lower
  <2> QED
    BY <1>6, <1>7, Induct
<1>9. \A n \in 0 .. cnt : 1 .. n \subseteq Below[n]
  <2>1. \A n \in 0 .. cnt : n \in Nat /\ n <= cnt
    BY <1>2
  <2> QED
    BY <1>8, <2>1
<1>10. Below = [n \in 0 .. Len(comps) |->
                  IF n = 0 THEN {} ELSE {c \in DOMAIN comps : CompDeps(c) \subseteq Below[n - 1]}]
  BY <1>1, <1>4, Zenon
<1> QED
  BY <1>1, <1>9, <1>10

\* What a component needs is on a lower level.
LEMMA LevelRises ==
  ASSUME GraphInv, stage = "built", NEW c \in 1 .. Len(comps), NEW e \in CompDeps(c)
  PROVE  Level(e) < Level(c) /\ Level(e) \in Nat /\ Level(c) \in Nat
<1>1. PICK cnt, b : cnt = Len(comps) /\ b = Below
  OBVIOUS
<1>2. cnt \in Nat /\ DOMAIN comps = 1 .. cnt /\ c \in 1 .. cnt
  BY <1>1, BuiltGraph
<1>3. /\ b[0] = {}
      /\ \A n \in 1 .. cnt : b[n] = {x \in 1 .. cnt : CompDeps(x) \subseteq b[n - 1]}
      /\ \A n \in 0 .. cnt : 1 .. n \subseteq b[n]
  <2>1. /\ b = [n \in 0 .. cnt |-> IF n = 0 THEN {} ELSE {x \in 1 .. cnt : CompDeps(x) \subseteq b[n - 1]}]
        /\ \A n \in 0 .. cnt : 1 .. n \subseteq b[n]
    BY <1>1, <1>2, BelowIs
  <2>2. 0 \in 0 .. cnt /\ \A n \in 1 .. cnt : n \in 0 .. cnt /\ n # 0
    BY <1>2
  <2> QED
    BY <2>1, <2>2
<1>4. e \in 1 .. cnt
  BY <1>1, <1>2, DepsBefore
<1> DEFINE On(x) == {n \in 0 .. cnt - 1 : x \in b[n + 1]}
<1>5. \A x \in 1 .. cnt : On(x) \in SUBSET Nat /\ On(x) # {} /\ Level(x) = Min(On(x))
  <2> SUFFICES ASSUME NEW x \in 1 .. cnt
               PROVE  On(x) \in SUBSET Nat /\ On(x) # {} /\ Level(x) = Min(On(x))
    OBVIOUS
  <2>1. x - 1 \in 0 .. cnt - 1 /\ (x - 1) + 1 = x /\ x \in 0 .. cnt /\ x \in 1 .. x
    BY <1>2
  <2>2. x - 1 \in On(x)
    BY <1>3, <2>1
  <2>3. Level(x) = Min(On(x))
    BY <1>1 DEF Level
  <2>4. On(x) \in SUBSET Nat
    BY <1>2
  <2> QED
    BY <2>2, <2>3, <2>4
<1>6. PICK l : l = Level(c)
  OBVIOUS
<1>7. l \in 0 .. cnt - 1 /\ c \in b[l + 1]
  <2>1. Level(c) \in On(c)
    <3> HIDE DEF On
    <3> QED
      BY <1>2, <1>5, MinOfSome
  <2> QED
    BY <1>6, <2>1
<1>8. e \in b[l]
  <2>1. l + 1 \in 1 .. cnt /\ (l + 1) - 1 = l
    BY <1>2, <1>7
  <2> QED
    BY <1>3, <1>7, <2>1
<1>9. l # 0
  BY <1>3, <1>8
<1>10. l - 1 \in On(e)
  <2>1. l - 1 \in 0 .. cnt - 1 /\ (l - 1) + 1 = l
    BY <1>2, <1>7, <1>9
  <2> QED
    BY <1>8, <2>1
<1>11. Level(e) <= l - 1 /\ Level(e) \in Nat
  <2> HIDE DEF On
  <2> QED
    BY <1>4, <1>5, <1>10, MinOfSome
<1> QED
  BY <1>2, <1>6, <1>7, <1>11

\* A kind moves a group back, if at all, to a level.
LEMMA PlanLevelIs ==
  ASSUME GraphInv, stage = "built", NEW c \in 1 .. Len(comps), comps[c] # {}
  PROVE  PlanLevel(c) = Level(c) \/ (PlanLevel(c) \in Nat /\ PlanLevel(c) > Level(c))
<1>1. PICK S : S = {Rank(units[u].kind) : u \in comps[c]}
  OBVIOUS
<1>2. S # {} /\ S \subseteq 0 .. 2
  BY <1>1 DEF Rank
<1>3. S \in SUBSET Nat /\ \A n \in S : n <= 2
  BY <1>2
<1>4. Max(S) \in S
  BY <1>2, <1>3, MaxOfSome
<1>5. Want(c) \in Nat
  BY <1>1, <1>3, <1>4 DEF Want
<1> QED
  BY <1>5 DEF PlanLevel

LEMMA ComponentsAre == GraphInv => ComponentsRight
<1> SUFFICES ASSUME GraphInv, stage = "built"
             PROVE  /\ \A u \in Nodes : Cardinality({c \in DOMAIN comps : u \in comps[c]}) = 1
                    /\ \A u, v \in Nodes : CompOf(u) = CompOf(v) <=> Reaches(Graph, u, v) /\ Reaches(Graph, v, u)
                    /\ \A u \in Nodes : \A v \in Deps(u) :
                         CompOf(u) # CompOf(v) =>
                           /\ Level(CompOf(v)) < Level(CompOf(u))
                           /\ PlanLevel(CompOf(v)) = Level(CompOf(v)) =>
                                PlanLevel(CompOf(v)) < PlanLevel(CompOf(u))
  <2>1. ASSUME GraphInv, stage = "built", NEW u \in Nodes, NEW v \in Nodes
        PROVE  Reaches(Graph, u, v) <=> \A s \in Closed : u \in s => v \in s
    BY <2>1, BuiltGraph DEF Reaches, Closed
  <2> QED
    BY <2>1 DEF ComponentsRight
<1>1. ASSUME NEW u \in Nodes PROVE Cardinality({c \in DOMAIN comps : u \in comps[c]}) = 1
  <2>1. {c \in DOMAIN comps : u \in comps[c]} = {CompOf(u)}
    BY BuiltGraph, CompOfIs
  <2> QED
    BY <2>1, FS_Singleton
<1>2. ASSUME NEW u \in Nodes, NEW v \in Nodes, CompOf(u) = CompOf(v) PROVE Reaches(Graph, u, v)
  BY <1>2, BuiltGraph, CompOfIs DEF Partition
<1>3. ASSUME NEW u \in Nodes, NEW v \in Nodes, Reaches(Graph, u, v) PROVE CompOf(v) <= CompOf(u)
  <2>1. PICK q, cs, a : q = Len(comps) /\ cs = comps /\ a = CompOf(u)
    OBVIOUS
  <2>2. Partition(Graph, q, cs) /\ u \in DOMAIN Graph /\ a \in 1 .. q /\ u \in cs[a]
    BY <2>1, BuiltGraph, CompOfIs
  <2>3. PICK b \in 1 .. a : v \in cs[b]
    BY <1>3, <2>2, ReachesBack
  <2>4. b \in 1 .. q /\ b <= a
    BY <2>1, <2>2, BuiltGraph
  <2> QED
    BY <2>1, <2>3, <2>4, CompOfIs
<1>4. ASSUME NEW u \in Nodes, NEW v \in Deps(u), CompOf(u) # CompOf(v)
      PROVE  /\ Level(CompOf(v)) < Level(CompOf(u))
             /\ PlanLevel(CompOf(v)) = Level(CompOf(v)) => PlanLevel(CompOf(v)) < PlanLevel(CompOf(u))
  <2>1. PICK c, d : c = CompOf(u) /\ d = CompOf(v)
    OBVIOUS
  <2>2. c \in 1 .. Len(comps) /\ u \in comps[c]
    BY <2>1, CompOfIs
  <2>3. d \in CompDeps(c)
    BY <1>4, <2>1, <2>2 DEF CompDeps
  <2>4. Level(d) < Level(c) /\ Level(d) \in Nat /\ Level(c) \in Nat
    BY <2>2, <2>3, LevelRises
  <2>5. PlanLevel(c) = Level(c) \/ (PlanLevel(c) \in Nat /\ PlanLevel(c) > Level(c))
    BY <2>2, PlanLevelIs
  <2> QED
    BY <2>1, <2>4, <2>5
<1>5. \A u \in Nodes : CompOf(u) \in Int
  BY CompOfIs
<1>6. ASSUME NEW u \in Nodes, NEW v \in Nodes, Reaches(Graph, u, v), Reaches(Graph, v, u)
      PROVE  CompOf(u) = CompOf(v)
  BY <1>3, <1>5, <1>6
<1> QED
  BY <1>1, <1>2, <1>4, <1>6

---------------------------------------------------------------------------

LEMMA CodegraphPart ==
  ASSUME [Next]_vars
  PROVE  /\ part' = part
         /\ part = "codegraph" => GraphNext \/ UNCHANGED graphVars
         /\ part = "judge" => JudgeNext \/ UNCHANGED claims
         /\ part = "drift" => DriftNext \/ UNCHANGED driftVars
  BY DEF Next, vars

\* Whatever the units need and the chunks and tiers say: the plan is made of the sets
\* of units that need each other; the condensation puts each on a higher level than all
\* it needs, and the plan after those of them that no kind pushed back; and the two
\* checks report what their documents say they do (dag.go:31-117, graph.go:252-275,
\* judge.go, drift.go).
THEOREM PlannedAndChecked == Spec => []CodegraphPromise
<1> DEFINE I == /\ part = "codegraph" => GraphInv
                /\ part = "judge" => ClaimsTyped
                /\ part = "drift" => DriftTyped
<1>1. Init => I
  BY GraphInvInit, ClaimsTypedInit, DriftTypedInit DEF Init
<1>2. I /\ [Next]_vars => I'
  <2> SUFFICES ASSUME I, [Next]_vars PROVE I'
    OBVIOUS
  <2>1. part = "codegraph" => GraphInv'
    <3>1. UNCHANGED graphVars /\ GraphInv => GraphInv'
      BY DEF graphVars, GraphInv, GraphSearch, Graph, Calls, Lefts, Nodes, Deps, Owners, Seen, Call
    <3> QED
      BY <3>1, CodegraphPart, GraphInvNext
  <2>2. part = "judge" => ClaimsTyped'
    <3>1. UNCHANGED claims /\ ClaimsTyped => ClaimsTyped'
      BY DEF ClaimsTyped
    <3> QED
      BY <3>1, CodegraphPart, ClaimsTypedNext
  <2>3. part = "drift" => DriftTyped'
    <3>1. UNCHANGED driftVars /\ DriftTyped => DriftTyped'
      BY DEF driftVars, DriftTyped
    <3> QED
      BY <3>1, CodegraphPart, DriftTypedNext
  <2> QED
    BY <2>1, <2>2, <2>3, CodegraphPart
<1>3. I => CodegraphPromise
  BY ComponentsAre, VerdictRight, DriftRight DEF CodegraphPromise
<1> QED
  BY <1>1, <1>2, <1>3, PTL DEF Spec
=============================================================================
