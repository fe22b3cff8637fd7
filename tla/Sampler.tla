------------------------------- MODULE Sampler -------------------------------
(***************************************************************************)
(* One sampler chain (internal/llama/sampler.go): what NewSampler builds,  *)
(* the scan that stands for a greedy chain, and selectCandidates, which    *)
(* hands the chain a part of the vocabulary.  Logits are integers and a    *)
(* bucket of the histogram holds one of them.  A token is drawn from a     *)
(* pool: nucleus, min-p, temperature and the draw itself narrow it further *)
(* by what is in it and by nothing else.                                   *)
(***************************************************************************)
EXTENDS Integers, FiniteSets, Sequences, FiniteSetsExt

CONSTANTS
  NVocab,
  LogitLists, \* what a forward pass may leave: [1 .. NVocab -> Int]
  Masks,      \* sets of tokens a grammar may allow next
  ParamSets,
  Lo, Hi,     \* histLo, histHi
  Stride,     \* histStride
  Margin,     \* histMargin
  Slack       \* the extra margin of truncN

\* Most numbers of a chain may be negative: nothing refuses one.  The repeat penalty
\* divides and is whole.  A grammar lets something follow, if only the end.
ASSUME SamplerAssumption ==
  /\ NVocab \in Nat \ {0} /\ Stride \in Nat \ {0} /\ {Lo, Hi, Margin} \subseteq Int /\ Slack \in Nat
  /\ LogitLists \subseteq [1 .. NVocab -> Int]
  /\ \A mask \in Masks : mask # {} /\ mask \subseteq 1 .. NVocab
  /\ \A p \in ParamSets :
       /\ {p.temp, p.topK, p.minKeep, p.lastN, p.freq, p.presence} \subseteq Int
       /\ p.repeat \in Nat \ {0} /\ p.grammar \in BOOLEAN

VARIABLES
  params, \* [temp, topK, minKeep, lastN, repeat, freq, presence, grammar]
  window  \* the tokens the penalties look at, the latest last

samplerVars == <<params, window>>

Vocab == 1 .. NVocab

\* What a grammar may allow next; without one, everything.
Allowed == IF params.grammar THEN Masks ELSE {Vocab}

SamplerInit == params \in ParamSets /\ window = <<>>

---------------------------------------------------------------------------
(* NewSampler.                                                               *)

Penalises == /\ params.lastN > 0
             /\ params.repeat # 1 \/ params.freq # 0 \/ params.presence # 0

GreedyDirect == params.temp <= 0 /\ ~params.grammar /\ ~Penalises

\* Changed: as many candidates as top-k keeps.
TruncTopK ==
  IF params.temp > 0 /\ params.topK > 0 /\ params.topK < NVocab THEN params.topK ELSE 0

\* How many candidates the chain is given, 0 for all.
TruncN ==
  LET n == Max({params.topK + params.lastN + Slack, params.minKeep})
  IN IF params.temp > 0 /\ params.topK > 0 /\ n < NVocab THEN n ELSE 0

---------------------------------------------------------------------------
(* selectCandidates.                                                         *)

Capped(l) == Min({l, Hi})

\* The cutoff, or nothing: the highest bucket with enough of every stride-th
\* logit at or above it, and a margin below.
CutoffFor(logits, stride) ==
  LET read == {i \in Vocab : (i - 1) % stride = 0 /\ logits[i] >= Lo}
      target == Max({1, TruncN \div stride})
      enough == {b \in Lo .. Hi : Cardinality({i \in read : Capped(logits[i]) >= b}) >= target}
  IN IF enough = {} THEN {} ELSE {Max({Lo, Max(enough) - Margin})}

Above(logits, cutoff) == {i \in Vocab : \E c \in cutoff : logits[i] >= c}

\* The candidates: by the estimate, by every logit where that places no cutoff or
\* one that is too high, and none when neither finds enough.
SelectCandidates(logits) ==
  LET estimate == CutoffFor(logits, Stride)
      exact == CutoffFor(logits, 1)
      first == Above(logits, IF estimate = {} THEN exact ELSE estimate)
      second == Above(logits, exact)
  IN IF TruncN <= 0 THEN {}
     ELSE IF Cardinality(first) >= TruncN THEN first
     ELSE IF Cardinality(second) >= TruncN THEN second ELSE {}

Candidates(logits) ==
  LET some == SelectCandidates(logits) IN IF some = {} THEN Vocab ELSE some

---------------------------------------------------------------------------
(* Sample.                                                                   *)

Count(t) == Cardinality({i \in DOMAIN window : window[i] = t})

Penalised(t, l) ==
  LET r == IF l > 0 THEN l \div params.repeat ELSE l * params.repeat
  IN IF Penalises /\ Count(t) > 0 THEN r - Count(t) * params.freq - params.presence ELSE l

\* What a chain over some candidates may draw: what the grammar allows of them,
\* or anything where it allows none; the first of the best without a temperature,
\* the best topK with one.
Pool(logits, mask, cands) ==
  LET valid == IF params.grammar /\ mask \cap cands # {} THEN mask \cap cands ELSE cands
      value(t) == Penalised(t, logits[t])
      better(t) == {u \in valid : value(u) > value(t)}
  IN IF params.temp <= 0 THEN {Min({t \in valid : better(t) = {}})}
     ELSE IF params.topK > 0 THEN {t \in valid : Cardinality(better(t)) < params.topK}
     ELSE valid

\* The scan: the earliest of the highest logits.
Scan(logits) == Min({t \in Vocab : \A u \in Vocab : logits[u] <= logits[t]})

\* What Sample returns.
Drawn(logits, mask) ==
  IF GreedyDirect THEN {Scan(logits)} ELSE Pool(logits, mask, Candidates(logits))

Windowed(t) ==
  LET all == Append(window, t) IN SubSeq(all, Max({1, Len(all) - params.lastN + 1}), Len(all))

\* A scan accepts nothing, a chain what it drew.
Sample ==
  /\ \E logits \in LogitLists, mask \in Allowed : \E t \in Drawn(logits, mask) :
       window' = IF GreedyDirect THEN window ELSE Windowed(t)
  /\ UNCHANGED params

\* Without a buffer the library's own helper runs the chain over everything.
SampleByLibrary ==
  /\ ~GreedyDirect
  /\ \E logits \in LogitLists, mask \in Allowed : \E t \in Pool(logits, mask, Vocab) :
       window' = Windowed(t)
  /\ UNCHANGED params

Reset == window' = <<>> /\ UNCHANGED params

SamplerNext == Sample \/ SampleByLibrary \/ Reset

---------------------------------------------------------------------------

\* Penalties of at least their neutral values, which "can only LOWER a logit"
\* (sampler.go:137-140); a request may ask for others (types.go:71-73).
Lowering == params.repeat >= 1 /\ params.freq >= 0 /\ params.presence >= 0

\* The window is a number of tokens; a manifest may say less than nothing, and
\* below the slack fewer candidates are kept than top-k wants (sampler.go:147).
WindowCounts == params.lastN + Slack >= 0

\* Neither short cut can be seen where the penalties lower and the window counts:
\* whatever was generated before, a narrowed chain draws from what it would draw from
\* with the whole vocabulary, and a scan finds what the greedy chain would
\* (sampler.go:119-120, 134-145, 239-243).  A chain with a grammar that is not
\* narrowed (TruncN <= 0) draws what the grammar allows.
ShortcutsUnseen ==
  \A logits \in LogitLists, mask \in Allowed :
    IF params.grammar THEN TruncN <= 0 => Drawn(logits, mask) \subseteq mask
    ELSE Lowering /\ WindowCounts => Drawn(logits, mask) = Pool(logits, mask, Vocab)

\* "A grammar belongs first in the sampler chain, and it must disable every fast
\* path" (docs/INVARIANTS.md:234): it does not disable the narrowing
\* (sampler.go:146), which may leave nothing the grammar allows.
GrammarObeyed ==
  params.grammar => \A logits \in LogitLists, mask \in Masks : Drawn(logits, mask) \subseteq mask

\* "every sampler that runs before the truncation can only LOWER a logit"
\* (sampler.go:137): a negative penalty raises one, and what was cut off before
\* the penalties may be what top-k of the whole vocabulary would have kept.
NarrowingUnseen ==
  WindowCounts /\ ~params.grammar =>
    \A logits \in LogitLists : Drawn(logits, Vocab) = Pool(logits, Vocab, Vocab)
=============================================================================
