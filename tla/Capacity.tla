------------------------------ MODULE Capacity ------------------------------
(***************************************************************************)
(* What fits on a card (internal/llama/fit.go): three calculations over    *)
(* one file and one card, made for the same report: the context that fits, *)
(* whether so many streams of so much context do and by how much they do   *)
(* not, and what they leave for the weights.  Bytes per element are        *)
(* counted in quarters.                                                    *)
(***************************************************************************)
EXTENDS Integers, FiniteSets, FiniteSetsExt

CONSTANTS
  Shapes,          \* [layers, interval, heads, width]: keys and values together
  Heads,           \* MTP layers a file may declare
  WeightSizes, Cards, Overheads,
  DefaultOverhead,
  StreamCounts, Shares,
  Precisions       \* 8, 4, 3 and 2: f16, q8_0, q5_1 and q4_0

\* Shape.Valid, and a layer's keys and values of a token are whole bytes, as the
\* blocks of the quantized types are.
ASSUME CapacityAssumption ==
  /\ \A s \in Shapes : /\ s \in [layers : Nat \ {0}, interval : Int, heads : Nat \ {0},
                               width : Nat \ {0}]
                      /\ \A p \in Precisions : (s.width * p) % 4 = 0
  /\ Precisions \subseteq Nat \ {0} /\ Heads \subseteq Int
  /\ WeightSizes \subseteq Nat /\ Cards \subseteq Nat /\ Overheads \subseteq Nat
  /\ DefaultOverhead \in Nat
  /\ StreamCounts \subseteq Int /\ Shares \subseteq Nat

VARIABLES
  in,    \* FitInput
  target \* [streams, perStream]

capacityVars == <<in, target>>

CapacityInit ==
  /\ in \in [shape : Shapes, mtp : Heads, speculate : BOOLEAN, weights : WeightSizes,
             vram : Cards, overhead : Overheads]
  /\ target = [streams |-> 0, perStream |-> 0]

\* fit --streams --context.
Ask ==
  /\ target.streams = 0
  /\ target' \in [streams : StreamCounts, perStream : Shares]
  /\ UNCHANGED in

CapacityNext == Ask

---------------------------------------------------------------------------

\* One layer of every n of a hybrid caches, a rest of fewer than n included.
KVLayers(s) == IF s.interval > 1 THEN Max({1, (s.layers + s.interval - 1) \div s.interval}) ELSE s.layers

KVBytesPerToken(s, p) == KVLayers(s) * s.heads * s.width * p

\* The draft context caches the head's layers in full.
MTPPerToken(i, p) == IF i.speculate /\ i.mtp > 0 THEN i.mtp * i.shape.heads * i.shape.width * p ELSE 0

Overhead(i) == IF i.overhead = 0 THEN DefaultOverhead ELSE i.overhead

KVBudget(i) == i.vram - i.weights - Overhead(i)
PerToken(i, p) == KVBytesPerToken(i.shape, p) + MTPPerToken(i, p)

\* Fit: TotalTokens.
TotalTokens(i, p) ==
  IF KVBudget(i) > 0 /\ PerToken(i, p) > 0 THEN (4 * KVBudget(i)) \div PerToken(i, p) ELSE 0

Wanted == target.streams * target.perStream

\* Changed: the draft context is not charged.
NeedOfTarget(i, p) == (Wanted * KVBytesPerToken(i.shape, p)) \div 4

Need(i, p) == (Wanted * PerToken(i, p)) \div 4

\* PlanFor.
Fits(i, p) == KVBudget(i) >= Need(i, p)
ShortBy(i, p) == IF Fits(i, p) THEN 0 ELSE Need(i, p) - KVBudget(i)

\* BudgetFor: Bytes.
WeightBudget(i, p) == i.vram - Need(i, p) - Overhead(i)

---------------------------------------------------------------------------

\* The three calculations agree: a target fits exactly when it is within the total
\* context, and when the weights are within what it leaves for them; the shortfall is
\* the memory that is missing and not a byte more (fit.go:214-218, 225-228, 246-249).
PlansAgree ==
  target.streams > 0 =>
    \A p \in Precisions :
      /\ Fits(in, p) <=> KVBudget(in) >= 0 /\ Wanted <= TotalTokens(in, p)
      /\ Fits(in, p) <=> in.weights <= WeightBudget(in, p)
      /\ ~Fits(in, p) => /\ Fits([in EXCEPT !.vram = @ + ShortBy(in, p)], p)
                         /\ ~Fits([in EXCEPT !.vram = @ + ShortBy(in, p) - 1], p)
=============================================================================
