------------------------------- MODULE Prefix -------------------------------
(***************************************************************************)
(* One prefix for many prompts (internal/prefix), over a runner's context  *)
(* (internal/llama/prefixcache.go, binding.go): Analyse finds what they    *)
(* share, Share evaluates it once, batch by batch, and has the library     *)
(* copy its cells.  The library may keep nothing, may ignore a copy        *)
(* without a word, and may fail a decode.                                  *)
(***************************************************************************)
EXTENDS Integers, Sequences, SequencesExt, FiniteSets, FiniteSetsExt

CONSTANTS
  PromptLists, \* sequences of prompts; prompt i goes to sequence i
  Capacities   \* of a batch

\* Analyse refuses an empty list of prompts.
ASSUME PrefixAssumption ==
  /\ \A list \in PromptLists : list # <<>> /\ list \in Seq(Seq(UNION {ToSet(list[i]) : i \in DOMAIN list}))
  /\ Capacities \subseteq Nat \ {0}

VARIABLES
  prompts,
  unified,  \* the cache is one buffer
  remembers, \* the context has a memory at all
  capacity,
  cells,    \* [sequences -> the tokens at positions 0, 1, ...]
  off,      \* tokens of the prefix that have been decoded
  next,     \* the next sequence of the copying loop
  sharing        \* "start", "decode", "copy", "shared", "failed"

prefixVars == <<prompts, unified, remembers, capacity, cells, off, next, sharing>>

Indices == DOMAIN prompts

PrefixInit ==
  /\ prompts \in PromptLists /\ unified \in BOOLEAN /\ remembers \in BOOLEAN
  /\ capacity \in Capacities
  /\ cells = [i \in Indices |-> <<>>]
  /\ off = 0 /\ next = 1 /\ sharing = "start"

---------------------------------------------------------------------------
(* Analyse.                                                                  *)

Shortest == Min({Len(prompts[i]) : i \in Indices})

\* One number after another is added.
Total(list) == FoldLeft(LAMBDA n, x : n + x, 0, list)

TotalLen == Total([i \in Indices |-> Len(prompts[i])])

SameFirst(n) == \A i \in Indices : SubSeq(prompts[i], 1, n) = SubSeq(prompts[1], 1, n)

\* Changed: a prompt may be shared to its end.
SharedWhole ==
  IF Len(prompts) = 1 THEN 0 ELSE Max({n \in 0 .. Shortest : SameFirst(n)})

\* Every sequence keeps a token to decode.
SharedLen ==
  IF Len(prompts) = 1 THEN 0
  ELSE Max({n \in 0 .. Max({Shortest - 1, 0}) : SameFirst(n)})

Shared == SubSeq(prompts[1], 1, SharedLen)
Suffix(i) == SubSeq(prompts[i], SharedLen + 1, Len(prompts[i]))
Saved == SharedLen * (Len(prompts) - 1)

---------------------------------------------------------------------------
(* Share, on the donor 1.                                                    *)

PosMax(s) == Len(cells[s]) - 1

StartShare ==
  /\ sharing = "start"
  /\ sharing' = CASE SharedLen = 0 -> "shared" [] SharedLen > 0 /\ ~unified -> "failed"
             [] OTHER -> "decode"
  /\ UNCHANGED <<prompts, unified, remembers, capacity, cells, off, next>>

\* DecodeSeq: one batch, from the position behind the last one.
DecodeBatch ==
  /\ sharing = "decode" /\ off < SharedLen
  /\ LET end == Min({off + capacity, SharedLen}) IN
     /\ off' = end
     /\ cells' = IF remembers THEN [cells EXCEPT ![1] = @ \o SubSeq(Shared, off + 1, end)] ELSE cells
  /\ UNCHANGED <<prompts, unified, remembers, capacity, next, sharing>>

DecodeFails ==
  /\ sharing = "decode" /\ off < SharedLen
  /\ sharing' = "failed"
  /\ UNCHANGED <<prompts, unified, remembers, capacity, cells, off, next>>

\* Does the donor hold what was decoded?
DonorHolds ==
  /\ sharing = "decode" /\ off = SharedLen
  /\ sharing' = IF PosMax(1) = SharedLen - 1 THEN "copy" ELSE "failed"
  /\ next' = 2
  /\ UNCHANGED <<prompts, unified, remembers, capacity, cells, off>>

\* CopyPrefix and the question whether it did anything: SeqCp's own, whether the
\* destination holds something, is part of it.
CopyPrefix ==
  /\ sharing = "copy" /\ next \in Indices
  /\ \/ cells' = [cells EXCEPT ![next] = SubSeq(cells[1], 1, SharedLen)]
     \/ UNCHANGED cells
  /\ IF Len(cells'[next]) - 1 = SharedLen - 1
     THEN next' = next + 1 /\ UNCHANGED sharing ELSE sharing' = "failed" /\ UNCHANGED next
  /\ UNCHANGED <<prompts, unified, remembers, capacity, off>>

Done ==
  /\ sharing = "copy" /\ next \notin Indices
  /\ sharing' = "shared"
  /\ UNCHANGED <<prompts, unified, remembers, capacity, cells, off, next>>

PrefixNext == StartShare \/ DecodeBatch \/ DecodeFails \/ DonorHolds \/ CopyPrefix \/ Done

---------------------------------------------------------------------------

\* After a share without an error every sequence holds exactly the tokens its prompt
\* begins with and still has one to decode, what was saved is what need not be
\* decoded, and no longer prefix would have done (prefix.go:79-82, 137-142); at no
\* time does a sequence hold a token that is not its prompt's (prefix.go:58-63).
ShareSound ==
  /\ sharing = "shared" =>
       /\ \A i \in Indices : prompts[i] # <<>> => cells[i] \o Suffix(i) = prompts[i] /\ Suffix(i) # <<>>
       /\ TotalLen - Saved = SharedLen + Total([i \in Indices |-> Len(Suffix(i))])
       /\ \A n \in 0 .. Shortest - 1 : Len(prompts) > 1 /\ SameFirst(n) => n <= SharedLen
  /\ \A i \in Indices : IsPrefix(cells[i], prompts[i])
=============================================================================
