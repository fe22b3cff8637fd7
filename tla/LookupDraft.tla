----------------------------- MODULE LookupDraft -----------------------------
(***************************************************************************)
(* The lookup drafter (internal/draft/lookup.go) beside one sequence of    *)
(* the engine.  It keeps a history of tokens and proposes what followed    *)
(* the last N of them when they occurred before.  The engine reports to it *)
(* only through Seed, Draft, Accept and Release, and not on every pass: a  *)
(* pass without room and a replay ask for no draft.                        *)
(***************************************************************************)
EXTENDS Integers, Sequences, SequencesExt, FiniteSets, FiniteSetsExt

CONSTANTS
  Emitted,
  Prompts,    \* prompts a request may come with
  N,          \* length of a pattern
  MaxDraft,   \* longest proposal
  MaxHistory, \* 0 for no bound
  MaxOut      \* bound: tokens the model emits

\* Admission refuses an empty prompt.
ASSUME LookupAssumption ==
  /\ N \in Nat \ {0} /\ MaxDraft \in Int /\ MaxHistory \in Int
  /\ \A p \in Prompts : p # <<>> /\ p \in Seq(ToSet(p))

VARIABLES
  prompt, \* the prompt of the request, <<>> when the sequence is free
  out,    \* what the model has emitted for it
  hist,   \* hist[seq]
  last,   \* last[seq]
  draft,  \* the proposals the engine has staged
  missed  \* the engine staged a token without asking for a draft

lookupVars == <<prompt, out, hist, last, draft, missed>>

LookupInit ==
  /\ prompt = <<>> /\ out = <<>> /\ hist = <<>> /\ last = <<>> /\ draft = <<>>
  /\ missed = FALSE

---------------------------------------------------------------------------
(* lookup.go.                                                                *)

Trim(h) ==
  IF MaxHistory > 0 /\ Len(h) > MaxHistory THEN SubSeq(h, Len(h) - MaxHistory + 1, Len(h)) ELSE h

\* Where the last N tokens of h occur before their own place.
Earlier(h) == {i \in 1 .. Len(h) - N :
                 SubSeq(h, i, i + N - 1) = SubSeq(h, Len(h) - N + 1, Len(h))}

\* What followed them the last time, up to n tokens.
Proposal(h, n) ==
  IF n < 1 \/ Len(h) < N + 1 \/ Earlier(h) = {} THEN <<>>
  ELSE LET start == Max(Earlier(h)) + N IN SubSeq(h, start, Min({start + n - 1, Len(h)}))

\* Changed: the whole proposal is recorded.
AcceptedAll(n) == IF n > 0 THEN Trim(hist \o last) ELSE hist

\* Accept: the kept part of the last proposal enters the history.
Accepted(n) ==
  IF n > 0 /\ Len(last) >= n THEN Trim(hist \o SubSeq(last, 1, n)) ELSE hist

---------------------------------------------------------------------------
(* The engine's side of it.                                                  *)

\* The first harvest of a request seeds the drafter with the prompt and samples
\* the first token.
Seed ==
  /\ prompt = <<>>
  /\ \E p \in Prompts, t \in Emitted :
       /\ prompt' = p /\ out' = <<t>>
       /\ hist' = Trim(p)
  /\ last' = <<>> /\ draft' = <<>> /\ missed' = FALSE

\* tick asks for a draft of up to n tokens, as many as the batch has room for,
\* and stages as much of it as the batch takes.
Draft ==
  /\ prompt # <<>> /\ draft = <<>> /\ Len(out) < MaxOut
  /\ LET h == Trim(Append(hist, out[Len(out)])) IN
     \E n \in 1 .. MaxDraft :
       LET p == Proposal(h, Min({n, MaxDraft})) IN
       /\ hist' = h
       /\ last' = IF Len(h) < N + 1 THEN last ELSE p
       /\ \E k \in 0 .. Len(p), t \in Emitted :
            /\ draft' = SubSeq(p, 1, k)
            /\ out' = IF k = 0 THEN Append(out, t) ELSE out
  /\ UNCHANGED <<prompt, missed>>

\* A pass that stages the token, or a replay, and asks for nothing.
SkipDraft ==
  /\ prompt # <<>> /\ draft = <<>> /\ Len(out) < MaxOut
  /\ \E t \in Emitted : out' = Append(out, t)
  /\ missed' = TRUE
  /\ UNCHANGED <<prompt, hist, last, draft>>

\* harvest: the target keeps some of the draft and adds a token of its own, and
\* the drafter is told how many.
Verify ==
  /\ draft # <<>>
  /\ \E n \in 0 .. Len(draft), t \in Emitted :
       /\ n < Len(draft) => t # draft[n + 1]
       /\ out' = Append(out \o SubSeq(draft, 1, n), t)
       /\ hist' = Accepted(n)
  /\ last' = <<>> /\ draft' = <<>>
  /\ UNCHANGED <<prompt, missed>>

\* finish.
Release ==
  /\ prompt # <<>>
  /\ prompt' = <<>> /\ out' = <<>> /\ hist' = <<>> /\ last' = <<>> /\ draft' = <<>>
  /\ missed' = FALSE

LookupNext == Seed \/ Draft \/ SkipDraft \/ Verify \/ Release

---------------------------------------------------------------------------

\* How far s goes through h, taking from it what comes next in h.
Through(h, s) ==
  FoldLeft(LAMBDA i, t : IF i < Len(h) /\ h[i + 1] = t THEN i + 1 ELSE i, 0, s)

\* The history holds what was emitted, in its order, and nothing the model
\* rejected; and all of it, up to the bound, when the drafter was asked in every
\* pass (lookup.go:35-42, 139-143).
HistoryIsOutput ==
  LET upto == prompt \o (IF draft = <<>> THEN Front(out) ELSE out)
  IN prompt # <<>> =>
       /\ Through(hist, prompt \o out) = Len(hist)
       /\ ~missed => hist = Trim(upto)

\* "history matches what was really emitted ... This has to be exact"
\* (lookup.go:139-143): the drafter hears of a token when it is asked to draft behind
\* it, and a pass without room or a replay does not ask (engine.go:501-516, 539).
HistoryComplete ==
  prompt # <<>> => hist = Trim(prompt \o (IF draft = <<>> THEN Front(out) ELSE out))

\* What is proposed followed the same N tokens before: some place of the history
\* holds the pattern and then the proposal (lookup.go:95-100).
ProposalFollows ==
  draft # <<>> =>
    \E i \in 1 .. Len(hist) - N :
      /\ SubSeq(hist, i, i + N - 1) = SubSeq(hist, Len(hist) - N + 1, Len(hist))
      /\ IsPrefix(draft, SubSeq(hist, i + N, Len(hist)))
=============================================================================
