------------------------------ MODULE DecodeState ------------------------------
(***************************************************************************)
(* What tick and harvest of internal/engine/engine.go do to the tokens of  *)
(* the sequences: the cache and the recurrent state of the backend, the    *)
(* drafts that are staged and taken back, the snapshot and the replay of a *)
(* cache that cannot be trimmed, the prefixes that slots share, and the    *)
(* sampler history of a sequence.  EngineLoop models the streams, the      *)
(* queue and the order of admission; here a request starts when a sequence *)
(* is free.                                                                *)
(*                                                                         *)
(* The model is greedy: Target(h) is its token after the history h.  The   *)
(* entries of a batch are kept by sequence, and a position of a sequence   *)
(* names the entry (the code's batch index).  A definition marked          *)
(* "Changed" is the next one with a bug; no action uses it.                *)
(***************************************************************************)
EXTENDS Integers, Sequences, FiniteSets, SequencesExt, Functions

CONSTANTS
  Requests,    \* the requests
  None,        \* no request
  NSeqMax,     \* Backend.NSeqMax
  BatchCap,    \* Backend.BatchCap
  NCtxSeq,     \* Backend.NCtxSeq: the cells one sequence may hold
  MaxDraft,    \* Drafter.MaxDraft, 0 for no drafter
  Vocabulary,  \* the tokens of the model; 0 is the zero value of a Token
  EOS,         \* the token that ends an answer
  Target(_),   \* the token the model chooses after a history
  Caches,      \* the kinds of cache a backend of this instance may have
  MinShared,   \* minSharedPrefix (256 in the code), 0 for no PrefixSharer
  Prompt,      \* the tokens of a request's prompt
  MaxTokens,   \* Request.MaxTokens, 0 for no limit
  Media,       \* the requests that carry media
  Impatient,   \* the requests whose callers may cancel
  Faults       \* which backend calls may fail in this instance

FaultKinds == {"nokv", "checkpoint", "rollback", "trim", "media"}

ASSUME DecodeAssumption ==
  /\ None \notin Requests
  /\ {NSeqMax, BatchCap, NCtxSeq} \subseteq Nat \ {0}
  /\ {MaxDraft, MinShared} \subseteq Nat
  /\ Vocabulary \subseteq Nat /\ {0, EOS} \subseteq Vocabulary
  /\ Caches \subseteq {"trim", "rewind"}
  /\ Prompt \in [Requests -> Seq(Vocabulary) \ {<<>>}]
  /\ MaxTokens \in [Requests -> Nat]
  /\ Media \subseteq Requests /\ Impatient \subseteq Requests
  /\ Faults \subseteq FaultKinds

Seqs == 0 .. NSeqMax - 1

VARIABLES
  cache,     \* "trim": cut at any position; "rewind": needs a Rewinder
  pc,        \* where tick is
  todo,      \* the sequences a range over active has not reached yet
  drafting,  \* e.drafter is still set
  slot,      \* [Seqs -> the slot of the sequence, or NoSlot]
  turn,      \* the sequence harvest is at, and what verify returned for it
  batch,     \* [Seqs -> the tokens staged for the sequence]
  cells,     \* [Seqs -> the cells <<position, token>> tagged with it]
  state,     \* [Seqs -> the tokens its recurrent state has been through]
  snapshot,  \* [Seqs -> the state Checkpoint saved]
  window,    \* [Seqs -> the tokens its sampler has accepted]
  answer,    \* [Requests -> the tokens emitted]
  ended,     \* [Requests -> the reason of the final event, "none" before it]
  cancelled  \* the requests whose callers cancelled

backend == <<batch, cells, state, snapshot, window>>
callers == <<answer, ended, cancelled>>
vars    == <<cache, pc, todo, drafting, slot, turn, backend, callers>>

NoSlot == [req |-> None]
NoTurn == [seq |-> 0, kept |-> 0, reason |-> "none"]

NewSlot(r) ==
  [req |-> r, pending |-> Prompt[r], pos |-> 0, next |-> 0, primed |-> FALSE,
   hasLogits |-> FALSE, draft |-> <<>>, spec |-> <<>>, committed |-> <<>>,
   replay |-> <<>>, replayFrom |-> 0]

Active == {q \in Seqs : slot[q] # NoSlot}
Live(q) == slot[q].req \notin cancelled
\* Changed: drafts and prompts ignore what is left of the batch.
LeastUnbounded(a, b) == a
Least(a, b) == IF a < b THEN a ELSE b
BatchLen == Cardinality(UNION {{q} \X DOMAIN batch[q] : q \in Seqs})
Room == BatchCap - BatchLen

-----------------------------------------------------------------------------
(* The backend.                                                            *)

PosMax(C) == IF C = {} THEN -1 ELSE Max({c[1] : c \in C})
CellsFrom(p, toks) == {<<p + i - 1, toks[i]>> : i \in DOMAIN toks}
CellsBefore(C, p) == {c \in C : c[1] < p}

\* The model reads one token at each position up to p, and a recurrent state
\* that has been through the same tokens; anything else is not a history, and
\* what it yields is no token of the model.
Garbage == -1
Sample(q, p) ==
  LET C == CellsBefore(cells[q], p + 1)
      h == [i \in 1 .. p + 1 |-> (CHOOSE c \in C : c[1] = i - 1)[2]]
      sound == /\ {c[1] : c \in C} = 0 .. p /\ Cardinality(C) = p + 1
               /\ cache = "rewind" => IsPrefix(h, state[q])
  IN IF sound THEN Target(h) ELSE Garbage

-----------------------------------------------------------------------------
(* Between ticks.                                                          *)

Init ==
  /\ cache \in Caches
  /\ pc = "top" /\ todo = {} /\ drafting = (MaxDraft > 0)
  /\ slot = [q \in Seqs |-> NoSlot] /\ turn = NoTurn
  /\ batch = [q \in Seqs |-> <<>>]
  /\ cells = [q \in Seqs |-> {}]
  /\ state = [q \in Seqs |-> <<>>]
  /\ snapshot = [q \in Seqs |-> <<>>]
  /\ window = [q \in Seqs |-> <<>>]
  /\ answer = [r \in Requests |-> <<>>]
  /\ ended = [r \in Requests |-> "none"]
  /\ cancelled = {}

Fresh(r) == ended[r] = "none" /\ \A q \in Seqs : slot[q].req # r

Admit(r, q) ==
  /\ pc = "top" /\ q \notin Active /\ Fresh(r)
  /\ slot' = [slot EXCEPT ![q] = NewSlot(r)]
  /\ UNCHANGED <<pc, todo, drafting, turn, backend, callers>>

Cancel(r) ==
  /\ r \in Impatient \ cancelled
  /\ ended[r] = "none" /\ ~Fresh(r)
  /\ cancelled' = cancelled \cup {r}
  /\ UNCHANGED <<pc, todo, drafting, slot, turn, backend, answer, ended>>

\* BatchClear, and the marks of the last tick.
TickStart ==
  /\ pc = "top" /\ Active # {}
  /\ pc' = "media"
  /\ todo' = Active
  /\ batch' = [q \in Seqs |-> <<>>]
  /\ slot' = [q \in Seqs |->
       IF q \in Active
       THEN [slot[q] EXCEPT !.hasLogits = FALSE, !.draft = <<>>, !.spec = <<>>,
                            !.committed = <<>>]
       ELSE NoSlot]
  /\ UNCHANGED <<drafting, turn, cells, state, snapshot, window, callers>>

\* Changed: the sampler is not reset.
FinishKeepsWindow(q, reason) ==
  /\ slot' = [slot EXCEPT ![q] = NoSlot]
  /\ cells' = [cells EXCEPT ![q] = {}]
  /\ state' = [state EXCEPT ![q] = <<>>]
  /\ snapshot' = [snapshot EXCEPT ![q] = <<>>]
  /\ ended' = [ended EXCEPT ![slot[q].req] = reason]
  /\ UNCHANGED window

\* finish: FreeSeq drops the cells and resets the sampler, DropCheckpoint the
\* snapshot; the sequence is free again.
Finish(q, reason) ==
  /\ slot' = [slot EXCEPT ![q] = NoSlot]
  /\ cells' = [cells EXCEPT ![q] = {}]
  /\ state' = [state EXCEPT ![q] = <<>>]
  /\ snapshot' = [snapshot EXCEPT ![q] = <<>>]
  /\ window' = [window EXCEPT ![q] = <<>>]
  /\ ended' = [ended EXCEPT ![slot[q].req] = reason]
-----------------------------------------------------------------------------
(* tick: media prefill, which writes the cache without the shared batch.   *)

Unread(q) == ~slot[q].primed /\ slot[q].req \in Media /\ Live(q)

PrefillMedia(q) ==
  LET toks == Prompt[slot[q].req] IN
  /\ pc = "media" /\ q \in todo /\ Unread(q)
  /\ todo' = todo \ {q}
  /\ \/ /\ cells' = [cells EXCEPT ![q] = @ \cup CellsFrom(0, toks)]
        /\ state' = [state EXCEPT ![q] = @ \o toks]
        /\ slot' = [slot EXCEPT ![q] = [@ EXCEPT !.pos = Len(toks), !.pending = <<>>,
                                                 !.primed = TRUE, !.hasLogits = TRUE]]
        /\ UNCHANGED <<snapshot, window, ended>>
     \/ "media" \in Faults /\ Finish(q, "error")
  /\ UNCHANGED <<pc, drafting, turn, batch, answer, cancelled>>

MediaEnd ==
  /\ pc = "media" /\ \A q \in todo : ~Unread(q)
  /\ pc' = "pass1"
  /\ todo' = Active
  /\ UNCHANGED <<drafting, slot, turn, backend, callers>>

-----------------------------------------------------------------------------
(* tick, pass 1: the running streams.                                      *)

Running(q) == pc = "pass1" /\ q \in todo /\ Room > 0 /\ slot[q].primed /\ Live(q)

\* Without a snapshot nothing is drafted.
Checkpoint(q, k) ==
  \/ snapshot' = [snapshot EXCEPT ![q] = state[q]]
  \/ "checkpoint" \in Faults /\ k = 0 /\ snapshot' = [snapshot EXCEPT ![q] = <<>>]

\* The sampled token goes in, then the drafts that still fit.  A cache that
\* needs it is snapshotted first.
StageNext(q) ==
  LET s == slot[q]
      n == IF drafting THEN Least(MaxDraft, Room - 1) ELSE 0 IN
  /\ Running(q) /\ s.replay = <<>>
  /\ \E k \in 0 .. n : \E draft \in [1 .. k -> Vocabulary] :
       /\ IF cache = "rewind" /\ n > 0 THEN Checkpoint(q, k) ELSE UNCHANGED snapshot
       /\ batch' = [batch EXCEPT ![q] = <<s.next>> \o draft]
       /\ slot' = [slot EXCEPT ![q] =
            [s EXCEPT !.hasLogits = TRUE, !.draft = draft,
                      !.spec = [i \in 1 .. k + 1 |-> s.pos + i - 1],
                      !.committed = <<s.next>> \o draft,
                      !.replayFrom = s.pos, !.pos = s.pos + k + 1]]
  /\ todo' = todo \ {q}
  /\ UNCHANGED <<pc, drafting, turn, cells, state, window, callers>>

\* Changed: a replay waits for room for a whole step of speculation.
ReplayFitsStep(q) == Room >= Len(slot[q].replay) + 1 + MaxDraft
ReplayFits(q) == Room >= Len(slot[q].replay)

\* The tokens a rollback threw away go in together, and the sampled token
\* behind them if it fits.
StageReplay(q) ==
  LET s == slot[q]
      fits == Room > Len(s.replay) IN
  /\ Running(q) /\ s.replay # <<>> /\ ReplayFits(q)
  /\ batch' = [batch EXCEPT ![q] = IF fits THEN Append(s.replay, s.next) ELSE s.replay]
  /\ slot' = [slot EXCEPT ![q] =
       [s EXCEPT !.replay = <<>>, !.hasLogits = fits,
                 !.spec = IF fits THEN <<s.pos + Len(s.replay)>> ELSE <<>>,
                 !.pos = @ + Len(s.replay) + (IF fits THEN 1 ELSE 0)]]
  /\ todo' = todo \ {q}
  /\ UNCHANGED <<pc, drafting, turn, cells, state, snapshot, window, callers>>

\* A replay that does not fit as a whole waits for a pass that takes it.
WaitReplay(q) ==
  /\ Running(q) /\ slot[q].replay # <<>> /\ ~ReplayFits(q)
  /\ slot' = [slot EXCEPT ![q].hasLogits = FALSE]
  /\ todo' = todo \ {q}
  /\ UNCHANGED <<pc, drafting, turn, backend, callers>>

SkipNext(q) ==
  /\ pc = "pass1" /\ q \in todo /\ Room > 0
  /\ ~slot[q].primed \/ ~Live(q)
  /\ todo' = todo \ {q}
  /\ UNCHANGED <<pc, drafting, slot, turn, backend, callers>>

\* Sharing is modelled over a cache of positions only: what copying the cells
\* does to a recurrent state is decided by the library.
Pass1End ==
  /\ pc = "pass1" /\ (todo = {} \/ Room = 0)
  /\ pc' = "share"
  /\ todo' = IF MinShared > 0 /\ cache = "trim" THEN Active ELSE {}
  /\ UNCHANGED <<drafting, slot, turn, backend, callers>>

-----------------------------------------------------------------------------
(* sharePrefixes and bestDonor.                                            *)

\* Changed: prompts are compared by length.
CommonPrefixLength(a, b) == Least(Len(a), Len(b))
CommonPrefix(a, b) == Len(LongestCommonPrefix({a, b}))

\* Changed: a donor offers what it has not cached yet.
OfferUncached(d, q) ==
  Least(CommonPrefix(Prompt[slot[q].req], Prompt[slot[d].req]), Len(Prompt[slot[q].req]) - 1)

\* What d offers s: no more than it has cached, and s keeps a token to feed.
Offer(d, q) ==
  LET n == Least(CommonPrefix(Prompt[slot[q].req], Prompt[slot[d].req]), slot[d].pos)
  IN Least(n, Len(Prompt[slot[q].req]) - 1)

\* Of the longest offers the first in the order of sequences.
BestDonor(q) ==
  LET donors == {d \in Active \ {q} : Live(d)}
      best == {d \in donors : \A e \in donors : Offer(e, q) <= Offer(d, q)}
  IN IF donors = {} THEN q ELSE Min(best)

Unstarted(q) ==
  LET s == slot[q] IN ~s.primed /\ s.pos = 0 /\ s.pending # <<>> /\ Live(q)

Share(q) ==
  LET d == BestDonor(q)
      n == Offer(d, q)
      shared == cells[q] \cup CellsBefore(cells[d], n) IN
  /\ pc = "share" /\ q \in todo /\ Unstarted(q)
  /\ IF d # q /\ n >= MinShared
     THEN /\ cells' = [cells EXCEPT ![q] = shared]
          \* SharePrefix reports a copy without effect, and CachedThrough
          \* must say what was asked for.
          /\ slot' = IF PosMax(shared) = n - 1
                     THEN [slot EXCEPT ![q] = [slot[q] EXCEPT !.pos = n,
                                      !.pending = SubSeq(@, n + 1, Len(@))]]
                     ELSE slot
     ELSE UNCHANGED <<cells, slot>>
  /\ todo' = todo \ {q}
  /\ UNCHANGED <<pc, drafting, turn, batch, state, snapshot, window, callers>>

ShareEnd ==
  /\ pc = "share" /\ \A q \in todo : ~Unstarted(q)
  /\ pc' = "pass2"
  /\ todo' = Active
  /\ UNCHANGED <<drafting, slot, turn, backend, callers>>

-----------------------------------------------------------------------------
(* tick, pass 2: prompts take what is left of the batch.                   *)

Prefilling(q) == ~slot[q].primed /\ slot[q].pending # <<>> /\ Live(q)

StagePrompt(q) ==
  LET s == slot[q]
      n == Least(Len(s.pending), Room)
      last == n = Len(s.pending) IN
  /\ pc = "pass2" /\ q \in todo /\ Room > 0 /\ Prefilling(q)
  /\ batch' = [batch EXCEPT ![q] = SubSeq(s.pending, 1, n)]
  /\ slot' = [slot EXCEPT ![q] =
       [s EXCEPT !.pos = @ + n, !.pending = SubSeq(@, n + 1, Len(@)),
                 !.primed = last, !.hasLogits = last,
                 !.spec = IF last THEN <<s.pos + n - 1>> ELSE <<>>]]
  /\ todo' = todo \ {q}
  /\ UNCHANGED <<pc, drafting, turn, cells, state, snapshot, window, callers>>

Pass2End ==
  /\ pc = "pass2" /\ (Room = 0 \/ \A q \in todo : ~Prefilling(q))
  \* An empty batch is not decoded.
  /\ IF BatchLen = 0
     THEN pc' = "harvest" /\ todo' = {q \in Active : slot[q].hasLogits}
     ELSE pc' = "decode" /\ todo' = {}
  /\ UNCHANGED <<drafting, slot, turn, backend, callers>>

-----------------------------------------------------------------------------
(* Decode.                                                                 *)

First(q) == slot[q].pos - Len(batch[q])

\* The backend refuses a batch that does not continue where a sequence ends.
Refused == \E q \in Active : batch[q] # <<>> /\ First(q) # PosMax(cells[q]) + 1
\* It has no cells for a sequence past its context.
Overfull == \E q \in Active : First(q) + Len(batch[q]) > NCtxSeq

DecodeOk ==
  /\ pc = "decode" /\ ~Refused /\ ~Overfull
  /\ cells' = [q \in Seqs |->
       IF q \in Active THEN cells[q] \cup CellsFrom(First(q), batch[q]) ELSE cells[q]]
  /\ state' = [q \in Seqs |-> state[q] \o batch[q]]
  /\ pc' = "harvest"
  /\ todo' = {q \in Active : slot[q].hasLogits}
  /\ UNCHANGED <<drafting, slot, turn, batch, snapshot, window, callers>>

\* ErrNoKVSlot: evictOne ends a stream that generated the most, and tick
\* returns; what the other streams staged is not decoded.
DecodeNoKV(q) ==
  /\ pc = "decode" /\ ~Refused /\ (Overfull \/ "nokv" \in Faults)
  /\ q \in Active
  /\ \A p \in Active : Len(answer[slot[p].req]) <= Len(answer[slot[q].req])
  /\ Finish(q, "context")
  /\ pc' = "top"
  /\ UNCHANGED <<todo, drafting, turn, batch, answer, cancelled>>

\* Any other error ends Run, and drain ends every stream.
DecodeRefused ==
  /\ pc = "decode" /\ Refused
  /\ pc' = "dead"
  /\ slot' = [q \in Seqs |-> NoSlot]
  /\ cells' = [q \in Seqs |-> {}]
  /\ state' = [q \in Seqs |-> <<>>]
  /\ snapshot' = [q \in Seqs |-> <<>>]
  /\ window' = [q \in Seqs |-> <<>>]
  /\ ended' = [r \in Requests |-> IF \E q \in Active : slot[q].req = r THEN "cancel" ELSE ended[r]]
  /\ UNCHANGED <<todo, drafting, turn, batch, answer, cancelled>>

-----------------------------------------------------------------------------
(* harvest and verify.                                                     *)

HarvestCancelled(q) ==
  /\ pc = "harvest" /\ q \in todo /\ ~Live(q)
  /\ Finish(q, "cancel")
  /\ todo' = todo \ {q}
  /\ UNCHANGED <<pc, drafting, turn, batch, answer, cancelled>>

\* verify: the model's tokens at the staged positions, up to the first that
\* ends the answer, differs from the draft behind it, or is the last.
Tokens(q) == [i \in DOMAIN slot[q].spec |-> Sample(q, slot[q].spec[i])]
LimitAt(q, i) ==
  LET r == slot[q].req IN MaxTokens[r] > 0 /\ Len(answer[r]) + i >= MaxTokens[r]
Kept(q) ==
  LET s == slot[q]
      t == Tokens(q)
      stops(i) == \/ t[i] = EOS \/ LimitAt(q, i) \/ i = Len(s.spec)
                  \/ i \in DOMAIN s.draft /\ s.draft[i] # t[i]
  IN SelectInSeq([i \in DOMAIN s.spec |-> stops(i)], LAMBDA b : b)
\* The token that ends the answer is not part of it.
Stopped(q) == Kept(q) > 0 /\ Tokens(q)[Kept(q)] = EOS
Emitted(q) == SubSeq(Tokens(q), 1, IF Stopped(q) THEN Kept(q) - 1 ELSE Kept(q))

HarvestVerify(q) ==
  LET s == slot[q]
      kept == Kept(q)
      left == Len(s.spec) - kept IN
  /\ pc = "harvest" /\ q \in todo /\ Live(q)
  /\ todo' = todo \ {q}
  /\ answer' = [answer EXCEPT ![s.req] = @ \o Emitted(q)]
  /\ window' = [window EXCEPT ![q] = @ \o SubSeq(Tokens(q), 1, kept)]
  /\ slot' = [slot EXCEPT ![q] =
       [s EXCEPT !.next = IF Emitted(q) = <<>> THEN @ ELSE Last(Emitted(q)),
                 !.pos = @ - left]]
  /\ turn' = [seq |-> q, kept |-> kept,
              reason |-> IF Stopped(q) THEN "stop"
                         ELSE IF kept > 0 /\ LimitAt(q, kept) THEN "length" ELSE "none"]
  /\ pc' = IF left > 0 THEN "rewind" ELSE "judge"
  /\ UNCHANGED <<drafting, batch, cells, state, snapshot, ended, cancelled>>

\* Changed: the rejected tail stays in the cache.
TrimNothing ==
  /\ pc = "rewind" /\ cache = "trim"
  /\ pc' = "judge"
  /\ UNCHANGED <<todo, drafting, slot, turn, backend, callers>>

\* TrimSeq: the rejected tail leaves the cache.
Trim ==
  LET q == turn.seq IN
  /\ pc = "rewind" /\ cache = "trim"
  /\ cells' = [cells EXCEPT ![q] = CellsBefore(@, slot[q].pos)]
  /\ pc' = "judge"
  /\ UNCHANGED <<todo, drafting, slot, turn, batch, state, snapshot, window, callers>>

\* Changed: the snapshot is restored and the cache cut where the kept tokens
\* end, which the restored state has not been through.
RollbackInPlace ==
  LET q == turn.seq IN
  /\ pc = "rewind" /\ cache = "rewind"
  /\ state' = [state EXCEPT ![q] = snapshot[q]]
  /\ cells' = [cells EXCEPT ![q] = CellsBefore(@, slot[q].pos)]
  /\ pc' = "judge"
  /\ UNCHANGED <<todo, drafting, slot, turn, batch, snapshot, window, callers>>

\* Rollback: back to the start of the step; what was kept is replayed.  The
\* code ignores what SeqRm returns (runner.go:524): once a snapshot is restored
\* the cut behind it is taken to succeed, as the library has it, which refuses
\* only a position the recurrent state has gone past.
Rollback ==
  LET q == turn.seq
      s == slot[q] IN
  /\ pc = "rewind" /\ cache = "rewind"
  /\ state' = [state EXCEPT ![q] = IF snapshot[q] # <<>> THEN snapshot[q] ELSE @]
  /\ cells' = [cells EXCEPT ![q] = CellsBefore(@, s.replayFrom)]
  /\ slot' = [slot EXCEPT ![q] =
       [s EXCEPT !.replay = SubSeq(s.committed, 1, turn.kept), !.pos = s.replayFrom]]
  /\ pc' = "judge"
  /\ UNCHANGED <<todo, drafting, turn, batch, snapshot, window, callers>>

\* The tail cannot be taken back: the request ends, and so does speculation.
\* After a rollback that failed the code still tries TrimSeq (engine.go:718);
\* a cache that needs a rewinder is one TrimSeq cannot cut, so that fails too.
RewindFail ==
  /\ pc = "rewind"
  /\ (IF cache = "trim" THEN "trim" ELSE "rollback") \in Faults
  /\ drafting' = FALSE
  /\ Finish(turn.seq, "error")
  /\ pc' = "harvest"
  /\ UNCHANGED <<todo, turn, batch, answer, cancelled>>

Over == turn.reason # "none" \/ slot[turn.seq].pos >= NCtxSeq

JudgeEnd ==
  /\ pc = "judge" /\ Over
  /\ Finish(turn.seq, IF turn.reason # "none" THEN turn.reason ELSE "context")
  /\ pc' = "harvest"
  /\ UNCHANGED <<todo, drafting, turn, batch, answer, cancelled>>

JudgeOn ==
  /\ pc = "judge" /\ ~Over
  /\ pc' = "harvest"
  /\ UNCHANGED <<todo, drafting, slot, turn, backend, callers>>

HarvestEnd ==
  /\ pc = "harvest" /\ todo = {}
  /\ pc' = "top" /\ turn' = NoTurn
  /\ UNCHANGED <<todo, drafting, slot, backend, callers>>

-----------------------------------------------------------------------------
ReadMedia == (\E q \in Seqs : PrefillMedia(q)) \/ MediaEnd
Stage ==
  \/ \E q \in Seqs : StageNext(q) \/ StageReplay(q) \/ WaitReplay(q) \/ SkipNext(q)
  \/ Pass1End
Prefill == (\E q \in Seqs : Share(q) \/ StagePrompt(q)) \/ ShareEnd \/ Pass2End
Decode == DecodeOk \/ (\E q \in Seqs : DecodeNoKV(q)) \/ DecodeRefused
Harvest ==
  \/ \E q \in Seqs : HarvestCancelled(q) \/ HarvestVerify(q)
  \/ Trim \/ Rollback \/ RewindFail \/ JudgeEnd \/ JudgeOn \/ HarvestEnd

Tick == TickStart \/ ReadMedia \/ Stage \/ Prefill \/ Decode \/ Harvest

\* Nothing is left to do, or Run has returned.
Terminated ==
  /\ pc = "dead" \/ (pc = "top" /\ \A r \in Requests : ended[r] # "none")
  /\ UNCHANGED vars

Next ==
  /\ UNCHANGED cache
  /\ \/ Tick
     \/ \E r \in Requests : Cancel(r) \/ \E q \in Seqs : Admit(r, q)
     \/ Terminated

Spec == Init /\ [][Next]_vars

\* Run never rests while a slot is active: weak fairness of Tick, written out
\* because Tick is enabled exactly when Run is Busy (a state where it were not
\* would be a deadlock) and only its steps change pc or todo.
Busy == pc # "dead" /\ (pc # "top" \/ Active # {})
FairSpec == Spec /\ ([]<>~Busy \/ []<><<pc' # pc \/ todo' # todo>>_vars)
-----------------------------------------------------------------------------
(* Properties.                                                             *)

Slots == [req : Requests, pending : Seq(Vocabulary), pos : Nat, next : Vocabulary \cup {Garbage},
          primed : BOOLEAN, hasLogits : BOOLEAN, draft : Seq(Vocabulary), spec : Seq(Nat),
          committed : Seq(Vocabulary \cup {Garbage}),
          replay : Seq(Vocabulary \cup {Garbage}), replayFrom : Nat]

TypeOK ==
  /\ pc \in {"top", "media", "pass1", "share", "pass2", "decode", "harvest", "rewind",
             "judge", "dead"}
  /\ todo \subseteq Seqs
  /\ drafting \in BOOLEAN
  /\ slot \in [Seqs -> Slots \cup {NoSlot}]
  /\ turn \in [seq : Seqs, kept : Nat, reason : {"none", "stop", "length"}]
  /\ batch \in [Seqs -> Seq(Vocabulary \cup {Garbage})]
  /\ BatchLen <= BatchCap
  /\ cells \in [Seqs -> SUBSET ((0 .. NCtxSeq - 1) \X (Vocabulary \cup {Garbage}))]
  /\ state \in [Seqs -> Seq(Vocabulary \cup {Garbage})]
  /\ snapshot \in [Seqs -> Seq(Vocabulary \cup {Garbage})]
  /\ window \in [Seqs -> Seq(Vocabulary \cup {Garbage})]
  /\ answer \in [Requests -> Seq(Vocabulary \cup {Garbage})]
  /\ ended \in [Requests -> {"none", "stop", "length", "context", "cancel", "error"}]
  /\ cancelled \subseteq Requests

History(r) == Prompt[r] \o answer[r]

\* "Speculation must not change the output": whatever is drafted, taken back,
\* replayed, shared or chunked, every token emitted is the one the model
\* chooses after the prompt and the tokens emitted before it, and an answer
\* stops where the model ends it.
Transparent ==
  \A r \in Requests :
    /\ \A i \in DOMAIN answer[r] :
         answer[r][i] = Target(Prompt[r] \o SubSeq(answer[r], 1, i - 1))
    /\ ended[r] = "stop" => Target(History(r)) = EOS

\* Between ticks a sequence holds exactly the history of its own request, one
\* cell for each position up to pos; what a rollback dropped waits in replay,
\* a recurrent state has been through the same tokens, and a free sequence
\* holds nothing for its next request to inherit.
CacheHoldsHistory ==
  pc = "top" => \A q \in Seqs :
    IF q \notin Active
    THEN cells[q] = {} /\ state[q] = <<>> /\ snapshot[q] = <<>>
    ELSE LET s == slot[q]
             h == History(s.req) IN
         /\ cells[q] = CellsFrom(0, SubSeq(h, 1, s.pos))
         /\ s.primed => s.pos + Len(s.replay) = Len(h) - 1
         /\ s.replay = SubSeq(h, s.pos + 1, s.pos + Len(s.replay))
         /\ cache = "rewind" => state[q] = SubSeq(h, 1, s.pos)

\* The penalty window of a sequence's sampler is what its request was given,
\* no rejected draft and nothing of another request.
WindowIsOwn ==
  \A q \in Seqs :
    pc # "judge" /\ pc # "rewind" =>
      window[q] = IF q \in Active THEN answer[slot[q].req] ELSE <<>>

\* No batch is ever refused for the positions it continues from.
NeverRefused == pc # "dead"

\* A request ends for its context only where the tokens it was given fill it,
\* as they would without speculation.
ContextIsFull ==
  \A r \in Requests : ended[r] = "context" => Len(History(r)) > NCtxSeq

\* Every request that started is answered, unless its caller cancels: a replay
\* waits for a batch that has room for all of it and gets one, however the other
\* streams fill theirs (engine.go:475-478).
AnswerEnds ==
  \A r \in Requests : (\E q \in Active : slot[q].req = r) ~> (ended[r] # "none" \/ r \in cancelled)
=============================================================================
