------------------------------- MODULE Vcontext -------------------------------
(***************************************************************************)
(* The vcontext command (cmd/llama-herd/vcontext.go): it plans and splits a*)
(* document and then either has every chunk digested, at most as many at a *)
(* time as the deployment has streams, and merges the digests, or answers  *)
(* a question from the passages that bear on it.  Dispatch runs a goroutine*)
(* for each chunk; everything else is sequential.  What a model returns is *)
(* any of Replies, or an error; the context of the command ends by itself  *)
(* after some time.                                                        *)
(***************************************************************************)
EXTENDS Documents, Digests

CONSTANTS
  Texts,      \* documents
  Policies,   \* what the flags ask for
  Replies,    \* the digests a stream may answer to a chunk with
  Rules,      \* merge rules: sets of functions from fields
  Skeletons,  \* what the skeleton pass may return
  SkeletonMax,\* SkeletonCap
  SpanTokens, \* tokens of a span of the index
  Wording    \* tokens the command keeps back for the wording of the prompt

ASSUME VcontextAssumption ==
  /\ CharsPerToken \in Nat \ {0}
  /\ \A t \in Texts : t \in Seq(ToSet(t))
  /\ \A p \in Policies : p.context \in Int /\ p.reserve \in Int /\ p.streams \in Int
  /\ \A s \in Skeletons : s \in Seq(ToSet(s))
  /\ SkeletonMax \in Int /\ SpanTokens \in Nat \ {0} /\ Wording \in Nat

VARIABLES
  text, pol, rules,
  query,    \* the command has a question
  phase,    \* where the command is, or how it ended
  chunks, bridges,
  worker,   \* [chunk -> "queued", "running", "done"]
  result,   \* [chunk -> what Dispatch has recorded for it]
  ctxDone,  \* the context of the command
  merged,   \* what is printed
  index, skeleton, ranked, selection

vcontextVars == <<text, pol, rules, query, phase, chunks, bridges, worker, result, ctxDone,
                  merged, index, skeleton, ranked, selection>>
input == <<text, pol, rules, query>>
retrieval == <<index, skeleton, ranked, selection>>

Nothing == [ok |-> FALSE]

\* What a call into the model may come back with.
Digested(data) == [is |-> "digest", data |-> data]
Garbage == [is |-> "garbage"]
Error == [is |-> "error"]

VcontextInit ==
  /\ text \in Texts /\ pol \in Policies /\ rules \in Rules /\ query \in BOOLEAN
  /\ phase = "start" /\ chunks = <<>> /\ bridges = <<>> /\ worker = <<>> /\ result = <<>>
  /\ ctxDone = FALSE /\ merged = Nothing
  /\ index = <<>> /\ skeleton = <<>> /\ ranked = <<>> /\ selection = Nothing

---------------------------------------------------------------------------
(* Plan and split.                                                           *)

Plan == PlanOf(Tokens(Len(text)), pol)

Refuse ==
  /\ phase = "start"
  /\ ValidPolicy(pol) => Plan.refused \/ SplitAt(text, Plan, {}) = <<>>
  /\ phase' = "failed"
  /\ UNCHANGED <<input, chunks, bridges, worker, result, ctxDone, merged, retrieval>>

\* The repairs that spare streams would buy are reported, and the chunks go to
\* Dispatch, all at once, or to the skeleton.
Split ==
  /\ phase = "start" /\ ValidPolicy(pol) /\ ~Plan.refused
  /\ chunks' = SplitAt(text, Plan, {}) /\ chunks' # <<>>
  /\ bridges' = Bridges(chunks', Max({0, pol.streams - Len(chunks')}))
  /\ worker' = [i \in DOMAIN chunks' |-> IF query THEN "none" ELSE "queued"]
  /\ result' = [i \in DOMAIN chunks' |-> [is |-> "none"]]
  /\ phase' = IF query THEN "skeleton" ELSE "dispatch"
  /\ UNCHANGED <<input, ctxDone, merged, retrieval>>

Timeout ==
  /\ phase \in {"dispatch", "skeleton", "answer"} /\ ~ctxDone
  /\ ctxDone' = TRUE
  /\ UNCHANGED <<input, phase, chunks, bridges, worker, result, merged, retrieval>>

---------------------------------------------------------------------------
(* Dispatch, dispatch.go.                                                    *)

Running == {i \in DOMAIN worker : worker[i] = "running"}

\* A worker that comes after the context is done records that and starts nothing.
AcquirePermit(i) ==
  /\ phase = "dispatch" /\ worker[i] = "queued" /\ Cardinality(Running) < pol.streams
  /\ worker' = [worker EXCEPT ![i] = IF ctxDone THEN "done" ELSE "running"]
  /\ result' = [result EXCEPT ![i] = IF ctxDone THEN Error ELSE @]
  /\ UNCHANGED <<input, phase, chunks, bridges, ctxDone, merged, retrieval>>

Answers(i) ==
  /\ phase = "dispatch" /\ worker[i] = "running"
  /\ \E r \in Replies \cup {Garbage, Error} : result' = [result EXCEPT ![i] = r]
  /\ worker' = [worker EXCEPT ![i] = "done"]
  /\ UNCHANGED <<input, phase, chunks, bridges, ctxDone, merged, retrieval>>

---------------------------------------------------------------------------
(* Behind the barrier.                                                       *)

Unanswered == {i \in DOMAIN result : result[i].is = "error"}

\* Changed: the digests that came are used, the others are left out.
DigestsThatCame == {i \in DOMAIN result : result[i].is = "digest"}

\* ParseDigest takes an object, and null for an object without fields.
Parses(r) == r.is = "digest"

Digest(i) == [chunk |-> i - 1, data |-> result[i].data]

\* Batch.Digests: all, or an error, which is the empty set.
Digestible == IF Unanswered # {} \/ \E i \in DOMAIN result : ~Parses(result[i])
              THEN {} ELSE DOMAIN result

\* Refused unless all are there, can be read and merge.
Conclude ==
  /\ phase = "dispatch" /\ \A i \in DOMAIN worker : worker[i] = "done"
  /\ LET m == Merge({Digest(i) : i \in Digestible}, rules) IN
     IF Digestible # {} /\ m.ok THEN merged' = m /\ phase' = "merged"
     ELSE phase' = "failed" /\ UNCHANGED merged
  /\ UNCHANGED <<input, chunks, bridges, worker, result, ctxDone, retrieval>>

---------------------------------------------------------------------------
(* selective.                                                                *)

\* BuildSkeleton, and the index that follows without a model.
Skeleton ==
  /\ phase = "skeleton"
  /\ \E s \in Skeletons : skeleton' = Slice(s, 0, Truncated(s, SkeletonMax))
  /\ index' = SegmentAll(text, chunks, SpanTokens)
  /\ phase' = "select"
  /\ UNCHANGED <<input, chunks, bridges, worker, result, ctxDone, merged, ranked, selection>>

\* Either call into the model may fail, and does when the context is done first.
RunFails ==
  /\ phase \in {"skeleton", "answer"}
  /\ phase' = "failed"
  /\ UNCHANGED <<input, chunks, bridges, worker, result, ctxDone, merged, retrieval>>

SourceBudget == pol.context - pol.reserve - Tokens(Len(skeleton)) - Wording

\* The retriever may rank the spans in any order.
Retrieve ==
  /\ phase = "select"
  /\ \E order \in SetToSeqs(ToSet(index)) :
       /\ ranked' = order
       /\ selection' = Select(order, SourceBudget)
       /\ phase' = IF selection'.ok THEN "answer" ELSE "failed"
  /\ UNCHANGED <<input, chunks, bridges, worker, result, ctxDone, merged, index, skeleton>>

Answer ==
  /\ phase = "answer"
  /\ phase' = "answered"
  /\ UNCHANGED <<input, chunks, bridges, worker, result, ctxDone, merged, retrieval>>

Ended == phase \in {"failed", "merged", "answered"}

Stopped == Ended /\ UNCHANGED vcontextVars

Step == Refuse \/ Split \/ Conclude \/ Skeleton \/ RunFails \/ Retrieve \/ Answer

VcontextNext ==
  \/ Step \/ Timeout \/ Stopped
  \/ \E i \in DOMAIN worker : AcquirePermit(i) \/ Answers(i)

VcontextSpec == VcontextInit /\ [][VcontextNext]_vcontextVars

---------------------------------------------------------------------------
(* Properties.                                                               *)

Bare(start, end) == IsBlank(Slice(text, start, end))

\* Nothing but blanks is lost in front of the chunks, between them and behind them, and
\* none is above what a stream takes (split.go:69-82).
NothingDropped ==
  LET n == Len(chunks)
  IN n > 0 =>
     /\ chunks[1].start = 0 /\ Bare(chunks[n].end, Len(text))
     /\ \A i \in 1 .. n - 1 : /\ chunks[i].end <= chunks[i + 1].start
                              /\ Bare(chunks[i].end, chunks[i + 1].start)
     /\ \A i \in 1 .. n : Size(chunks[i]) <= Usable(pol)

\* The last chunk is not a runt, unless blanks were dropped in front of it: they are
\* counted when the pair is cut anew and belong to neither half (split.go:150-178).
RuntFolded ==
  LET n == Len(chunks)
  IN n > 1 => \/ Size(chunks[n]) >= Plan.target \div 4
              \/ chunks[n - 1].end < chunks[n].start

\* What a chunk borrows or a bridge joins is the text on either side of the cut, and
\* what is kept of a section are two parts of it (overlap.go:28-40; bridge.go:166-172).
RepairsWithin ==
  LET n == Len(chunks)
  IN /\ \A i \in 2 .. n :
          LET b == Borrowed(text, chunks, SpanTokens, i) IN
          b # <<>> => /\ chunks[i - 1].start <= b[1] /\ b[2] = chunks[i - 1].end
                      /\ Tokens(b[2] - b[1]) <= SpanTokens /\ ~Bare(b[1], b[2])
     /\ \A i \in 1 .. n - 1 :
          LET bridge == BridgeRange(chunks, SpanTokens, i) IN
          bridge.start <= chunks[i].end /\ chunks[i + 1].start <= bridge.end
     /\ \A i \in 1 .. n :
          LET kept == Ends(Slice(text, chunks[i].start, chunks[i].end), 2) IN
          Len(kept) = 2 => kept[1].end <= kept[2].start

\* Spare streams go to the worst cuts, and a severed sentence stays only when there are
\* none left (bridge.go:85-94).
WorstBridged ==
  LET adjacent == 1 .. Len(chunks) - 1
      sev(i) == Severity(chunks[i].cut)
  IN /\ \A i \in ToSet(bridges), j \in adjacent \ ToSet(bridges) : sev(i) >= sev(j)
     /\ UnbridgedCuts(chunks, bridges) # {} => Len(bridges) = Max({0, pol.streams - Len(chunks)})

SplitSound == NothingDropped /\ RuntFolded /\ RepairsWithin /\ WorstBridged

\* A merged answer is about the whole document: every chunk was digested, every
\* value has its chunk for a source, and of a field that is collected no two
\* values that print differently go unreported (merge.go:24-30, 43-47;
\* dispatch.go:135-139).
AnswerIsWhole ==
  phase = "merged" =>
    /\ merged.chunks = Len(chunks)
    /\ \A i \in DOMAIN chunks :
         /\ result[i] \in Replies
         /\ \A k \in DOMAIN Digest(i).data :
              /\ i - 1 \in merged.sources[k]
              /\ \A j \in DOMAIN chunks :
                   /\ k \in DOMAIN Digest(j).data /\ k \notin DOMAIN rules
                   /\ Printed(Digest(i).data[k]) # Printed(Digest(j).data[k])
                   => k \in DOMAIN merged.conflicts

\* The passages answered from stand in the order of the document and within the
\* budget, the best of them is there, what was left out for want of budget is
\* told, and so is every gap (select.go:30-42, 66-70, 130-136); and the index
\* they come from leaves out only blanks.
SelectionHonest ==
  LET spans == selection.spans
      within(o, sp) == sp.start <= o /\ o < sp.end
  IN selection.ok =>
     /\ selection.tokens = FoldLeft(LAMBDA n, sp : n + Cost(sp), 0, spans)
     /\ selection.tokens + Tokens(Len(skeleton)) + Wording <= Usable(pol)
     /\ ranked # <<>> => ranked[1] \in ToSet(spans)
     /\ selection.truncated <=> ToSet(ranked) # ToSet(spans)
     /\ \A i \in 2 .. Len(spans) :
          /\ spans[i - 1].end < spans[i].start
          /\ Assemble(spans)[i].marked
     /\ \A o \in 0 .. Len(text) - 1 :
          text[o + 1] \notin Blank => \E i \in DOMAIN index : within(o, index[i])
=============================================================================
