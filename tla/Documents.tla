------------------------------ MODULE Documents ------------------------------
(***************************************************************************)
(* How a long document is taken apart and put back together               *)
(* (internal/vcontext: plan, split, overlap, bridge, segment, span, select,*)
(* skeleton).  A text is a sequence of characters, of which only the       *)
(* blanks, the line break and the full stop matter; a token is             *)
(* CharsPerToken characters, as the counter of the commands has it.  Spans *)
(* and chunks are half-open ranges [start, end) of offsets from 0.         *)
(***************************************************************************)
EXTENDS Integers, Sequences, SequencesExt, FiniteSets, FiniteSetsExt, Ranking

CONSTANT CharsPerToken  \* a positive number

LineBreak == "\n"
Space == " "
FullStop == "."

Blank == {Space, LineBreak}

Tokens(n) == (n + CharsPerToken - 1) \div CharsPerToken

Slice(s, start, end) == SubSeq(s, start + 1, end)

IsBlank(s) == ToSet(s) \subseteq Blank

\* The first offset from i on that holds none of the characters in set.
SkipAll(s, i, set) == Min({j \in i .. Len(s) : j = Len(s) \/ s[j + 1] \notin set})

MaxOr0(set) == IF set = {} THEN 0 ELSE Max(set)

---------------------------------------------------------------------------
(* plan.go, policy.go: pol has context, reserve, streams and heavy, whether  *)
(* the request generates more than it reads.                                 *)

CeilDiv(a, b) == IF b <= 0 THEN 0 ELSE (a + b - 1) \div b

Usable(pol) == IF pol.context - pol.reserve < 1 THEN 0 ELSE pol.context - pol.reserve

ValidPolicy(pol) == pol.context > 0 /\ pol.reserve >= 0 /\ Usable(pol) > 0 /\ pol.streams >= 1

\* One chunk if it fits; else as few as hold it, or twice that for work bound by
\* decoding, and never more than there are streams.
PlanOf(n, pol) ==
  LET usable == Usable(pol)
      fewest == CeilDiv(n, usable)
      chunks == IF pol.heavy THEN Min({2 * fewest, pol.streams}) ELSE fewest
  IN IF n <= usable THEN [refused |-> FALSE, chunks |-> 1, target |-> n, limit |-> usable]
     ELSE IF fewest > pol.streams THEN [refused |-> TRUE, chunks |-> 0, target |-> 0, limit |-> 0]
     ELSE [refused |-> FALSE, chunks |-> chunks, target |-> CeilDiv(n, chunks), limit |-> usable]

---------------------------------------------------------------------------
(* split.go.                                                                 *)

\* The qualities of a cut, from best to worst; "end" severs nothing.
Cuts == <<"end", "declaration", "paragraph", "sentence", "word", "hard">>

Severity(q) == CHOOSE i \in DOMAIN Cuts : Cuts[i] = q

LocalBounds(bounds, consumed, length) == {b - consumed : b \in bounds} \cap 1 .. length

\* Where a separator ends, wholly inside [from, upto).
Marks(s, from, upto, q) ==
  CASE q = "paragraph" -> {e \in from + 2 .. upto : s[e - 1] = LineBreak /\ s[e] = LineBreak}
    [] q = "sentence"  -> {e \in from + 2 .. upto : s[e - 1] = FullStop /\ s[e] \in Blank}
    [] q = "word"      -> {e \in from + 1 .. upto : s[e] = Space}

\* What a cut is looked for at, in this order.
Ladder == <<"declaration", "paragraph", "sentence", "word">>

\* cutAt: the prefix is [0, at) and the rest begins at next.
CutAt(s, target, bounds) ==
  LET lo == Max({i \in 0 .. Len(s) : Tokens(i) <= target})
      window == lo \div 5
      from == IF window = 0 THEN 0 ELSE lo - window
      near(q) == IF q = "declaration" THEN {b \in bounds : b > 0 /\ b <= lo /\ b >= lo - window}
                 ELSE Marks(s, from, lo, q)
      found == {i \in DOMAIN Ladder : near(Ladder[i]) # {}}
      preferred == Ladder[Min(found)]
      trim == IF preferred \in {"declaration", "paragraph"} THEN {LineBreak} ELSE {Space}
      at == Max(near(preferred))
  IN IF Tokens(Len(s)) <= target THEN [at |-> Len(s), next |-> Len(s), q |-> "end"]
     ELSE IF lo = 0 THEN [at |-> 1, next |-> 1, q |-> "hard"]
     ELSE IF found = {} THEN [at |-> lo, next |-> lo, q |-> "hard"]
     ELSE [at |-> at, next |-> SkipAll(s, at, trim), q |-> preferred]

Chunk(start, end, q) == [start |-> start, end |-> end, cut |-> q]

Size(chunk) == Tokens(chunk.end - chunk.start)

\* The loop of SplitAt: chunks until only blanks are left.
Pieces(s, plan, bounds) ==
  LET from[start \in 0 .. Len(s)] ==
        LET rest == Slice(s, start, Len(s))
            cut == CutAt(rest, plan.target, LocalBounds(bounds, start, Len(rest)))
        IN IF IsBlank(rest) THEN <<>>
           ELSE <<Chunk(start, start + cut.at, cut.q)>> \o from[start + cut.next]
  IN from[0]

\* Changed: the halves keep the offsets they have in the pair.
HalvesShifted(first, last, half, q) ==
  <<Chunk(0, half.at, half.q), Chunk(half.next, last - first, q)>>

Halves(first, last, half, q) ==
  <<Chunk(first, first + half.at, half.q), Chunk(first + half.next, last, q)>>

\* A last chunk below a quarter of the target joins the one before it or, when
\* both do not fit together, is cut anew with it at half their size.
FoldRunt(s, chunks, plan, bounds) ==
  LET n == Len(chunks)
      first == chunks[n - 1].start
      last == chunks[n].end
      pair == Slice(s, first, last)
      half == CutAt(pair, Tokens(Len(pair)) \div 2, LocalBounds(bounds, first, Len(pair)))
      halves == Halves(first, last, half, chunks[n].cut)
      fits(c) == Size(c) <= plan.limit
  IN IF n < 2 \/ Size(chunks[n]) >= plan.target \div 4 THEN chunks
     ELSE IF Tokens(Len(pair)) <= plan.limit
          THEN Append(SubSeq(chunks, 1, n - 2), Chunk(first, last, chunks[n].cut))
     ELSE IF ~IsBlank(Slice(s, halves[2].start, last)) /\ fits(halves[1]) /\ fits(halves[2])
          THEN SubSeq(chunks, 1, n - 2) \o halves
     ELSE chunks

\* SplitAt. A chunk above the limit is an error, which is the empty sequence.
SplitAt(s, plan, bounds) ==
  LET chunks == Pieces(s, plan, bounds) IN
  IF plan.chunks <= 1 THEN <<Chunk(0, Len(s), "end")>>
  ELSE IF \E i \in DOMAIN chunks : Size(chunks[i]) > plan.limit THEN <<>>
  ELSE FoldRunt(s, chunks, plan, bounds)

---------------------------------------------------------------------------
(* overlap.go and bridge.go: what repairs a bad cut.                         *)

\* The blanks of s with an offset in from .. upto - 1.
Blanks(s, from, upto) == {i \in from .. upto - 1 : s[i + 1] \in Blank}

\* lastTokens: where the end of s that costs at most n begins, on a word.
LastTokens(s, n) ==
  LET lo == Min({i \in 0 .. Len(s) : Tokens(Len(s) - i) <= n})
      blanks == Blanks(s, lo, Len(s))
  IN IF lo = 0 \/ blanks = {} THEN lo
     ELSE IF Min(blanks) = Len(s) - 1 THEN lo ELSE Min(blanks) + 1

\* AddOverlap: where the context borrowed by chunk i begins; its own start when
\* it borrows nothing. What it borrows ends with the chunk before.
Borrowed(s, chunks, n, i) ==
  LET prev == chunks[i - 1]
      text == Slice(s, prev.start, prev.end)
      from == LastTokens(text, n)
  IN IF i = 1 \/ n <= 0 \/ Severity(prev.cut) <= Severity("paragraph") \/
        IsBlank(Slice(text, from, Len(text)))
     THEN <<>> ELSE <<prev.start + from, prev.end>>

\* PlanBridges with no relation, as the command calls it: the cuts to bridge, the
\* worst first. Bridge i joins the last window characters of chunk i to the
\* first of the next.
Bridges(chunks, spare) ==
  LET byCut == InOrder([i \in 1 .. Len(chunks) - 1 |-> -Severity(chunks[i].cut)])
  IN SubSeq(byCut, 1, Min({spare, Len(byCut)}))

BridgeRange(chunks, window, i) ==
  [start |-> Max({chunks[i].end - window, chunks[i].start}),
   end   |-> Min({chunks[i + 1].start + window, chunks[i + 1].end})]

\* UnbridgedCuts: the cuts that severed a sentence and stay so.
UnbridgedCuts(chunks, bridges) ==
  {i \in 1 .. Len(chunks) - 1 :
     i \notin ToSet(bridges) /\ Severity(chunks[i].cut) >= Severity("word")}

---------------------------------------------------------------------------
(* segment.go and span.go.                                                   *)

Span(start, end) == [start |-> start, end |-> end]

Shift(span, by) == Span(span.start + by, span.end + by)

\* splitKeepingOffsets on an empty line.
Paragraphs(s) ==
  LET from[start \in 0 .. Len(s)] ==
        LET breaks == {i \in start .. Len(s) - 2 : s[i + 1] = LineBreak /\ s[i + 2] = LineBreak}
            end == Min(breaks \cup {Len(s)})
        IN IF start >= Len(s) THEN {}
           ELSE (IF end > start THEN {Span(start, end)} ELSE {})
                \cup (IF breaks = {} THEN {} ELSE from[end + 2])
  IN from[0]

\* splitSentences: from the first character after the blanks behind a full stop
\* up to and including the next one.
Sentences(s) ==
  LET stops == {i \in 1 .. Len(s) : s[i] = FullStop /\ (i = Len(s) \/ s[i + 1] \in Blank)}
      starts == ({0} \cup {SkipAll(s, i, Blank) : i \in stops}) \ {Len(s)}
      endOf(a) == Min({i \in stops : i > a} \cup {Len(s)})
  IN {Span(a, endOf(a)) : a \in starts}

\* Segment: paragraphs, and the sentences of those above max tokens.
Segment(s, chunk, max) ==
  LET body == Slice(s, chunk.start, chunk.end)
      content(p) == Slice(body, p.start, p.end)
      parts(p) == IF Tokens(p.end - p.start) <= max THEN {p}
                  ELSE {Shift(x, p.start) : x \in Sentences(content(p))}
      all == UNION {parts(p) : p \in Paragraphs(body)}
  IN {Shift(p, chunk.start) : p \in {q \in all : ~IsBlank(content(q))}}

\* Changed: every span is kept as it is.
IndexUnmerged(spans) == InPlace(spans)

\* Index.Sort: by place, and spans that touch become one.
IndexOf(spans) ==
  LET merge(acc, x) ==
        IF acc # <<>> /\ x.start <= Last(acc).end
        THEN [acc EXCEPT ![Len(acc)].end = Max({@, x.end})]
        ELSE Append(acc, x)
  IN FoldLeft(merge, <<>>, InPlace(spans))

SegmentAll(s, chunks, max) ==
  IndexOf(UNION {Segment(s, chunks[i], max) : i \in DOMAIN chunks})

---------------------------------------------------------------------------
(* select.go and skeleton.go.                                                *)

Cost(span) == Tokens(span.end - span.start)

\* What Select takes of the ranked spans, best first: each that the budget has room for.
Taken(ranked, budget) ==
  LET take(acc, x) == IF acc.spent + Cost(x) > budget THEN [acc EXCEPT !.truncated = TRUE]
                      ELSE [acc EXCEPT !.spans = @ \cup {x}, !.spent = @ + Cost(x)]
  IN FoldLeft(take, [spans |-> {}, spent |-> 0, truncated |-> FALSE], ranked)

\* Select: what it takes, in the order of the source. Not serving the best of all is an
\* error.
Select(ranked, budget) ==
  LET taken == Taken(ranked, budget)
  IN [ok        |-> budget > 0 /\ (ranked # <<>> => Cost(ranked[1]) <= budget),
      spans     |-> InPlace(taken.spans),
      tokens    |-> taken.spent,
      truncated |-> taken.truncated]

\* Assemble: the passages, and a mark wherever one does not follow the other.
Assemble(spans) ==
  [i \in DOMAIN spans |-> [span   |-> spans[i],
                           marked |-> i > 1 /\ spans[i].start > spans[i - 1].end]]

\* ends: what Downsample keeps of a section, each end cut at a blank.
Ends(s, n) ==
  LET from == Len(s) - n
      lastOf == MaxOr0(Blanks(s, 0, n))
      blanks == Blanks(s, from, Len(s))
      first == IF lastOf > n \div 2 THEN lastOf ELSE n
      next == IF blanks # {} /\ Min(blanks) - from < n \div 2 THEN Min(blanks) + 1 ELSE from
  IN IF Len(s) <= 2 * n THEN <<Span(0, Len(s))>> ELSE <<Span(0, first), Span(next, Len(s))>>

\* The first k characters without the blanks at their end.
Trimmed(s, k) == Max({i \in 0 .. k : i = 0 \/ s[i] \notin Blank})

\* What of a text fits, where not even one sentence does: a quarter less until it does, from
\* whole words.
Shrunk(s, max) ==
  LET less[n \in 0 .. Len(s)] == IF n > 0 /\ Tokens(n) > max THEN less[(n * 3) \div 4] ELSE n
      cut == less[Len(s)]
      blanks == Blanks(s, 1, cut)
  IN IF blanks # {} THEN Max(blanks) ELSE cut

\* TruncateSkeleton: all, or whole sentences while they fit, or what fits of the first.
Truncated(s, max) ==
  LET fitting == {x.end : x \in {y \in Sentences(s) : Tokens(y.end) <= max}}
  IN IF Tokens(Len(s)) <= max THEN Len(s)
     ELSE Trimmed(s, IF fitting # {} THEN Max(fitting) ELSE Shrunk(s, max))
=============================================================================
