-------------------------------- MODULE Sweep --------------------------------
(***************************************************************************)
(* The command sweep (cmd/llama-herd/sweep.go): a grid of configurations   *)
(* over one copy of the weights, a row for every depth of each, and a file *)
(* of the rows that is replaced after every row, because a sweep is what   *)
(* is most likely to be cut short.                                         *)
(***************************************************************************)
EXTENDS Integers, Sequences, SequencesExt, FiniteSets, FiniteSetsExt, Ranking

CONSTANTS
  Base,    \* the first model of the manifest
  Flags,   \* what the command may be called with
  DepthScale, MaxGenerated, \* 16 and 512 of depthTokens
  MaxRate  \* bound: rates a measurement may report

\* The manifest and the flags hold unsigned numbers; of tokens and repetitions none
\* asks for fewer than none.
ASSUME SweepAssumption ==
  /\ Base \in [streams : Nat, context : Nat, admit : Nat, spec : {Base.spec}]
  /\ \A f \in Flags :
       /\ f.streams \in Seq(Nat) /\ f.contexts \in Seq(Nat) /\ f.specs \in Seq(ToSet(f.specs))
       /\ f.depths \in Seq(Nat) /\ f.residents \in Seq(Nat)
       /\ f.tokens \in Nat /\ f.reps \in Nat
  /\ DepthScale \in Nat \ {0} /\ MaxGenerated \in Nat /\ MaxRate \in Nat

VARIABLES
  flags,
  grid,      \* the configurations that are left
  depths,    \* the depths that are left of the first of them
  row,       \* the row being measured: [m, depth, note]
  runs,      \* its repetitions so far: [rate, note, generated]
  rows,
  failedAt,  \* the streams of the first row without a rate, 0 for none
  told,      \* the configurations skipped with a line of output
  file, tmp, \* what is on disk
  best,      \* the index printed as the best, 0 for none
  pc

sweepVars == <<flags, grid, depths, row, runs, rows, failedAt, told, file, tmp, best, pc>>

---------------------------------------------------------------------------
(* buildGrid.                                                                *)

\* What an admitted prompt may fill is no more than a stream's share.
ShareStreams(m, s) ==
  [m EXCEPT !.streams = s,
            !.admit = IF s > 0 /\ @ > 0 /\ m.context \div s < @ THEN m.context \div s ELSE @]
ShareContext(m, c) ==
  [m EXCEPT !.context = c,
            !.admit = IF m.streams > 0 /\ @ > c \div m.streams THEN c \div m.streams ELSE @]
Speculate(m, name) == [m EXCEPT !.spec = name]

\* One configuration for every value of an axis and every configuration so far;
\* the axis expanded last varies slowest.
Vary(axis, m, v) ==
  CASE axis = "streams" -> ShareStreams(m, v)
    [] axis = "context" -> ShareContext(m, v)
    [] axis = "spec" -> Speculate(m, v)

Expand(axis, configs, vals) ==
  LET n == Len(configs) IN
  IF vals = <<>> THEN configs
  ELSE [i \in 1 .. Len(vals) * n |->
          Vary(axis, configs[((i - 1) % n) + 1], vals[((i - 1) \div n) + 1])]

BuildGrid(f) ==
  LET byStreams == Expand("streams", <<Base>>, Ascending(f.streams))
      byContext == Expand("context", byStreams, f.contexts)
  IN Expand("spec", byContext, f.specs)

---------------------------------------------------------------------------
(* A row.                                                                    *)

NoNote == ""
Exceeds == "exceeds the share"
NotAmortising == "not amortising"
NothingMeasured == "nothing measured"

PerStream(m) == IF m.streams > 0 THEN m.context \div m.streams ELSE 0

\* The depths named, then the resident totals shared among the streams.
ConfigDepths(m) ==
  LET named == Ascending(flags.depths)
      totals == Ascending(flags.residents)
      shared == [i \in DOMAIN totals |-> totals[i] \div m.streams]
  IN IF named \o totals = <<>> THEN <<0>> ELSE IF m.streams > 0 THEN named \o shared ELSE named

\* Changed: the share may be exceeded by what is generated.
GeometryPrompt(m, depth) == depth > 0 /\ PerStream(m) > 0 /\ depth >= PerStream(m)

\* The prompt and what is asked for beside it do not fit a stream's share.
Geometry(m, depth) == depth > 0 /\ PerStream(m) > 0 /\ depth + flags.tokens >= PerStream(m)

\* The median of the repetitions, and the rate it gives the row.
Sorted ==
  LET places == InOrder([i \in DOMAIN runs |-> runs[i].rate])
  IN [r \in DOMAIN runs |-> runs[places[r]]]
Median == Sorted[Len(runs) \div 2 + 1]

Measured ==
  LET some == runs # <<>>
      rate == IF some THEN Median.rate ELSE 0
      noted == IF some /\ Median.note # NoNote THEN Median.note ELSE row.note
  IN [m |-> row.m, depth |-> row.depth, rate |-> rate, reps |-> Len(runs),
      low  |-> IF some THEN Sorted[1].rate ELSE 0,
      high |-> IF some THEN Last(Sorted).rate ELSE 0,
      note |-> IF noted = NoNote /\ rate = 0 THEN NothingMeasured ELSE noted]

NoRow == [m |-> Base, depth |-> 0, note |-> NoNote]

---------------------------------------------------------------------------
(* The command.                                                              *)

SweepInit ==
  /\ flags \in Flags
  /\ grid = BuildGrid(flags) /\ depths = <<>>
  /\ row = NoRow /\ runs = <<>> /\ rows = <<>> /\ failedAt = 0 /\ told = {}
  /\ file = <<>> /\ tmp = <<>> /\ best = 0
  /\ pc = "config"

Skipped(m) == failedAt > 0 /\ m.streams >= failedAt

SkipConfig ==
  /\ pc = "config" /\ grid # <<>> /\ Skipped(grid[1])
  /\ told' = told \cup {grid[1]}
  /\ grid' = Tail(grid)
  /\ UNCHANGED <<flags, depths, row, runs, rows, failedAt, file, tmp, best, pc>>

Configure ==
  /\ pc = "config" /\ grid # <<>> /\ ~Skipped(grid[1])
  /\ depths' = ConfigDepths(grid[1])
  /\ pc' = "row"
  /\ UNCHANGED <<flags, grid, row, runs, rows, failedAt, told, file, tmp, best>>

StartRow ==
  LET d == depths[1] IN
  /\ pc = "row" /\ depths # <<>>
  /\ row' = [m |-> grid[1], depth |-> d,
             note |-> IF Geometry(grid[1], d) THEN Exceeds ELSE NoNote]
  /\ runs' = <<>> /\ depths' = Tail(depths)
  /\ pc' = "measure"
  /\ UNCHANGED <<flags, grid, rows, failedAt, told, file, tmp, best>>

\* depthTokens: more tokens are generated behind a deeper prompt, up to a cap.
DepthTokens(base, depth) ==
  LET n == base + depth \div DepthScale IN IF n > MaxGenerated THEN MaxGenerated ELSE n

\* What a stream generates: the tokens asked for, or as many as its depth makes of them.
Generated == IF row.depth > 0 THEN DepthTokens(flags.tokens, row.depth) ELSE flags.tokens

\* measureOne returns a measurement, perhaps with a note of its own.
Measure ==
  /\ pc = "measure" /\ row.note = NoNote /\ Len(runs) < flags.reps
  /\ \E rate \in 0 .. MaxRate, note \in {NoNote, NotAmortising} :
       runs' = Append(runs, [rate |-> rate, note |-> note, generated |-> Generated])
  /\ UNCHANGED <<flags, grid, depths, row, rows, failedAt, told, file, tmp, best, pc>>

\* Or an error, which ends the repetitions.
MeasureFails ==
  /\ pc = "measure" /\ row.note = NoNote /\ Len(runs) < flags.reps
  /\ row' = [row EXCEPT !.note = "error"]
  /\ UNCHANGED <<flags, grid, depths, runs, rows, failedAt, told, file, tmp, best, pc>>

Record ==
  /\ pc = "measure" /\ (row.note # NoNote \/ Len(runs) = flags.reps)
  /\ rows' = Append(rows, Measured)
  /\ failedAt' = IF Measured.rate = 0 /\ failedAt = 0 THEN row.m.streams ELSE failedAt
  /\ pc' = "write"
  /\ UNCHANGED <<flags, grid, depths, row, runs, told, file, tmp, best>>

NextConfig ==
  /\ pc = "row" /\ depths = <<>>
  /\ grid' = Tail(grid) /\ pc' = "config"
  /\ UNCHANGED <<flags, depths, row, runs, rows, failedAt, told, file, tmp, best>>

---------------------------------------------------------------------------
(* writeRows.                                                                *)

Torn == <<NoRow>>

\* os.WriteFile: a file cut short, until all of it is there.
WriteTmp ==
  /\ pc \in {"write", "last"} /\ tmp' = Torn
  /\ pc' = IF pc = "write" THEN "written" ELSE "writtenLast"
  /\ UNCHANGED <<flags, grid, depths, row, runs, rows, failedAt, told, file, best>>

Written ==
  /\ pc \in {"written", "writtenLast"} /\ tmp = Torn
  /\ tmp' = rows
  /\ UNCHANGED <<flags, grid, depths, row, runs, rows, failedAt, told, file, best, pc>>

Resume == pc' = IF pc \in {"written", "write"} THEN "row" ELSE "done"

\* Changed: whatever was written goes to the file.
RenameTorn ==
  /\ pc \in {"written", "writtenLast"}
  /\ file' = tmp /\ Resume
  /\ UNCHANGED <<flags, grid, depths, row, runs, rows, failedAt, told, tmp, best>>

\* The rows go to their file only from a complete copy.
Rename ==
  /\ pc \in {"written", "writtenLast"} /\ tmp # Torn
  /\ file' = tmp /\ Resume
  /\ UNCHANGED <<flags, grid, depths, row, runs, rows, failedAt, told, tmp, best>>

\* The disk refuses either, and the sweep goes on.
WriteFails ==
  /\ pc \in {"written", "writtenLast"} /\ Resume
  /\ UNCHANGED <<flags, grid, depths, row, runs, rows, failedAt, told, file, tmp, best>>

\* The winner, and the rows once more.
PrintBest ==
  LET top == {i \in DOMAIN rows : \A j \in DOMAIN rows : rows[j].rate <= rows[i].rate} IN
  /\ pc = "config" /\ grid = <<>>
  /\ best' = IF top # {} /\ rows[Min(top)].rate > 0 THEN Min(top) ELSE 0
  /\ pc' = "last"
  /\ UNCHANGED <<flags, grid, depths, row, runs, rows, failedAt, told, file, tmp>>

\* The time is up, the instance is replaced, or a configuration takes the
\* process with it.
Crash ==
  /\ pc # "done" /\ pc # "crashed"
  /\ pc' = "crashed"
  /\ UNCHANGED <<flags, grid, depths, row, runs, rows, failedAt, told, file, tmp, best>>

SweepNext ==
  \/ SkipConfig \/ Configure \/ StartRow \/ Measure \/ MeasureFails \/ Record \/ NextConfig
  \/ WriteTmp \/ Written \/ Rename \/ WriteFails \/ PrintBest \/ Crash

---------------------------------------------------------------------------
(* Properties.                                                               *)

\* No row is a bare zero: one without a rate says why, and one with a rate is
\* the median of repetitions that were measured, within their range
\* (sweep.go:199-207, 229-231).
RowHonest(r) ==
  /\ r.rate = 0 => r.note # NoNote
  /\ r.reps = 0 => r.rate = 0
  /\ r.low <= r.rate /\ r.rate <= r.high /\ r.reps <= flags.reps

RowsHonest == \A i \in DOMAIN rows : RowHonest(rows[i])

\* Nothing of the grid is left out silently: at the end a configuration has a
\* row for each of its depths or was told to be skipped, which only happens
\* behind a row without a rate of no more streams; and the best is the best.
TableWhole ==
  LET all == BuildGrid(flags) IN
  pc = "done" =>
    /\ \A i \in DOMAIN all :
         \/ all[i] \in told
         \/ \A d \in ToSet(ConfigDepths(all[i])) :
              \E j \in DOMAIN rows : rows[j].m = all[i] /\ rows[j].depth = d
    /\ \A m \in told : \E j \in DOMAIN rows : rows[j].rate = 0 /\ rows[j].m.streams <= m.streams
    /\ IF best = 0 THEN \A j \in DOMAIN rows : rows[j].rate = 0
       ELSE \A j \in DOMAIN rows : rows[j].rate <= rows[best].rate

\* The prompt of a measurement and what it generates fit a stream's share.
FitsShare(run) == row.depth > 0 /\ PerStream(row.m) > 0 => row.depth + run.generated < PerStream(row.m)

\* What is measured fits its share, unless its depth made it generate more than was
\* asked for, which is all that is checked (sweep.go:209-216, 441, 505-511).
RatesFit == \A i \in DOMAIN runs : FitsShare(runs[i]) \/ runs[i].generated > flags.tokens

\* "A prompt has to fit inside one sequence's share of the context, along with what
\* it will generate" (sweep.go:211-212).
SharesHeld == \A i \in DOMAIN runs : FitsShare(runs[i])

\* Whenever the sweep stops, the file holds rows it measured, the first ones and
\* whole (sweep.go:263-270, 306-307).
FileIsPrefix == IsPrefix(file, rows)
=============================================================================
