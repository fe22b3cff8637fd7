------------------------------ MODULE Schedule ------------------------------
(***************************************************************************)
(* Schedule of internal/vcontext/schedule.go with the TaskExecutor of      *)
(* taskexec.go: one goroutine per task that became ready, a semaphore      *)
(* around Exec, and one mutex around everything they share.                *)
(*                                                                         *)
(* A critical section is one action.  The list ready is empty outside of   *)
(* them, because launch empties it before it returns, so it is not a       *)
(* variable.  The output of a task is written as the name of the task, so  *)
(* that a prompt shows whose output it got.                                *)
(*                                                                         *)
(* A definition marked "Changed" is the next one with a bug; no action     *)
(* uses it, it shows which property notices the bug.                       *)
(***************************************************************************)
EXTENDS TaskGraph

CONSTANTS
  Names,        \* the names an extraction may use
  Graphs,       \* the graphs it may return
  Concurrency,  \* the argument of Schedule
  Budget        \* TaskExecutor.Budget in outputs, 0 for no check

ASSUME ScheduleAssumption ==
  /\ Concurrency \in Nat \ {0}
  /\ Budget \in Nat
  /\ NoName \notin Names
  /\ \A gr \in Graphs : /\ gr.order \in Seq(Names \cup {NoName})
                        /\ gr.deps \in [Names -> Seq(Names)]

VARIABLES
  g,         \* the graph, never written after the start
  pc,        \* "sort", "wait", "returned": the goroutine of the caller
  err,       \* the error Schedule returns
  ctxDone,   \* the caller's context is done
  pending,   \* the map pending
  phase,     \* the goroutine of a task: "none", "queued", "running", "leaving", "gone"
  given,     \* the argument deps of a task's goroutine
  verdict,   \* the map results: "none", "ok", "failed", "stopped", "blocked"
  cause,     \* BlockedBy
  outputs,   \* the map outputs, with NoName for a key that is not there
  inflight,  \* the counters behind Span
  peak

vars == <<g, pc, err, ctxDone, pending, phase, given, verdict, cause, outputs, inflight, peak>>

Tasks == IdsOf(g) \cap Names

Nothing == [t \in Names |-> NoName]

Init ==
  /\ g \in Graphs
  /\ pc = "sort" /\ err = "none" /\ ctxDone = FALSE
  /\ pending = [t \in Names |-> 0]
  /\ phase = [t \in Names |-> "none"]
  /\ given = [t \in Names |-> Nothing]
  /\ verdict = [t \in Names |-> "none"]
  /\ cause = Nothing /\ outputs = Nothing
  /\ inflight = 0 /\ peak = 0

---------------------------------------------------------------------------
(* The critical sections.                                                    *)

\* Changed: a goroutine gets the outputs as they were before the last one.
LaunchStale(ready, ph, out, n) ==
  LET new == {t \in ready : verdict[t] = "none"} IN
  /\ phase' = [t \in Names |-> IF t \in new THEN "queued" ELSE ph[t]]
  /\ given' = [t \in Names |->
       IF t \in new
       THEN [d \in Names |-> IF d \in DepsOf(g, t) THEN outputs[d] ELSE NoName]
       ELSE given[t]]
  /\ inflight' = n + Cardinality(new)
  /\ peak' = IF inflight' > peak THEN inflight' ELSE peak

\* launch: every ready task without a result gets its goroutine and the outputs
\* of what it depends on, and the counters see it.  ph, out and n are phase,
\* outputs and inflight as the caller of launch leaves them.
Launch(ready, ph, out, n) ==
  LET new == {t \in ready : verdict[t] = "none"} IN
  /\ phase' = [t \in Names |-> IF t \in new THEN "queued" ELSE ph[t]]
  /\ given' = [t \in Names |->
       IF t \in new
       THEN [d \in Names |-> IF d \in DepsOf(g, t) THEN out[d] ELSE NoName]
       ELSE given[t]]
  /\ inflight' = n + Cardinality(new)
  /\ peak' = IF inflight' > peak THEN inflight' ELSE peak

\* Changed: only the dependents of t itself.
BlockedNext(t) ==
  {u \in Tasks \ {t} : verdict[u] = "none" /\ t \in DepsOf(g, u)}

\* The tasks blockAll marks for t: the smallest set of tasks without a result
\* that has the dependents of t and of its own members.
BlockedBehind(t) ==
  LET open == {u \in Tasks \ {t} : verdict[u] = "none"} IN
  {u \in open : \A U \in SUBSET open :
     (\A w \in open : DepsOf(g, w) \cap (U \cup {t}) # {} => w \in U) => u \in U}

\* Changed: the immediate parent is named, not the failure.
ConcludeParent(t, outcome) ==
  LET behind == BlockedBehind(t) IN
  /\ verdict' = [u \in Names |-> IF u = t THEN outcome
                                 ELSE IF u \in behind THEN "blocked" ELSE verdict[u]]
  /\ cause' = [u \in Names |-> IF u \in behind
                               THEN CHOOSE d \in DepsOf(g, u) : d \in behind \cup {t}
                               ELSE cause[u]]
  /\ inflight' = inflight - 1
  /\ UNCHANGED <<pending, given, outputs, peak>>

\* A result that is not a text, and blockAll behind it.
Conclude(t, outcome) ==
  LET behind == BlockedBehind(t) IN
  /\ verdict' = [u \in Names |-> IF u = t THEN outcome
                                 ELSE IF u \in behind THEN "blocked" ELSE verdict[u]]
  /\ cause' = [u \in Names |-> IF u \in behind THEN t ELSE cause[u]]
  /\ inflight' = inflight - 1
  /\ UNCHANGED <<pending, given, outputs, peak>>

---------------------------------------------------------------------------
(* The caller's goroutine.                                                   *)

\* Schedule up to the unlock after the first launch, or its early return.
Begin ==
  /\ pc = "sort"
  /\ IF SortError(g) # "none"
     THEN /\ pc' = "returned" /\ err' = SortError(g)
          /\ UNCHANGED <<pending, phase, given, inflight, peak>>
     ELSE /\ pc' = "wait" /\ UNCHANGED err
          /\ pending' = [t \in Names |-> IF t \in Tasks THEN Len(g.deps[t]) ELSE 0]
          /\ Launch({t \in Tasks : pending'[t] = 0}, phase, outputs, inflight)
  /\ UNCHANGED <<g, ctxDone, verdict, cause, outputs>>

\* wg.Wait returns and the results are put together.
Return ==
  /\ pc = "wait"
  /\ \A t \in Tasks : phase[t] \in {"none", "gone"}
  /\ pc' = "returned"
  /\ UNCHANGED <<g, err, ctxDone, pending, phase, given, verdict, cause, outputs, inflight, peak>>

Cancel ==
  /\ pc = "wait" /\ ~ctxDone
  /\ ctxDone' = TRUE
  /\ UNCHANGED <<g, pc, err, pending, phase, given, verdict, cause, outputs, inflight, peak>>

---------------------------------------------------------------------------
(* The goroutine of a task.                                                  *)

Holding == {t \in Tasks : phase[t] \in {"running", "leaving"}}

\* assemble: the entries of depends_on whose output is in the prompt.
Prompt(t) == {i \in DOMAIN g.deps[t] : given[t][g.deps[t][i]] # NoName}

OverBudget(t) == Budget > 0 /\ Cardinality(Prompt(t)) > Budget

Acquire(t) ==
  /\ phase[t] = "queued"
  /\ Cardinality(Holding) < Concurrency
  /\ phase' = [phase EXCEPT ![t] = "running"]
  /\ UNCHANGED <<g, pc, err, ctxDone, pending, given, verdict, cause, outputs, inflight, peak>>

\* The context is done before a place is free; both may be taken when both are.
GiveUp(t) ==
  /\ phase[t] = "queued" /\ ctxDone
  /\ phase' = [phase EXCEPT ![t] = "gone"]
  /\ Conclude(t, "stopped")
  /\ UNCHANGED <<g, pc, err, ctxDone>>

\* Changed: a task that fails is put back among the queued.
ExecFailsRetry(t) ==
  /\ phase[t] = "running"
  /\ phase' = [phase EXCEPT ![t] = "queued"]
  /\ UNCHANGED <<g, pc, err, ctxDone, pending, given, verdict, cause, outputs, inflight, peak>>

\* Exec fails: the prompt is over budget, or the runner returns an error.
ExecFails(t) ==
  /\ phase[t] = "running"
  /\ phase' = [phase EXCEPT ![t] = "leaving"]
  /\ Conclude(t, "failed")
  /\ UNCHANGED <<g, pc, err, ctxDone>>

\* Changed: a dependent is launched at its first prerequisite.
ExecReturnsAny(t) ==
  /\ phase[t] = "running" /\ ~OverBudget(t)
  /\ verdict' = [verdict EXCEPT ![t] = "ok"]
  /\ outputs' = [outputs EXCEPT ![t] = t]
  /\ UNCHANGED pending
  /\ Launch({u \in Tasks : t \in DepsOf(g, u) /\ phase[u] = "none"},
            [phase EXCEPT ![t] = "leaving"], outputs', inflight - 1)
  /\ UNCHANGED <<g, pc, err, ctxDone, cause>>

\* Exec returns a text: dependents lose one prerequisite per mention of t, and
\* those with none left are launched.
ExecReturns(t) ==
  /\ phase[t] = "running" /\ ~OverBudget(t)
  /\ verdict' = [verdict EXCEPT ![t] = "ok"]
  /\ outputs' = [outputs EXCEPT ![t] = t]
  /\ pending' = [u \in Names |->
       IF u \in Tasks
       THEN pending[u] - Cardinality({i \in DOMAIN g.deps[u] : g.deps[u][i] = t})
       ELSE pending[u]]
  /\ Launch({u \in Tasks : t \in DepsOf(g, u) /\ pending'[u] = 0},
            [phase EXCEPT ![t] = "leaving"], outputs', inflight - 1)
  /\ UNCHANGED <<g, pc, err, ctxDone, cause>>

\* The deferred receive from the semaphore and wg.Done.
Leave(t) ==
  /\ phase[t] = "leaving"
  /\ phase' = [phase EXCEPT ![t] = "gone"]
  /\ UNCHANGED <<g, pc, err, ctxDone, pending, given, verdict, cause, outputs, inflight, peak>>

Worker(t) == Acquire(t) \/ GiveUp(t) \/ ExecFails(t) \/ ExecReturns(t) \/ Leave(t)

Terminated == pc = "returned" /\ UNCHANGED vars

Next == Begin \/ Return \/ Cancel \/ (\E t \in Names : t \in Tasks /\ Worker(t)) \/ Terminated

\* The caller waits, the goroutines run, and Exec returns: the HTTP client of
\* the runner has a timeout.
Fairness ==
  /\ WF_vars(Begin) /\ WF_vars(Return)
  /\ \A t \in Names : WF_vars(t \in Tasks /\ Worker(t))

Spec == Init /\ [][Next]_vars /\ Fairness

---------------------------------------------------------------------------
(* What the caller gets.                                                     *)

\* Changed: the tasks as they were listed.
ResultsListed == g.order

\* Run.Results: by tier, and within a tier as the tasks were listed.
Results == FlattenSeq([k \in 1 .. Len(g.order) |-> InTier(g, k - 1)])

FailedTasks == {t \in Tasks : verdict[t] \in {"failed", "stopped"}}
BlockedTasks == {t \in Tasks : verdict[t] \in {"blocked", "none"}}
Complete == FailedTasks = {} /\ BlockedTasks = {}

\* The texts Assemble writes, in order.
Sections == Only(Results, {t \in Tasks : verdict[t] = "ok"})

---------------------------------------------------------------------------
(* Properties.                                                               *)

TypeOK ==
  /\ g \in Graphs
  /\ pc \in {"sort", "wait", "returned"}
  /\ err \in {"none", "name", "missing", "cycle"}
  /\ ctxDone \in BOOLEAN
  /\ pending \in [Names -> Nat]
  /\ phase \in [Names -> {"none", "queued", "running", "leaving", "gone"}]
  /\ verdict \in [Names -> {"none", "ok", "failed", "stopped", "blocked"}]
  /\ given \in [Names -> [Names -> Names \cup {NoName}]]
  /\ {cause, outputs} \subseteq [Names -> Names \cup {NoName}]
  /\ inflight \in Nat /\ peak \in Nat

\* Sort (dag.go:64-129) refuses a graph exactly when some tasks can never be
\* the first to start; what it names is those knots and the tasks behind them,
\* in what it accepts every task is one tier after its last prerequisite, what
\* Independent returns is what no other task waits for or is waited for by, and
\* CriticalPath is a chain of dependencies with one task of every tier: no number
\* of streams makes the run shorter than it.
SortSound ==
  pc = "sort" /\ WellNamed(g) /\ MissingDeps(g) = {} =>
    LET knots == UNION {S \in SUBSET Tasks : Knot(g, S)} IN
    /\ Involved(g) = Behind(g, knots)
    /\ SortError(g) = "none" =>
         /\ LET path == CriticalPath(g) IN
            /\ \A i \in 2 .. Len(path) : path[i-1] \in DepsOf(g, path[i])
            /\ {TierOf(g, path[i]) : i \in DOMAIN path} = {TierOf(g, t) : t \in Tasks}
         /\ Independent(g) = {t \in Tasks : TierOf(g, t) = 0 /\ Behind(g, {t}) = {t}}
         /\ \A t \in Tasks :
              /\ \A d \in DepsOf(g, t) : TierOf(g, d) < TierOf(g, t)
              /\ TierOf(g, t) > 0 => \E d \in DepsOf(g, t) : TierOf(g, d) = TierOf(g, t) - 1

\* A task's goroutine exists only when everything it depends on has succeeded,
\* and its prompt has the output of each of them and of nothing else
\* (schedule.go:184-188, taskexec.go:95-100): the read of a missing key of
\* outputs would be an empty text, not an error.
PrerequisitesDelivered ==
  \A t \in Tasks : phase[t] # "none" =>
    /\ \A d \in DepsOf(g, t) : verdict[d] = "ok" /\ given[t][d] = d
    /\ {g.deps[t][i] : i \in Prompt(t)} = DepsOf(g, t)

\* A blocked task never ran, and BlockedBy names a task that ran and failed and
\* that it is behind (schedule.go:159-173), however many failures race.
BlockedNamesCause ==
  \A t \in Tasks : verdict[t] = "blocked" =>
    /\ phase[t] = "none"
    /\ cause[t] \in FailedTasks
    /\ t \in Behind(g, {cause[t]})

\* When Schedule returns every task has a result, and the blocked ones are
\* exactly those behind a failure (schedule.go:238-254): no hole, and nothing
\* given up that could have run.
NothingLeftOut ==
  pc = "returned" /\ err = "none" =>
    /\ \A t \in Tasks : verdict[t] # "none"
    /\ {t \in Tasks : verdict[t] = "blocked"} = Behind(g, FailedTasks) \ FailedTasks

\* In the answer of Assemble (extract.go:82-95) a result comes after the
\* results it was derived from, and all that succeeded are there once.
ReadingOrder ==
  pc = "returned" /\ err = "none" =>
    /\ ToSet(Sections) = {t \in Tasks : verdict[t] = "ok"} /\ IsInjective(Sections)
    /\ \A i, j \in DOMAIN Sections : Sections[i] \in DepsOf(g, Sections[j]) => i < j

\* Span is "the widest concurrency the run actually reached"
\* (schedule.go:92-95), and no more than Concurrency tasks run at a time.
SpanReached == peak <= Concurrency

\* Every schedule returns, also when tasks fail or the caller gives up
\* (schedule.go:226): nobody waits for a prerequisite that will never come.
ScheduleReturns == <>(pc = "returned")

\* The run keeps the promise of TaskOrder.
OrderOf(t) ==
  IF verdict[t] = "ok" THEN "succeeded"
  ELSE IF verdict[t] \in {"failed", "stopped"} THEN "failed"
  ELSE IF verdict[t] = "blocked" THEN "blocked"
  ELSE IF phase[t] # "none" THEN "started" ELSE "waiting"

Order == INSTANCE TaskOrder WITH
  Tasks <- Names,
  needs <- [t \in Names |-> IF t \in Tasks THEN DepsOf(g, t) ELSE {}],
  state <- [t \in Names |-> OrderOf(t)]

ImplementsTaskOrder == Order!Spec
=============================================================================
