------------------------------ MODULE TaskGraph ------------------------------
(***************************************************************************)
(* The graph of internal/vcontext/dag.go: Sort, Independent and            *)
(* CriticalPath over tasks and the tasks they depend on.                   *)
(*                                                                         *)
(* A graph is what an extraction returned, so nothing is taken for         *)
(* granted: an id may be missing or used twice, a dependency may name no   *)
(* task, be listed twice, or close a cycle.  order is the ids as they are  *)
(* listed, deps the list each name carries.                                *)
(***************************************************************************)
EXTENDS Integers, Sequences, FiniteSets, SequencesExt

CONSTANT NoName    \* the empty id

IdsOf(g) == ToSet(g.order)
DepsOf(g, t) == ToSet(g.deps[t])

\* Graph.Tasks with its ids usable as keys: what the loops below rely on.
WellNamed(g) == NoName \notin IdsOf(g) /\ IsInjective(g.order)

MissingDeps(g) == {t \in IdsOf(g) : ~(DepsOf(g, t) \subseteq IdsOf(g))}

\* The in-degree once the tasks in seen are scheduled: an entry of depends_on
\* is counted when it is read and again when its task is taken, so a
\* dependency listed twice is counted and discounted twice.
InDegree(g, seen, t) ==
  Cardinality({i \in DOMAIN g.deps[t] : g.deps[t][i] \notin seen})

\* Changed: a task joins the tier that unblocks it.
ReadyAfterEager(g, seen) ==
  LET first == {t \in IdsOf(g) \ seen : InDegree(g, seen, t) = 0}
  IN  first \cup {t \in IdsOf(g) \ seen : InDegree(g, seen \cup first, t) = 0}

ReadyAfter(g, seen) == {t \in IdsOf(g) \ seen : InDegree(g, seen, t) = 0}

\* What has been taken before a level: the loop of Sort, level by level.  It
\* stops changing at the first level with nothing ready.
TakenBefore(g) ==
  LET taken[k \in 0 .. Len(g.order)] ==
        IF k = 0 THEN {} ELSE taken[k-1] \cup ReadyAfter(g, taken[k-1])
  IN  taken

Scheduled(g) == TakenBefore(g)[Len(g.order)]

\* The tasks a CycleError names: everything that was never ready.
Involved(g) == IdsOf(g) \ Scheduled(g)

\* The errors of Sort, in the order in which it looks for them.
SortError(g) ==
  IF ~WellNamed(g) THEN "name"
  ELSE IF MissingDeps(g) # {} THEN "missing"
  ELSE IF Involved(g) # {} THEN "cycle" ELSE "none"

\* Those of a list that are in a set, in the order of the list.
Only(list, S) ==
  FoldLeft(LAMBDA kept, t : IF t \in S THEN Append(kept, t) ELSE kept, <<>>, list)

\* The level of a scheduled task, and the tasks of a level as they were listed.
TierOf(g, t) ==
  (CHOOSE k \in 1 .. Len(g.order) : t \in TakenBefore(g)[k] \ TakenBefore(g)[k-1]) - 1
InTier(g, k) == Only(g.order, {t \in IdsOf(g) : TierOf(g, t) = k})

\* The tasks with neither prerequisites nor dependents.
Independent(g) ==
  {t \in IdsOf(g) : g.deps[t] = <<>> /\ \A u \in IdsOf(g) : t \notin DepsOf(g, u)}

Longer(p, q) == IF Len(q) > Len(p) THEN q ELSE p

\* The first of the longest of the chains that walk has for a list of tasks.
Longest(walk, list) == FoldLeft(LAMBDA best, t : Longer(best, walk[t]), <<>>, list)

\* CriticalPath of a graph without a cycle: the first of the longest chains.
CriticalPath(g) ==
  LET walk[t \in IdsOf(g)] == Append(Longest(walk, g.deps[t]), t)
  IN  Longest(walk, g.order)

---------------------------------------------------------------------------
(* The definitions the algorithms are compared with.                         *)

\* A set of tasks none of which can be the first to start.
Knot(g, S) == S # {} /\ \A t \in S : DepsOf(g, t) \cap S # {}

\* The tasks behind a set: it and everything that depends on it, transitively.
Behind(g, S) ==
  {t \in IdsOf(g) : \A U \in SUBSET IdsOf(g) :
      (S \subseteq U /\ \A u \in IdsOf(g) : DepsOf(g, u) \cap U # {} => u \in U) => t \in U}
=============================================================================
