------------------------------ MODULE Codegraph ------------------------------
(***************************************************************************)
(* The generation plan for a set of code units (internal/codegraph,        *)
(* internal/dag): symbols become edges, Tarjan's algorithm without         *)
(* recursion finds the strongly connected components, their condensation   *)
(* is sorted into levels, and the kind of a unit may move its group back.  *)
(* Units are numbered in the order of their ids.                           *)
(***************************************************************************)
EXTENDS Integers, Sequences, SequencesExt, FiniteSets, FiniteSetsExt, Functions

CONSTANTS
  UnitSets  \* sequences of [provides, requires, kind]; symbols stand for what norm makes of them

\* Build is given a slice of units.
ASSUME GraphAssumption == \A u \in UnitSets : Len(u) \in Nat /\ DOMAIN u = 1 .. Len(u)

VARIABLES
  units,
  todo,    \* the nodes the outer loop of SCC has not come to
  frames,  \* its stack of calls: [node, left], the successors not yet taken
  stack,
  visit,   \* [nodes seen -> the order in which they were]
  low,
  comps,   \* the components found
  stage    \* "scc", "built"

graphVars == <<units, todo, frames, stack, visit, low, comps, stage>>

---------------------------------------------------------------------------
(* Graph.Resolve.                                                            *)

Nodes == DOMAIN units

Owners(symbol) == {u \in Nodes : symbol \in units[u].provides}

\* Every provider of a required symbol but the unit itself.
Deps(u) == UNION {Owners(s) : s \in units[u].requires} \ {u}

---------------------------------------------------------------------------
(* dag.SCC.                                                                  *)

GraphInit ==
  /\ units \in UnitSets
  /\ todo = [i \in 1 .. Len(units) |-> i]
  /\ frames = <<>> /\ stack = <<>> /\ visit = <<>> /\ low = <<>> /\ comps = <<>>
  /\ stage = "scc"

Seen == DOMAIN visit

Enter(w, calls) ==
  /\ visit' = [v \in Seen \cup {w} |-> IF v = w THEN Cardinality(Seen) ELSE visit[v]]
  /\ low' = [v \in Seen \cup {w} |-> IF v = w THEN Cardinality(Seen) ELSE low[v]]
  /\ stack' = Append(stack, w)
  /\ frames' = Append(calls, [node |-> w, left |-> Deps(w)])

\* The next root; one that has been seen is passed over.
Root ==
  /\ stage = "scc" /\ frames = <<>> /\ todo # <<>>
  /\ todo' = Tail(todo)
  /\ IF todo[1] \in Seen THEN UNCHANGED <<frames, stack, visit, low>>
     ELSE Enter(todo[1], <<>>)
  /\ UNCHANGED <<units, comps, stage>>

Top == Last(frames)
More == frames # <<>> /\ Top.left # {}

\* adj is in the order of the ids.
NextSucc == Min(Top.left)
Advanced == [frames EXCEPT ![Len(frames)].left = @ \ {NextSucc}]

Descend ==
  /\ More /\ NextSucc \notin Seen
  /\ Enter(NextSucc, Advanced)
  /\ UNCHANGED <<units, todo, comps, stage>>

\* Changed: an edge into a finished component counts, too.
BackAnywhere ==
  /\ More /\ NextSucc \in Seen
  /\ low' = [low EXCEPT ![Top.node] = Min({@, visit[NextSucc]})]
  /\ frames' = Advanced
  /\ UNCHANGED <<units, todo, stack, visit, comps, stage>>

\* An edge to a node that is still on the stack lowers; any other does nothing.
Back ==
  /\ More /\ NextSucc \in Seen
  /\ low' = IF NextSucc \in ToSet(stack)
            THEN [low EXCEPT ![Top.node] = Min({@, visit[NextSucc]})] ELSE low
  /\ frames' = Advanced
  /\ UNCHANGED <<units, todo, stack, visit, comps, stage>>

\* Done with a node: it may be the root of a component, and its caller learns
\* how far back it reaches.
Finish ==
  LET v == Top.node
      from == SelectInSeq(stack, LAMBDA w : w = v)
      calls == Front(frames)
  IN /\ frames # <<>> /\ ~More
     /\ IF low[v] = visit[v]
        THEN /\ comps' = Append(comps, ToSet(SubSeq(stack, from, Len(stack))))
             /\ stack' = SubSeq(stack, 1, from - 1)
        ELSE UNCHANGED <<comps, stack>>
     /\ frames' = calls
     /\ low' = IF calls = <<>> THEN low
               ELSE [low EXCEPT ![Last(calls).node] = Min({@, low[v]})]
     /\ UNCHANGED <<units, todo, visit, stage>>

Built ==
  /\ stage = "scc" /\ frames = <<>> /\ todo = <<>>
  /\ stage' = "built"
  /\ UNCHANGED <<units, todo, frames, stack, visit, low, comps>>

GraphNext == Root \/ Descend \/ Back \/ Finish \/ Built

---------------------------------------------------------------------------
(* dag.Condense and Graph.Build.                                             *)

CompOf(u) == CHOOSE c \in DOMAIN comps : u \in comps[c]

CompDeps(c) == {CompOf(d) : d \in UNION {Deps(u) : u \in comps[c]}} \ {c}

\* Below[n]: the components on the first n levels, each level taken at once.
Below == LET f[n \in 0 .. Len(comps)] ==
               IF n = 0 THEN {} ELSE {c \in DOMAIN comps : CompDeps(c) \subseteq f[n - 1]}
         IN f

Level(c) == LET below == Below IN Min({n \in 0 .. Len(comps) - 1 : c \in below[n + 1]})

\* rank, which knows no other kind but those of lower rank.
Rank(kind) == CASE kind = "test" -> 2 [] kind = "impl" -> 1 [] OTHER -> 0

Want(c) == Max({Rank(units[u].kind) : u \in comps[c]})

\* applyKindPrior: the level of a component's group, raised to what its kinds want.
PlanLevel(c) == IF Want(c) > Level(c) THEN Want(c) ELSE Level(c)

---------------------------------------------------------------------------
(* Properties.                                                               *)

\* What a unit needs and all that needs in turn is in every closed set it is in.
Closed == {s \in SUBSET Nodes : \A u \in s : Deps(u) \subseteq s}

\* The components are the sets of units that reach each other, every unit is in
\* one, and a component comes after all it depends on (dag.go:31-36, 111-117); its
\* group comes after those of them that their kinds left where they were.
ComponentsRight ==
  LET closed == Closed
      reaches(u, v) == \A s \in closed : u \in s => v \in s
  IN stage = "built" =>
       /\ \A u \in Nodes : Cardinality({c \in DOMAIN comps : u \in comps[c]}) = 1
       /\ \A u, v \in Nodes : CompOf(u) = CompOf(v) <=> reaches(u, v) /\ reaches(v, u)
       /\ \A u \in Nodes : \A v \in Deps(u) :
            CompOf(u) # CompOf(v) =>
              /\ Level(CompOf(v)) < Level(CompOf(u))
              /\ PlanLevel(CompOf(v)) = Level(CompOf(v)) =>
                   PlanLevel(CompOf(v)) < PlanLevel(CompOf(u))

\* "a real edge always wins over a kind" (graph.go:23, 259-260): a group is generated
\* after all its units depend on.  What depends on a test is not pushed back with it.
EdgesWin ==
  stage = "built" => \A u \in Nodes : \A v \in Deps(u) :
    CompOf(u) # CompOf(v) => PlanLevel(CompOf(v)) < PlanLevel(CompOf(u))
=============================================================================
