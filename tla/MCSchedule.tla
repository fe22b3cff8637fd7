---------------------------- MODULE MCSchedule ----------------------------
(* Small graphs for Schedule: all small ones, and shapes of four tasks.      *)
EXTENDS Schedule

CONSTANTS a, b, c, d

Lists(S) == {<<>>} \cup {<<x>> : x \in S} \cup {<<x, y>> : x \in S, y \in S}

Graph(order, da, db, dc, dd) ==
  [order |-> order, deps |-> [t \in Names |->
     CASE t = a -> da [] t = b -> db [] t = c -> dc [] OTHER -> dd]]

\* Every graph of two or three tasks with up to two dependencies each: among
\* them every cycle, repeated dependency, and dependency on no task.
ThreeTasks ==
  {Graph(<<c, a, b>>, da, db, dc, <<>>) :
     da \in Lists({a, b, c}), db \in Lists({a, b, c}), dc \in Lists({b, c})}
TwoTasks ==
  {Graph(<<b, a>>, da, db, <<>>, <<>>) : da \in Lists({b, c}), db \in Lists({a, b})}

\* Ids that are missing or used twice.
Misnamed ==
  {Graph(<<a, b, a>>, <<>>, <<a>>, <<>>, <<>>), Graph(<<a, NoName>>, <<>>, <<>>, <<>>, <<>>)}

\* Every graph of four tasks without a cycle, listed out of order.
FourTasks ==
  {Graph(<<d, b, a, c>>, <<>>, SetToSeq(B), SetToSeq(C), SetToSeq(D)) :
     B \in SUBSET {a}, C \in SUBSET {a, b}, D \in SUBSET {a, b, c}}

MCGraphs == ThreeTasks \cup TwoTasks \cup Misnamed \cup FourTasks
=============================================================================
