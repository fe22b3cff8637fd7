------------------------------ MODULE MCService ------------------------------
(* Small instances of Service. *)
EXTENDS Service

CONSTANT big

MCOrder == <<big>>

\* The first wants its answer streamed, with tools, or names no model; the second
\* wants a buffered one.
Body(model, tools, sse) == [model |-> model, tools |-> tools, sse |-> sse]
MCBodies == [r \in {1, 2} |->
  IF r = 1 THEN {Body(big, TRUE, TRUE), Body(Unknown, FALSE, FALSE)}
  ELSE {Body(big, FALSE, FALSE)}]
=============================================================================
