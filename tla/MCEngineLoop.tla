---------------------------- MODULE MCEngineLoop ----------------------------
(* Small instances of EngineLoop: the constants that are functions.         *)
EXTENDS EngineLoop

CONSTANTS r1, r2, r3

\* r2's prompt is longer than a batch, the others are one token.
MCPromptLen == [r \in Requests |-> IF r = r2 THEN 3 ELSE 1]
\* The smallest requests: one token, and one to answer.
MCOnePrompts == [r \in Requests |-> 1]
MCEachOne == [r \in Requests |-> 1]
\* r1 reaches its limit in a burst, r2 has none, r3 stops at its first token.
MCMaxTokens == [r \in Requests |-> IF r = r1 THEN 2 ELSE IF r = r2 THEN 0 ELSE 1]
\* Every request has a limit.
MCLimited == [r \in Requests |-> IF r = r3 THEN 1 ELSE 2]
=============================================================================
