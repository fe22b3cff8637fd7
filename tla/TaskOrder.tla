------------------------------ MODULE TaskOrder ------------------------------
(***************************************************************************)
(* What internal/vcontext promises of a graph of tasks, whatever starts    *)
(* them: a task starts once everything it needs has succeeded, runs once,  *)
(* and a task is given up only behind one that failed.                     *)
(***************************************************************************)
CONSTANT Tasks

VARIABLES
  needs,    \* [Tasks -> SUBSET Tasks]: the prerequisites, which never change
  state     \* "waiting", "started", "succeeded", "failed" or "blocked"

vars == <<needs, state>>

Init ==
  /\ needs \in [Tasks -> SUBSET Tasks]
  /\ state = [t \in Tasks |-> "waiting"]

\* The tasks of S wait, and everything they need has succeeded once done has.
MayStart(S, done) ==
  \A t \in S : state[t] = "waiting" /\ \A d \in needs[t] : d \in done \/ state[d] = "succeeded"

\* The tasks of S wait, and each needs a task that failed or is given up too.
MayBlock(S, failed) ==
  \A t \in S : /\ state[t] = "waiting"
               /\ \E d \in needs[t] : d \in failed \cup S \/ state[d] \in {"failed", "blocked"}

Begin(S) ==
  /\ MayStart(S, {})
  /\ state' = [t \in Tasks |-> IF t \in S THEN "started" ELSE state[t]]
  /\ UNCHANGED needs

Succeed(t, S) ==
  /\ state[t] = "started"
  /\ MayStart(S, {t})
  /\ state' = [u \in Tasks |-> IF u = t THEN "succeeded"
                               ELSE IF u \in S THEN "started" ELSE state[u]]
  /\ UNCHANGED needs

Fail(t, S) ==
  /\ state[t] = "started"
  /\ MayBlock(S, {t})
  /\ state' = [u \in Tasks |-> IF u = t THEN "failed"
                               ELSE IF u \in S THEN "blocked" ELSE state[u]]
  /\ UNCHANGED needs

Next == \E S \in SUBSET Tasks : Begin(S) \/ \E t \in Tasks : Succeed(t, S) \/ Fail(t, S)

Spec == Init /\ [][Next]_vars
=============================================================================
