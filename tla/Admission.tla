------------------------------- MODULE Admission -------------------------------
(***************************************************************************)
(* What the engine promises its callers, free of how it decodes: a request *)
(* is refused at once or accepted; accepted requests wait in order, run on *)
(* one of Capacity places, and are settled once.  Closing moves everything *)
(* that waits to leaving, and nothing is accepted afterwards.  EngineLoop  *)
(* implements this specification.                                          *)
(***************************************************************************)
EXTENDS Integers, Sequences, FiniteSets

CONSTANTS
  Requests, \* the requests clients may make
  Fitting,  \* the requests whose prompt leaves room to generate
  Capacity, \* how many run at a time (NSeqMax sequences)
  Limit     \* how many may wait, 0 for no limit

VARIABLES
  asked,    \* the requests that were made
  waiting,  \* the accepted requests that have not started, oldest first
  serving,  \* the requests that run
  leaving,  \* the requests that were waiting when admission closed
  settled,  \* the requests whose stream is closed
  gone,     \* the requests whose caller cancelled
  open      \* whether requests are still accepted

vars == <<asked, waiting, serving, leaving, settled, gone, open>>

Init ==
  /\ asked = {} /\ waiting = <<>> /\ serving = {} /\ leaving = {}
  /\ settled = {} /\ gone = {}
  /\ open = TRUE

Welcome(r) == open /\ r \in Fitting /\ (Limit > 0 => Len(waiting) < Limit)

Accept(r) ==
  /\ r \notin asked /\ Welcome(r)
  /\ asked' = asked \cup {r}
  /\ waiting' = Append(waiting, r)
  /\ UNCHANGED <<serving, leaving, settled, gone, open>>

Refuse(r) ==
  /\ r \notin asked /\ ~Welcome(r)
  /\ asked' = asked \cup {r}
  /\ UNCHANGED <<waiting, serving, leaving, settled, gone, open>>

GiveUp(r) ==
  /\ r \in asked
  /\ gone' = gone \cup {r}
  /\ UNCHANGED <<asked, waiting, serving, leaving, settled, open>>

\* The oldest waiting request starts on a place that nobody has.
Start ==
  /\ waiting # <<>> /\ Cardinality(serving) < Capacity
  /\ Head(waiting) \notin gone
  /\ waiting' = Tail(waiting)
  /\ serving' = serving \cup {Head(waiting)}
  /\ UNCHANGED <<asked, leaving, settled, gone, open>>

\* The oldest waiting request is dropped, only if its caller gave up.
Drop ==
  /\ waiting # <<>>
  /\ Head(waiting) \in gone
  /\ waiting' = Tail(waiting)
  /\ settled' = settled \cup {Head(waiting)}
  /\ UNCHANGED <<asked, serving, leaving, gone, open>>

Settle(r) ==
  /\ r \in serving \cup leaving
  /\ serving' = serving \ {r}
  /\ leaving' = leaving \ {r}
  /\ settled' = settled \cup {r}
  /\ UNCHANGED <<asked, waiting, gone, open>>

\* Closing leaves nothing running and nothing waiting.
Close ==
  /\ serving = {}
  /\ open' = FALSE
  /\ waiting' = <<>>
  /\ leaving' = {waiting[i] : i \in DOMAIN waiting}
  /\ UNCHANGED <<asked, serving, settled, gone>>

Next ==
  \/ \E r \in Requests : Accept(r) \/ Refuse(r) \/ GiveUp(r) \/ Settle(r)
  \/ Start \/ Drop \/ Close

Spec == Init /\ [][Next]_vars
=============================================================================
