------------------------------- MODULE Prefill -------------------------------
(***************************************************************************)
(* Orchestrator.Process (internal/prefill/prefill.go): one worker for each *)
(* chunk, a semaphore of Streams permits, and one owner goroutine that     *)
(* makes every call into the engine.  Workers hand it their chunk over an  *)
(* unbuffered channel and wait for the answer on one of their own; any     *)
(* wait is given up when the context of the run is done.                   *)
(***************************************************************************)
EXTENDS Integers, FiniteSets, Sequences, SequencesExt

CONSTANTS
  Batches,  \* the lists of chunk ids Process may be called with
  Permitted \* streams: Process refuses less than one

ASSUME PrefillAssumption == Batches \subseteq Seq(Int) /\ Permitted \in Nat \ {0}

VARIABLES
  policy,     \* "Continue" or "FailFast"
  ids,        \* the ids of the chunks, in the order of the call
  proc,       \* Process: "loop", "wait", "drain", "refused", "returned"
  spawned,    \* how many workers it has started
  filler,     \* [1 .. Len(ids) -> where a worker is]
  owner,      \* the worker whose chunk the owner evaluates, 0 for none
  reply,      \* the channel out of each worker, "none" when empty
  results,    \* [0 .. Len(ids) - 1 -> "zero", "ok", "failed", "cancelled"]
  cancelled,  \* the flag under mu
  failed,     \* firstErr is set
  runDone,    \* runCtx is done
  asked       \* the caller cancelled

prefillVars == <<policy, ids, proc, spawned, filler, owner, reply, results, cancelled, failed,
          runDone, asked>>

Workers == 1 .. Len(ids)

\* The guard of the index assignment: the ids are exactly 0 .. n - 1.
Dense(s) == \A i \in 1 .. Len(s) :
  /\ s[i] \in 0 .. Len(s) - 1
  /\ \A j \in 1 .. i - 1 : s[j] # s[i]

PrefillInit ==
  /\ policy \in {"Continue", "FailFast"}
  /\ ids \in Batches
  /\ proc = IF Dense(ids) THEN "loop" ELSE "refused"
  /\ spawned = 0
  /\ filler = [i \in Workers |-> "new"]
  /\ owner = 0
  /\ reply = [i \in Workers |-> "none"]
  /\ results = [c \in 0 .. Len(ids) - 1 |-> "zero"]
  /\ cancelled = FALSE /\ failed = FALSE /\ runDone = FALSE /\ asked = FALSE

---------------------------------------------------------------------------
(* The loop of Process.                                                      *)

\* Changed: the loop stops without noting that it left chunks out.
SpawnQuietly ==
  /\ proc = "loop" /\ spawned < Len(ids)
  /\ IF cancelled \/ runDone
     THEN proc' = "wait" /\ UNCHANGED <<spawned, filler>>
     ELSE /\ spawned' = spawned + 1
          /\ filler' = [filler EXCEPT ![spawned + 1] = "sem"]
          /\ UNCHANGED proc
  /\ UNCHANGED <<policy, ids, owner, reply, results, cancelled, failed, runDone, asked>>

SpawnReady == proc = "loop" /\ spawned < Len(ids)

\* One turn: a run whose context is done, or that a worker cancelled, starts no
\* further worker.
Spawn ==
  /\ SpawnReady
  /\ cancelled' = (cancelled \/ runDone)
  /\ IF cancelled'
     THEN proc' = "wait" /\ UNCHANGED <<spawned, filler>>
     ELSE /\ spawned' = spawned + 1
          /\ filler' = [filler EXCEPT ![spawned + 1] = "sem"]
          /\ UNCHANGED proc
  /\ UNCHANGED <<policy, ids, owner, reply, results, failed, runDone, asked>>

AllSpawnedReady == proc = "loop" /\ spawned = Len(ids)

AllSpawned ==
  /\ AllSpawnedReady
  /\ proc' = "wait"
  /\ UNCHANGED <<policy, ids, spawned, filler, owner, reply, results, cancelled, failed,
                 runDone, asked>>

WorkersDoneReady == proc = "wait" /\ \A i \in 1 .. spawned : filler[i] = "exit"

\* wg.Wait and close(subs): nothing can be submitted any more.
WorkersDone ==
  /\ WorkersDoneReady
  /\ proc' = "drain"
  /\ UNCHANGED <<policy, ids, spawned, filler, owner, reply, results, cancelled, failed,
                 runDone, asked>>

OwnerDoneReady == proc = "drain" /\ owner = 0

\* owner.Wait: a call whose worker gave up is still waited for.
OwnerDone ==
  /\ OwnerDoneReady
  /\ proc' = "returned" /\ runDone' = TRUE
  /\ UNCHANGED <<policy, ids, spawned, filler, owner, reply, results, cancelled, failed, asked>>

\* The caller's context.
Cancel ==
  /\ proc \notin {"refused", "returned"} /\ ~asked
  /\ asked' = TRUE /\ runDone' = TRUE
  /\ UNCHANGED <<policy, ids, proc, spawned, filler, owner, reply, results, cancelled, failed>>

---------------------------------------------------------------------------
(* A worker, and the owner.                                                  *)

Permits == {i \in Workers : filler[i] \in {"send", "await", "fail"}}

AcquireReady(i) == filler[i] = "sem" /\ Cardinality(Permits) < Permitted

Acquire(i) ==
  /\ AcquireReady(i)
  /\ filler' = [filler EXCEPT ![i] = "send"]
  /\ UNCHANGED <<policy, ids, proc, spawned, owner, reply, results, cancelled, failed, runDone,
                 asked>>

\* Each of the three selects of a worker prefers nothing: when the context is
\* done it may give up although what it waits for is ready.
GiveUp(i) ==
  /\ filler[i] \in {"sem", "send", "await"} /\ runDone
  /\ filler' = [filler EXCEPT ![i] = "exit"]
  /\ results' = [results EXCEPT ![ids[i]] = "cancelled"]
  /\ UNCHANGED <<policy, ids, proc, spawned, owner, reply, cancelled, failed, runDone, asked>>

SendReady(i) == filler[i] = "send" /\ owner = 0

\* The unbuffered channel: the owner takes the chunk when it is idle.
Send(i) ==
  /\ SendReady(i)
  /\ owner' = i
  /\ filler' = [filler EXCEPT ![i] = "await"]
  /\ UNCHANGED <<policy, ids, proc, spawned, reply, results, cancelled, failed, runDone, asked>>

\* Changed: the owner waits for the worker to take its answer.
EvaluateUnbuffered == owner # 0 /\ filler[owner] = "await"

EvaluateReady == owner # 0

\* Engine.Submit returns, and its answer fits in the channel whoever waits.
Evaluate ==
  /\ EvaluateReady
  /\ \E r \in {"ok", "failed"} : reply' = [reply EXCEPT ![owner] = r]
  /\ owner' = 0
  /\ UNCHANGED <<policy, ids, proc, spawned, filler, results, cancelled, failed, runDone, asked>>

ReceiveReady(i) == filler[i] = "await" /\ reply[i] # "none"

\* The answer arrives; an error is noted under mu, and FailFast cancels the run
\* after the unlock.
Receive(i) ==
  LET bad == reply[i] = "failed" IN
  /\ ReceiveReady(i)
  /\ results' = [results EXCEPT ![ids[i]] = reply[i]]
  /\ failed' = (failed \/ bad)
  /\ cancelled' = (cancelled \/ (bad /\ policy = "FailFast"))
  /\ filler' = [filler EXCEPT ![i] = IF bad /\ policy = "FailFast" THEN "fail" ELSE "exit"]
  /\ UNCHANGED <<policy, ids, proc, spawned, owner, reply, runDone, asked>>

CancelRunReady(i) == filler[i] = "fail"

CancelRun(i) ==
  /\ CancelRunReady(i)
  /\ runDone' = TRUE
  /\ filler' = [filler EXCEPT ![i] = "exit"]
  /\ UNCHANGED <<policy, ids, proc, spawned, owner, reply, results, cancelled, failed, asked>>

---------------------------------------------------------------------------

Process == Spawn \/ AllSpawned \/ WorkersDone \/ OwnerDone
Work(i) == Acquire(i) \/ GiveUp(i) \/ Send(i) \/ Receive(i) \/ CancelRun(i)
Returned == proc \in {"refused", "returned"}

PrefillNext ==
  \/ Process \/ Evaluate \/ Cancel
  \/ \E i \in Workers : Work(i)

PrefillSpec == PrefillInit /\ [][PrefillNext]_prefillVars

---------------------------------------------------------------------------
(* Run.                                                                      *)

\* Run.Failed: the results that carry an error.
FailedChunks == {c \in DOMAIN results : results[c] \in {"failed", "cancelled"}}

\* Run.Complete.
Complete == FailedChunks = {} /\ ~cancelled

PrefillTypeOK ==
  /\ filler \in [Workers -> {"new", "sem", "send", "await", "fail", "exit"}]
  /\ owner \in {0} \cup Workers
  /\ reply \in [Workers -> {"none", "ok", "failed"}]

\* A run that calls itself complete has evaluated every chunk, although the zero
\* value of a chunk nobody submitted reads as a success (prefill.go:45-46, 85,
\* 172-186).
CompleteMeansAll ==
  proc = "returned" /\ Complete => \A c \in DOMAIN results : results[c] = "ok"

\* One failure never costs another chunk its answer under Continue
\* (prefill.go:62-64).
FailuresStayAlone ==
  proc = "returned" /\ policy = "Continue" /\ ~asked =>
    \A c \in DOMAIN results : results[c] \in {"ok", "failed"}

\* Nobody calls the engine once Process has returned, and FailFast tells
\* (prefill.go:243-244, 257-259).
QuietAfterReturn ==
  proc = "returned" => /\ owner = 0
                       /\ policy = "FailFast" /\ failed => ~Complete

\* Workers, owner and Process never all wait for each other: whatever gave up
\* or failed, a step is left until Process has returned, and one that does not need
\* the context of the run to be done (prefill.go:151-168).
NeverStuck ==
  \/ Returned
  \/ SpawnReady \/ AllSpawnedReady \/ WorkersDoneReady \/ OwnerDoneReady \/ EvaluateReady
  \/ \E i \in Workers : AcquireReady(i) \/ SendReady(i) \/ ReceiveReady(i) \/ CancelRunReady(i)

\* All of it.
ProcessPromise == CompleteMeansAll /\ FailuresStayAlone /\ QuietAfterReturn /\ NeverStuck
=============================================================================
