---------------------------- MODULE RuntimeProofs ----------------------------
(***************************************************************************)
(* What the parts under a running request keep to, for every value of      *)
(* their constants: the chunk processor, the store of sessions, the chains *)
(* of a runner.  Each has an invariant of its own, which says nothing of   *)
(* the behaviours of the other parts.                                      *)
(***************************************************************************)
EXTENDS Libraries, Induction, FiniteSetTheorems, SequenceTheorems, TLAPS

---------------------------------------------------------------------------
(* Process, its workers and the owner of the engine.                         *)

Sites == {"new", "sem", "send", "await", "fail", "exit"}

RunShape ==
  /\ policy \in {"Continue", "FailFast"}
  /\ Len(ids) \in Nat /\ ids \in [1 .. Len(ids) -> Int]
  /\ proc \in {"loop", "wait", "drain", "refused", "returned"}
  /\ spawned \in 0 .. Len(ids)
  /\ filler \in [Workers -> Sites]
  /\ owner \in {0} \cup Workers
  /\ reply \in [Workers -> {"none", "ok", "failed"}]
  /\ results \in [0 .. Len(ids) - 1 -> {"zero", "ok", "failed", "cancelled"}]
  /\ cancelled \in BOOLEAN /\ failed \in BOOLEAN /\ runDone \in BOOLEAN /\ asked \in BOOLEAN

\* Only a dense list has workers, and they are started in order.
RunStarted ==
  /\ IF proc = "refused" THEN spawned = 0 ELSE Dense(ids)
  /\ \A i \in Workers : filler[i] = "new" <=> i > spawned

\* A worker leaves with a result of its chunk and has none before.
RunSettled == \A i \in Workers :
  /\ filler[i] = "exit" => results[ids[i]] # "zero"
  /\ filler[i] = "fail" => results[ids[i]] = "failed" /\ policy = "FailFast" /\ cancelled

\* What each phase of Process has behind it.
RunPhased ==
  /\ proc \in {"wait", "drain", "returned"} /\ ~cancelled => spawned = Len(ids)
  /\ proc \in {"drain", "returned"} => \A i \in 1 .. spawned : filler[i] = "exit"
  /\ proc = "returned" => owner = 0

\* FailFast tells, and Continue cancels nothing by itself.
RunTold ==
  /\ policy = "FailFast" /\ failed => cancelled
  /\ policy = "Continue" /\ ~asked =>
       /\ ~cancelled /\ (runDone => proc = "returned")
       /\ \A c \in DOMAIN results : results[c] # "cancelled"

RunInv == RunShape /\ RunStarted /\ RunSettled /\ RunPhased /\ RunTold

---------------------------------------------------------------------------

\* Dense ids name every chunk.
LEMMA DenseCovers ==
  ASSUME RunShape, Dense(ids), NEW c \in 0 .. Len(ids) - 1
  PROVE  \E i \in Workers : ids[i] = c
<1> DEFINE n == Len(ids)
           Places == 0 .. n - 1
<1>1. n \in Nat /\ ids \in [1 .. n -> Places]
  BY DEF RunShape, Dense
<1>2. \A i, j \in 1 .. n : i # j => ids[i] # ids[j]
  <2> SUFFICES ASSUME NEW i \in 1 .. n, NEW j \in 1 .. n, i # j
               PROVE  ids[i] # ids[j]
    OBVIOUS
  <2>1. i \in 1 .. j - 1 \/ j \in 1 .. i - 1
    BY <1>1
  <2> QED
    BY <2>1 DEF Dense
<1>3. ids \in Injection(1 .. n, Places)
  BY <1>1, <1>2 DEF Injection, IsInjective
<1>4. /\ IsFiniteSet(1 .. n) /\ Cardinality(1 .. n) = n
      /\ IsFiniteSet(Places) /\ Cardinality(Places) = n
  <2>1. n - 1 \in Int
    BY <1>1
  <2> HIDE DEF n
  <2>2. /\ IsFiniteSet(1 .. n) /\ Cardinality(1 .. n) = n
        /\ IsFiniteSet(0 .. n - 1) /\ Cardinality(0 .. n - 1) = n
    BY <1>1, <2>1, FS_Interval
  <2> QED
    BY <2>2
<1> HIDE DEF n, Places
<1>5. ids \in Surjection(1 .. n, Places)
  BY <1>3, <1>4, FS_Injection
<1> QED
  BY <1>5 DEF Surjection, Workers, n, Places

\* The invariant holds at first.
LEMMA RunInvInit == PrefillInit => RunInv
<1> SUFFICES ASSUME PrefillInit PROVE RunInv
  OBVIOUS
<1>1. ids \in Seq(Int)
  BY PrefillAssumption DEF PrefillInit
<1>2. Len(ids) \in Nat /\ ids \in [1 .. Len(ids) -> Int]
  BY <1>1, LenProperties
<1>3. RunShape
  <2>1. proc \in {"loop", "refused"}
    BY DEF PrefillInit
  <2>2. /\ filler \in [Workers -> Sites] /\ reply \in [Workers -> {"none", "ok", "failed"}]
        /\ results \in [0 .. Len(ids) - 1 -> {"zero", "ok", "failed", "cancelled"}]
    BY DEF PrefillInit, Sites
  <2>3. spawned \in 0 .. Len(ids) /\ owner \in {0} \cup Workers
    BY <1>2 DEF PrefillInit
  <2>4. cancelled \in BOOLEAN /\ failed \in BOOLEAN /\ runDone \in BOOLEAN /\ asked \in BOOLEAN
    BY Zenon DEF PrefillInit
  <2>5. policy \in {"Continue", "FailFast"}
    BY DEF PrefillInit
  <2> QED
    BY <1>2, <2>1, <2>2, <2>3, <2>4, <2>5 DEF RunShape
<1>4. RunStarted
  BY <1>2 DEF PrefillInit, RunStarted, Workers
<1>5. RunSettled /\ RunPhased /\ RunTold
  BY <1>2 DEF PrefillInit, RunSettled, RunPhased, RunTold, Workers
<1> QED
  BY <1>3, <1>4, <1>5 DEF RunInv

\* A worker's id is a chunk of its own.
LEMMA OwnChunk ==
  ASSUME RunInv, NEW i \in Workers, filler[i] # "new"
  PROVE  /\ ids[i] \in DOMAIN results
         /\ \A j \in Workers : j # i => ids[j] # ids[i]
         /\ proc # "refused" /\ i <= spawned
<1>1. i <= spawned /\ spawned # 0 /\ proc # "refused" /\ Dense(ids)
  BY DEF RunInv, RunShape, RunStarted, Workers
<1>2. ids[i] \in DOMAIN results
  BY <1>1 DEF RunInv, RunShape, Dense, Workers
<1>3. ASSUME NEW j \in Workers, j # i PROVE ids[j] # ids[i]
  <2>1. i \in 1 .. j - 1 \/ j \in 1 .. i - 1
    BY <1>3 DEF RunInv, RunShape, Workers
  <2> QED
    BY <2>1, <1>1 DEF Dense, Workers
<1> QED
  BY <1>1, <1>2, <1>3

---------------------------------------------------------------------------
(* The steps.                                                                *)

\* The steps of Process itself keep it,
LEMMA RunProcess == RunInv /\ Process => RunInv'
<1> SUFFICES ASSUME RunInv, Process PROVE RunInv'
  OBVIOUS
<1> USE DEF RunInv, RunShape, Sites, RunStarted, RunSettled, RunPhased, RunTold, Workers
<1>1. CASE Spawn
  <2>1. CASE cancelled'
    BY <1>1, <2>1 DEF Spawn, SpawnReady, Dense
  <2>2. CASE ~cancelled'
    <3>1. /\ spawned + 1 \in Workers /\ spawned' = spawned + 1 /\ UNCHANGED <<proc, ids>>
          /\ filler' = [filler EXCEPT ![spawned + 1] = "sem"] /\ ~cancelled /\ ~runDone
      BY <1>1, <2>2 DEF Spawn, SpawnReady
    <3>2. RunShape' /\ RunStarted'
      BY <1>1, <3>1 DEF Spawn, SpawnReady, Dense
    <3>3. RunSettled' /\ RunPhased' /\ RunTold'
      BY <1>1, <3>1 DEF Spawn, SpawnReady
    <3> QED
      BY <3>2, <3>3
  <2> QED
    BY <2>1, <2>2
<1>2. CASE AllSpawned
  BY <1>2 DEF AllSpawned, AllSpawnedReady, Dense
<1>3. CASE WorkersDone
  BY <1>3, ZenonT(60) DEF WorkersDone, WorkersDoneReady, Dense
<1>4. CASE OwnerDone
  BY <1>4, ZenonT(60) DEF OwnerDone, OwnerDoneReady, Dense
<1> QED
  BY <1>1, <1>2, <1>3, <1>4 DEF Process

\* and those of its caller,
LEMMA RunOutside == RunInv /\ (Evaluate \/ Cancel \/ UNCHANGED prefillVars) => RunInv'
<1> SUFFICES ASSUME RunInv, Evaluate \/ Cancel \/ UNCHANGED prefillVars PROVE RunInv'
  OBVIOUS
<1> USE DEF RunInv, RunShape, Sites, RunStarted, RunSettled, RunPhased, RunTold, Workers
<1>1. CASE Evaluate
  <2>1. owner \in 1 .. Len(ids) /\ owner' = 0
    BY <1>1 DEF Evaluate, EvaluateReady
  <2>2. PICK r \in {"ok", "failed"} : reply' = [reply EXCEPT ![owner] = r]
    BY <1>1 DEF Evaluate, EvaluateReady
  <2> QED
    BY <1>1, <2>1, <2>2, ZenonT(60) DEF Evaluate, EvaluateReady, Dense
<1>2. CASE Cancel
  BY <1>2, ZenonT(60) DEF Cancel, Dense
<1>3. CASE UNCHANGED prefillVars
  BY <1>3, ZenonT(60) DEF prefillVars, Dense
<1> QED
  BY <1>1, <1>2, <1>3

\* and those of a worker,
LEMMA RunWork ==
  ASSUME RunInv, NEW i \in Workers, Work(i)
  PROVE  RunInv'
<1>0. filler[i] # "new"
  BY DEF Work, Acquire, AcquireReady, GiveUp, Send, SendReady, Receive, ReceiveReady, CancelRun, CancelRunReady
<1>1. /\ ids[i] \in DOMAIN results
      /\ \A j \in Workers : j # i => ids[j] # ids[i]
      /\ proc # "refused" /\ i <= spawned
  BY <1>0, OwnChunk
<1>2. i \in 1 .. spawned
  BY <1>1 DEF RunInv, RunShape, Workers
<1>3. CASE Acquire(i)
  BY <1>1, <1>2, <1>3, ZenonT(60)
  DEF Acquire, AcquireReady, RunInv, RunShape, Sites, RunStarted, RunSettled, RunPhased, RunTold, Workers, Dense
<1>4. CASE GiveUp(i)
  BY <1>1, <1>2, <1>4, ZenonT(60)
  DEF GiveUp, RunInv, RunShape, Sites, RunStarted, RunSettled, RunPhased, RunTold, Workers, Dense
<1>5. CASE Send(i)
  BY <1>1, <1>2, <1>5, ZenonT(60)
  DEF Send, SendReady, RunInv, RunShape, Sites, RunStarted, RunSettled, RunPhased, RunTold, Workers, Dense
<1>6. CASE Receive(i)
  <2>1. reply[i] \in {"ok", "failed"}
    BY <1>6 DEF Receive, ReceiveReady, RunInv, RunShape
  <2> QED
    BY <1>1, <1>2, <1>6, <2>1, ZenonT(60)
    DEF Receive, ReceiveReady, RunInv, RunShape, Sites, RunStarted, RunSettled, RunPhased, RunTold, Workers, Dense
<1>7. CASE CancelRun(i)
  BY <1>1, <1>2, <1>7, ZenonT(60)
  DEF CancelRun, CancelRunReady, RunInv, RunShape, Sites, RunStarted, RunSettled, RunPhased, RunTold, Workers, Dense
<1> QED
  BY <1>3, <1>4, <1>5, <1>6, <1>7 DEF Work

\* so every step does.
LEMMA RunInvNext == RunInv /\ [PrefillNext]_prefillVars => RunInv'
  BY RunProcess, RunOutside, RunWork DEF PrefillNext

---------------------------------------------------------------------------

\* What a run says of itself is true, whoever failed, gave up or was cancelled
\* (prefill.go:45-46, 62-64, 172-186, 243-259).
LEMMA RunInvSafe == RunInv => CompleteMeansAll /\ FailuresStayAlone /\ QuietAfterReturn
<1> SUFFICES ASSUME RunInv PROVE CompleteMeansAll /\ FailuresStayAlone /\ QuietAfterReturn
  OBVIOUS
<1>1. ASSUME proc = "returned", ~cancelled, NEW c \in DOMAIN results
      PROVE  results[c] # "zero"
  <2>1. PICK i \in Workers : ids[i] = c
    BY <1>1, DenseCovers DEF RunInv, RunShape, RunStarted
  <2>2. filler[i] = "exit"
    BY <1>1 DEF RunInv, RunShape, RunPhased, Workers
  <2> QED
    BY <2>1, <2>2 DEF RunInv, RunSettled
<1>2. CompleteMeansAll
  BY <1>1 DEF CompleteMeansAll, Complete, FailedChunks, RunInv, RunShape
<1>3. FailuresStayAlone
  BY <1>1 DEF FailuresStayAlone, RunInv, RunShape, RunTold
<1>4. QuietAfterReturn
  BY DEF QuietAfterReturn, Complete, RunInv, RunPhased, RunTold
<1> QED
  BY <1>2, <1>3, <1>4

\* A worker that waits for an answer has it, or the owner is at its chunk.
RunAnswered == \A i \in Workers : filler[i] = "await" /\ reply[i] = "none" => owner = i

LEMMA RunAnsweredNext ==
  ASSUME RunInv, RunAnswered, [PrefillNext]_prefillVars
  PROVE  RunAnswered'
<1> USE DEF RunInv, RunShape, RunAnswered, Workers
<1>1. CASE Process
  <2>1. CASE Spawn
    BY <2>1 DEF Spawn, SpawnReady
  <2>2. CASE AllSpawned \/ WorkersDone \/ OwnerDone
    BY <2>2 DEF AllSpawned, WorkersDone, OwnerDone
  <2> QED
    BY <1>1, <2>1, <2>2 DEF Process
<1>2. CASE Evaluate
  <2>1. PICK r \in {"ok", "failed"} : reply' = [reply EXCEPT ![owner] = r]
    BY <1>2 DEF Evaluate
  <2>2. owner \in Workers /\ UNCHANGED <<ids, filler>>
    BY <1>2 DEF Evaluate, EvaluateReady
  <2>3. reply'[owner] # "none" /\ \A i \in Workers : i # owner => reply'[i] = reply[i]
    BY <2>1, <2>2
  <2> QED
    BY <2>2, <2>3
<1>3. CASE Cancel \/ UNCHANGED prefillVars
  BY <1>3 DEF Cancel, prefillVars
<1>4. ASSUME NEW i \in Workers, Work(i) PROVE RunAnswered'
  <2>1. CASE Send(i)
    BY <2>1 DEF Send, SendReady
  <2>2. CASE Acquire(i) \/ GiveUp(i) \/ CancelRun(i)
    BY <2>2 DEF Acquire, GiveUp, CancelRun
  <2>3. CASE Receive(i)
    BY <2>3 DEF Receive
  <2> QED
    BY <1>4, <2>1, <2>2, <2>3 DEF Work
<1> QED
  BY <1>1, <1>2, <1>3, <1>4 DEF PrefillNext

\* Who waits for the semaphore waits for somebody who holds a permit, who that is waits
\* for the owner, and the owner waits for nobody.
LEMMA RunGoesOn == RunInv /\ RunAnswered => NeverStuck
<1> SUFFICES ASSUME RunInv, RunAnswered, ~Returned PROVE NeverStuck
  BY DEF NeverStuck
<1>1. /\ proc \in {"loop", "wait", "drain"} /\ spawned \in 0 .. Len(ids) /\ Len(ids) \in Nat
      /\ owner \in {0} \cup Workers /\ filler \in [Workers -> Sites]
  BY DEF RunInv, RunShape, Returned
<1>2. CASE owner # 0
  BY <1>2 DEF NeverStuck, EvaluateReady
<1>3. ASSUME owner = 0, NEW i \in Permits PROVE NeverStuck
  <2>1. i \in Workers /\ filler[i] \in {"send", "await", "fail"}
    BY <1>3 DEF Permits
  <2>2. filler[i] = "await" => reply[i] # "none"
    BY <1>3, <2>1 DEF RunAnswered, Workers
  <2>3. SendReady(i) \/ ReceiveReady(i) \/ CancelRunReady(i)
    BY <1>3, <2>1, <2>2 DEF SendReady, ReceiveReady, CancelRunReady
  <2> QED
    BY <2>1, <2>3 DEF NeverStuck
<1>4. CASE owner = 0 /\ Permits = {}
  <2>1. CASE proc = "loop"
    BY <1>1, <2>1 DEF NeverStuck, SpawnReady, AllSpawnedReady
  <2>2. CASE proc = "drain"
    BY <1>4, <2>2 DEF NeverStuck, OwnerDoneReady
  <2>3. CASE proc = "wait"
    <3>1. CASE \A i \in 1 .. spawned : filler[i] = "exit"
      BY <2>3, <3>1 DEF NeverStuck, WorkersDoneReady
    <3>2. ASSUME NEW i \in 1 .. spawned, filler[i] # "exit" PROVE NeverStuck
      <4>1. i \in Workers /\ filler[i] # "new" /\ i \notin Permits
        BY <1>1, <1>4 DEF Workers, RunInv, RunStarted
      <4>2. filler[i] = "sem"
        BY <1>1, <3>2, <4>1 DEF Permits, Sites
      <4>3. Cardinality(Permits) < Permitted
        BY <1>4, FS_EmptySet, PrefillAssumption
      <4>4. AcquireReady(i)
        BY <4>2, <4>3 DEF AcquireReady
      <4> QED
        BY <4>1, <4>4 DEF NeverStuck
    <3> QED
      BY <3>1, <3>2
  <2> QED
    BY <1>1, <2>1, <2>2, <2>3
<1> QED
  BY <1>2, <1>3, <1>4

\* A behaviour is one of its part.
LEMMA PrefillPart ==
  ASSUME [Next]_vars
  PROVE  part' = part /\ (part = "prefill" => [PrefillNext]_prefillVars)
  BY DEF Next, vars

\* Whatever the chunks, the policy and the permits, and whoever fails or gives up: a run
\* that calls itself complete has evaluated every chunk, Continue keeps failures apart,
\* nobody calls the engine once Process has returned, and until then a step is left
\* (prefill.go:45-46, 62-64, 151-186, 243-259).
THEOREM HonestRun == Spec => []PrefillPromise
<1> DEFINE I == part = "prefill" => RunInv /\ RunAnswered
<1>1. Init => I
  <2> SUFFICES ASSUME Init, part = "prefill" PROVE RunInv /\ RunAnswered
    OBVIOUS
  <2>1. PrefillInit
    BY DEF Init
  <2>2. RunAnswered
    BY <2>1 DEF PrefillInit, RunAnswered
  <2> QED
    BY <2>1, <2>2, RunInvInit
<1>2. I /\ [Next]_vars => I'
  BY PrefillPart, RunInvNext, RunAnsweredNext
<1>3. I => PrefillPromise
  BY RunInvSafe, RunGoesOn DEF PrefillPromise, ProcessPromise
<1> QED
  BY <1>1, <1>2, <1>3, PTL DEF Spec

---------------------------------------------------------------------------
(* The store of sessions.                                                    *)

Session == [order : Seq(Keys), touched : Nat]

StoreTypes ==
  /\ now \in 0 .. MaxTime /\ evicted \in Nat
  /\ sessions \in [DOMAIN sessions -> Session]
  /\ DOMAIN sessions \subseteq Ids /\ IsFiniteSet(DOMAIN sessions)
  /\ held \in [Ids -> Seq(Keys)] /\ touched \in [Ids -> Nat]

\* What is there is what its caller put there and when it last asked.
StoreAgreed ==
  \A i \in DOMAIN sessions :
    /\ sessions[i].order = held[i] /\ sessions[i].touched = touched[i]
    /\ touched[i] <= now /\ Len(held[i]) <= MaxEntries

StoreLost ==
  {i \in Ids : held[i] # <<>> /\ touched[i] >= now - TTL /\ i \notin DOMAIN sessions}

LossCounted == IsFiniteSet(StoreLost) /\ Cardinality(StoreLost) <= evicted

StoreInv ==
  /\ StoreTypes /\ StoreAgreed /\ LossCounted
  /\ Cardinality(DOMAIN sessions) <= MaxSessions + 1

\* One step of EvictsOldest.
OldestFirst ==
  \A d \in DOMAIN sessions \ DOMAIN sessions' :
    \/ Expired(d) \/ held'[d] = <<>>
    \/ \A k \in DOMAIN sessions \cap DOMAIN sessions' :
         sessions'[k].touched = now \/ Touched(d) <= Touched(k)

\* A sweep leaves what it does not drop as it was, keeps to the cap, drops the
\* oldest and counts them.
LEMMA SweepFacts ==
  ASSUME StoreTypes, NEW gone, NEW store \in Swept(gone), Sweep(gone, store)
  PROVE  /\ store \in [DOMAIN store -> Session] /\ DOMAIN store \subseteq Live \ gone
         /\ \A j \in DOMAIN store : store[j] = sessions[j]
         /\ IsFiniteSet(DOMAIN store) /\ Cardinality(DOMAIN store) <= MaxSessions
         /\ \A d \in (Live \ gone) \ DOMAIN store, k \in DOMAIN store : Touched(d) <= Touched(k)
         /\ IsFiniteSet((Live \ gone) \ DOMAIN store)
         /\ evicted' = evicted + Cardinality((Live \ gone) \ DOMAIN store)
<1> DEFINE live == Live \ gone
<1>1. PICK drop \in OverCap(live) : store = Restrict(sessions, live \ drop)
  BY DEF Swept
<1>2. DOMAIN store = live \ drop /\ \A j \in live \ drop : store[j] = sessions[j]
  BY <1>1 DEF Restrict
<1>3. /\ drop \in SUBSET live
      /\ Cardinality(live \ drop) = Min({MaxSessions, Cardinality(live)})
      /\ \A d \in drop, k \in live \ drop : Touched(d) <= Touched(k)
  BY DEF OverCap
<1>4. live \subseteq DOMAIN sessions /\ IsFiniteSet(live)
  <2>1. live \subseteq DOMAIN sessions
    BY DEF Live
  <2> QED
    BY <2>1, FS_Subset DEF StoreTypes
<1>5. /\ IsFiniteSet(drop) /\ IsFiniteSet(live \ drop)
      /\ Cardinality(live) \in Nat /\ Cardinality(drop) \in Nat /\ Cardinality(live \ drop) \in Nat
  BY <1>3, <1>4, FS_Subset, FS_CardinalityType
<1>6. Cardinality(live \ drop) <= MaxSessions
  <2>1. MaxSessions \in Int /\ Cardinality(live) \in Int
    BY <1>5, StoreAssumption
  <2>2. Min({MaxSessions, Cardinality(live)}) <= MaxSessions
    BY <2>1, MinOfTwo
  <2> QED
    BY <1>3, <2>2
<1>7. live \ DOMAIN store = drop /\ live \cap drop = drop
  BY <1>2, <1>3
<1>8. Cardinality(live \ drop) = Cardinality(live) - Cardinality(drop)
  <2>1. IsFiniteSet(live)
    BY <1>4
  <2> HIDE DEF live
  <2>2. Cardinality(live \ drop) = Cardinality(live) - Cardinality(live \cap drop)
    BY <2>1, FS_Difference
  <2> QED
    BY <1>7, <2>2
<1>9. evicted' = evicted + Cardinality(drop)
  BY <1>2, <1>5, <1>8 DEF Sweep, StoreTypes
<1>10. store \in [DOMAIN store -> Session]
  <2>1. store = [j \in live \ drop |-> sessions[j]]
    BY <1>1 DEF Restrict
  <2>2. \A j \in live \ drop : sessions[j] \in Session
    BY <1>4 DEF StoreTypes
  <2> QED
    BY <2>1, <2>2
<1> QED
  BY <1>2, <1>3, <1>5, <1>6, <1>7, <1>9, <1>10

\* An operation that sweeps loses sessions to the cap only, and counts them; what
\* it drops is older than what it keeps.
LEMMA StoreOperation ==
  ASSUME StoreInv, NEW gone, NEW store \in Swept(gone), Sweep(gone, store), now' = now,
         DOMAIN store \subseteq DOMAIN sessions',
         \A i \in Ids \ DOMAIN sessions' :
           touched'[i] = touched[i] /\ held'[i] = IF i \in gone THEN <<>> ELSE held[i],
         \A k \in DOMAIN sessions' \ DOMAIN store : sessions'[k].touched = now
  PROVE  LossCounted' /\ OldestFirst /\ evicted' \in Nat
<1> USE DEF StoreInv
<1> DEFINE drop == (Live \ gone) \ DOMAIN store
<1>1. /\ IsFiniteSet(drop) /\ evicted' = evicted + Cardinality(drop)
      /\ \A d \in drop, k \in DOMAIN store : Touched(d) <= Touched(k)
  BY SweepFacts
<1>2. StoreLost' \subseteq StoreLost \cup drop
  <2> SUFFICES ASSUME NEW i \in StoreLost' PROVE i \in StoreLost \cup drop
    OBVIOUS
  <2>1. /\ i \in Ids /\ i \notin DOMAIN sessions' /\ i \notin gone /\ i \notin DOMAIN store
        /\ held[i] # <<>> /\ touched[i] >= now - TTL
    BY DEF StoreLost
  <2>2. CASE i \notin DOMAIN sessions
    BY <2>1, <2>2 DEF StoreLost
  <2>3. CASE i \in DOMAIN sessions
    <3>1. sessions[i].touched = touched[i] /\ touched[i] \in Nat /\ now \in Nat
      BY <2>1, <2>3 DEF StoreAgreed, StoreTypes
    <3>2. ~Expired(i)
      BY <2>1, <3>1, StoreAssumption DEF Expired
    <3> QED
      BY <2>1, <2>3, <3>2 DEF Live
  <2> QED
    BY <2>2, <2>3
<1>3. /\ IsFiniteSet(StoreLost) /\ Cardinality(StoreLost) <= evicted
      /\ Cardinality(StoreLost) \in Nat /\ Cardinality(drop) \in Nat /\ evicted \in Nat
  BY <1>1, FS_CardinalityType DEF LossCounted, StoreTypes
<1>4. /\ IsFiniteSet(StoreLost \cup drop)
      /\ Cardinality(StoreLost \cup drop) <= Cardinality(StoreLost) + Cardinality(drop)
  <2>1. IsFiniteSet(StoreLost \cap drop) /\ Cardinality(StoreLost \cap drop) \in Nat
    BY <1>3, FS_Intersection, FS_CardinalityType
  <2>2. /\ IsFiniteSet(StoreLost \cup drop)
        /\ Cardinality(StoreLost \cup drop)
             = Cardinality(StoreLost) + Cardinality(drop) - Cardinality(StoreLost \cap drop)
    <3> HIDE DEF drop
    <3> QED
      BY <1>1, <1>3, FS_Union
  <2> HIDE DEF drop
  <2> QED
    BY <1>3, <2>1, <2>2
<1>5. /\ IsFiniteSet(StoreLost') /\ Cardinality(StoreLost') <= Cardinality(StoreLost \cup drop)
      /\ Cardinality(StoreLost') \in Nat /\ Cardinality(StoreLost \cup drop) \in Nat
  BY <1>2, <1>4, FS_Subset, FS_CardinalityType
<1>6. LossCounted' /\ evicted' \in Nat
  BY <1>1, <1>3, <1>4, <1>5 DEF LossCounted
<1>7. OldestFirst
  <2> SUFFICES ASSUME NEW d \in DOMAIN sessions \ DOMAIN sessions', ~Expired(d), held'[d] # <<>>,
                      NEW k \in DOMAIN sessions \cap DOMAIN sessions', sessions'[k].touched # now
               PROVE  Touched(d) <= Touched(k)
    BY DEF OldestFirst
  <2>1. d \in Ids /\ d \notin gone /\ d \in Live /\ d \notin DOMAIN store
    BY DEF StoreTypes, Live
  <2>2. k \in DOMAIN store
    OBVIOUS
  <2> QED
    BY <1>1, <2>1, <2>2
<1> QED
  BY <1>6, <1>7

---------------------------------------------------------------------------

LEMMA StoreInvInit == StoreInit => StoreInv
<1> SUFFICES ASSUME StoreInit PROVE StoreInv
  OBVIOUS
<1>1. DOMAIN sessions = {} /\ IsFiniteSet({}) /\ Cardinality({}) = 0
  BY FS_EmptySet DEF StoreInit
<1>2. sessions \in [DOMAIN sessions -> Session]
  BY DEF StoreInit
<1>3. StoreTypes /\ StoreAgreed
  BY <1>1, <1>2, StoreAssumption DEF StoreTypes, StoreAgreed, StoreInit
<1>4. StoreLost = {}
  BY DEF StoreLost, StoreInit
<1>5. LossCounted
  BY <1>1, <1>4 DEF LossCounted, StoreInit
<1> QED
  BY <1>1, <1>3, <1>5, StoreAssumption DEF StoreInv

LEMMA StoreTick ==
  ASSUME StoreInv, Tick
  PROVE  StoreInv' /\ OldestFirst
<1> USE DEF StoreInv
<1>1. now' = now + 1 /\ now' \in 0 .. MaxTime /\ UNCHANGED <<sessions, evicted, held, touched>>
  BY StoreAssumption DEF Tick, StoreTypes
<1>2. StoreTypes' /\ StoreAgreed'
  BY <1>1 DEF StoreTypes, StoreAgreed
<1>3. StoreLost' \subseteq StoreLost
  BY <1>1, StoreAssumption DEF StoreLost, StoreTypes
<1>4. LossCounted'
  <2>1. /\ IsFiniteSet(StoreLost') /\ Cardinality(StoreLost') <= Cardinality(StoreLost)
        /\ Cardinality(StoreLost') \in Nat /\ Cardinality(StoreLost) \in Nat
    BY <1>3, FS_Subset, FS_CardinalityType DEF LossCounted
  <2> QED
    BY <1>1, <2>1 DEF LossCounted, StoreTypes
<1>5. OldestFirst
  BY <1>1 DEF OldestFirst
<1> QED
  BY <1>1, <1>2, <1>4, <1>5

\* A store in which the sessions of hit are touched.
StoreTouch(store, hit) ==
  [j \in DOMAIN store |-> IF j \in hit THEN [store[j] EXCEPT !.touched = now] ELSE store[j]]

\* Get, All, Close and Sessions write no session but to touch it.
LEMMA StoreReading ==
  ASSUME StoreInv, NEW gone, NEW store \in Swept(gone), Sweep(gone, store), now' = now,
         NEW hit, hit \subseteq DOMAIN store, sessions' = StoreTouch(store, hit),
         touched' = [j \in Ids |-> IF j \in hit THEN now ELSE touched[j]],
         held' = [j \in Ids |-> IF j \in gone THEN <<>> ELSE held[j]]
  PROVE  StoreInv' /\ OldestFirst
<1> USE DEF StoreInv
<1>1. /\ store \in [DOMAIN store -> Session] /\ DOMAIN store \subseteq DOMAIN sessions
      /\ DOMAIN store \cap gone = {} /\ DOMAIN sessions \subseteq Ids
      /\ \A j \in DOMAIN store : store[j] = sessions[j]
      /\ IsFiniteSet(DOMAIN store) /\ Cardinality(DOMAIN store) <= MaxSessions
  BY SweepFacts DEF Live, StoreTypes
<1>2. now \in Nat /\ now \in 0 .. MaxTime
  BY StoreAssumption DEF StoreTypes
<1>3. /\ DOMAIN sessions' = DOMAIN store /\ sessions' \in [DOMAIN store -> Session]
      /\ \A j \in DOMAIN store :
           /\ sessions'[j].order = sessions[j].order
           /\ sessions'[j].touched = IF j \in hit THEN now ELSE sessions[j].touched
  <2>1. \A j \in DOMAIN store :
          /\ store[j] \in Session /\ [store[j] EXCEPT !.touched = now] \in Session
          /\ [store[j] EXCEPT !.touched = now].order = sessions[j].order
          /\ [store[j] EXCEPT !.touched = now].touched = now
    BY <1>1, <1>2 DEF Session
  <2> QED
    BY <1>1, <2>1 DEF StoreTouch
<1>4. /\ touched' \in [Ids -> Nat] /\ held' \in [Ids -> Seq(Keys)]
      /\ \A j \in Ids : held'[j] = IF j \in gone THEN <<>> ELSE held[j]
      /\ \A j \in Ids : touched'[j] = IF j \in hit THEN now ELSE touched[j]
  BY <1>2 DEF StoreTypes
<1>5. LossCounted' /\ OldestFirst /\ evicted' \in Nat
  <2>1. \A j \in Ids \ DOMAIN sessions' :
          touched'[j] = touched[j] /\ held'[j] = IF j \in gone THEN <<>> ELSE held[j]
    BY <1>3, <1>4
  <2> QED
    BY <1>3, <2>1, StoreOperation
<1>6. StoreTypes'
  BY <1>1, <1>2, <1>3, <1>4, <1>5 DEF StoreTypes
<1>7. StoreAgreed'
  <2> SUFFICES ASSUME NEW j \in DOMAIN store
               PROVE  /\ sessions'[j].order = held'[j] /\ sessions'[j].touched = touched'[j]
                      /\ touched'[j] <= now' /\ Len(held'[j]) <= MaxEntries
    BY <1>3 DEF StoreAgreed
  <2>1. /\ sessions[j].order = held[j] /\ sessions[j].touched = touched[j]
        /\ touched[j] <= now /\ Len(held[j]) <= MaxEntries /\ j \in Ids /\ j \notin gone
    BY <1>1 DEF StoreAgreed
  <2> QED
    BY <1>2, <1>3, <1>4, <2>1
<1>8. Cardinality(DOMAIN sessions') <= MaxSessions + 1
  BY <1>1, <1>3, FS_CardinalityType, StoreAssumption
<1> QED
  BY <1>5, <1>6, <1>7, <1>8

\* The sessions are as a sweep left them.
LEMMA StoreUntouched ==
  ASSUME StoreInv, NEW gone, NEW store \in Swept(gone), Sweep(gone, store), now' = now,
         sessions' = store, touched' = touched,
         held' = [j \in Ids |-> IF j \in gone THEN <<>> ELSE held[j]]
  PROVE  StoreInv' /\ OldestFirst
<1>1. store = [j \in DOMAIN store |-> store[j]]
  BY SweepFacts DEF StoreInv
<1>2. StoreTouch(store, {}) = store
  BY <1>1 DEF StoreTouch
<1>3. touched' = [j \in Ids |-> IF j \in {} THEN now ELSE touched[j]]
  BY DEF StoreInv, StoreTypes
<1> QED
  BY <1>2, <1>3, StoreReading

\* One of them is touched.
LEMMA StoreTouchedOne ==
  ASSUME StoreInv, NEW store \in Swept({}), Sweep({}, store), now' = now,
         NEW i \in DOMAIN store, sessions' = [store EXCEPT ![i].touched = now],
         touched' = [touched EXCEPT ![i] = now], held' = held
  PROVE  StoreInv' /\ OldestFirst
<1>1. store = [j \in DOMAIN store |-> store[j]]
  BY SweepFacts DEF StoreInv
<1>2. StoreTouch(store, {i}) = [store EXCEPT ![i].touched = now]
  <2>1. [store EXCEPT ![i].touched = now]
          = [j \in DOMAIN store |-> IF j = i THEN [store[i] EXCEPT !.touched = now] ELSE store[j]]
    BY <1>1
  <2>2. StoreTouch(store, {i})
          = [j \in DOMAIN store |-> IF j = i THEN [store[i] EXCEPT !.touched = now] ELSE store[j]]
    BY DEF StoreTouch
  <2> QED
    BY <2>1, <2>2
<1>3. touched' = [j \in Ids |-> IF j \in {i} THEN now ELSE touched[j]]
  BY DEF StoreInv, StoreTypes
<1>4. {i} \subseteq DOMAIN store /\ sessions' = StoreTouch(store, {i})
  BY <1>2
<1>5. PICK gone : gone = {}
  OBVIOUS
<1>6. store \in Swept(gone) /\ Sweep(gone, store)
  BY <1>5
<1>7. held' = [j \in Ids |-> IF j \in gone THEN <<>> ELSE held[j]]
  BY <1>5 DEF StoreInv, StoreTypes
<1> QED
  BY <1>3, <1>4, <1>6, <1>7, StoreReading

LEMMA StoreReads ==
  ASSUME StoreInv,
         \/ Sessions
         \/ \E i \in Ids : All(i) \/ CloseSession(i)
         \/ \E i \in Ids, key \in Keys : Get(i, key)
  PROVE  StoreInv' /\ OldestFirst
<1>0. held = [j \in Ids |-> IF j \in {} THEN <<>> ELSE held[j]]
  BY DEF StoreInv, StoreTypes
<1>1. CASE Sessions
  BY <1>0, <1>1, StoreUntouched DEF Sessions
<1>2. ASSUME NEW i \in Ids, All(i) PROVE StoreInv' /\ OldestFirst
  <2>1. PICK store \in Swept({}) :
          /\ Sweep({}, store)
          /\ sessions' = IF i \in DOMAIN store THEN [store EXCEPT ![i].touched = now] ELSE store
    BY <1>2 DEF All
  <2>2. DOMAIN sessions' = DOMAIN store
    BY <2>1
  <2>3. /\ touched' = IF i \in DOMAIN store THEN [touched EXCEPT ![i] = now] ELSE touched
        /\ now' = now /\ held' = held
    BY <1>2, <2>2 DEF All
  <2>4. CASE i \in DOMAIN store
    BY <2>1, <2>3, <2>4, StoreTouchedOne
  <2>5. CASE i \notin DOMAIN store
    BY <1>0, <2>1, <2>3, <2>5, StoreUntouched
  <2> QED
    BY <2>4, <2>5
<1>3. ASSUME NEW i \in Ids, NEW key \in Keys, Get(i, key) PROVE StoreInv' /\ OldestFirst
  <2> DEFINE found(s) == i \in DOMAIN s /\ key \in ToSet(s[i].order)
  <2>1. PICK store \in Swept({}) :
          /\ Sweep({}, store)
          /\ sessions' = IF found(store) THEN [store EXCEPT ![i].touched = now] ELSE store
    BY <1>3 DEF Get
  <2>2. /\ DOMAIN sessions' = DOMAIN store
        /\ i \in DOMAIN store => sessions'[i].order = store[i].order
    <3>1. store \in [DOMAIN store -> Session]
      BY <2>1, SweepFacts DEF StoreInv
    <3> HIDE DEF found
    <3> QED
      BY <2>1, <3>1 DEF Session
  <2>3. found(sessions') <=> found(store)
    BY <2>2
  <2>4. touched' = IF found(sessions') THEN [touched EXCEPT ![i] = now] ELSE touched
    BY <1>3 DEF Get
  <2>5. now' = now /\ held' = held
    BY <1>3 DEF Get
  <2>6. CASE found(store)
    <3>1. i \in DOMAIN store
      BY <2>6
    <3>2. sessions' = [store EXCEPT ![i].touched = now] /\ touched' = [touched EXCEPT ![i] = now]
      BY <2>1, <2>3, <2>4, <2>6
    <3> QED
      BY <2>1, <2>5, <3>1, <3>2, StoreTouchedOne
  <2>7. CASE ~found(store)
    <3>1. sessions' = store /\ touched' = touched
      BY <2>1, <2>3, <2>4, <2>7
    <3> QED
      BY <1>0, <2>1, <2>5, <3>1, StoreUntouched
  <2> QED
    BY <2>6, <2>7
<1>4. ASSUME NEW i \in Ids, CloseSession(i) PROVE StoreInv' /\ OldestFirst
  <2>1. PICK store \in Swept({i}) : Sweep({i}, store) /\ sessions' = store
    BY <1>4 DEF CloseSession
  <2>2. held' = [j \in Ids |-> IF j \in {i} THEN <<>> ELSE held[j]] /\ now' = now /\ touched' = touched
    BY <1>4 DEF CloseSession, StoreInv, StoreTypes
  <2> QED
    BY <2>1, <2>2, StoreUntouched
<1> QED
  BY <1>1, <1>2, <1>3, <1>4

\* A call that puts a key into a session.
LEMMA StorePut ==
  ASSUME StoreInv, NEW i \in Ids, NEW key \in Keys, Put(i, key)
  PROVE  StoreInv' /\ OldestFirst
<1> USE DEF StoreInv
<1>1. PICK store \in Swept({}) : Sweep({}, store) /\ sessions' = PutInto(store, i, key)
  BY DEF Put
<1>2. now' = now /\ now \in Nat /\ now \in 0 .. MaxTime
  BY StoreAssumption DEF Put, StoreTypes
<1>3. /\ store \in [DOMAIN store -> Session] /\ DOMAIN store \subseteq DOMAIN sessions
      /\ \A j \in DOMAIN store : store[j] = sessions[j] /\ ~Expired(j)
      /\ IsFiniteSet(DOMAIN store) /\ Cardinality(DOMAIN store) <= MaxSessions
      /\ \A j \in DOMAIN store :
           /\ j \in Ids /\ sessions[j].order = held[j] /\ sessions[j].touched = touched[j]
           /\ touched[j] <= now /\ Len(held[j]) <= MaxEntries
  BY <1>1, SweepFacts DEF Live, StoreTypes, StoreAgreed
<1> DEFINE s == IF i \in DOMAIN store THEN store[i] ELSE Empty
           new == IF Full(s, key) THEN s
                  ELSE [order |-> IF key \in ToSet(s.order) THEN s.order ELSE Append(s.order, key),
                        touched |-> now]
<1>4. s \in Session /\ s.order \in Seq(Keys) /\ s.touched \in Nat /\ Len(s.order) <= MaxEntries
      /\ (i \notin DOMAIN store => s.order = <<>>)
      /\ (i \in DOMAIN store => s.order = held[i] /\ s.touched = touched[i])
  <2>1. CASE i \in DOMAIN store
    <3>1. s = store[i]
      BY <2>1
    <3> HIDE DEF s
    <3> QED
      BY <1>3, <2>1, <3>1 DEF Session
  <2>2. CASE i \notin DOMAIN store
    BY <2>2, StoreAssumption DEF Empty, Session
  <2> QED
    BY <2>1, <2>2
<1>5. sessions' = [j \in DOMAIN store \cup {i} |-> IF j = i THEN new ELSE store[j]]
  BY <1>1 DEF PutInto, With
<1>6. sessions'[i] = new /\ DOMAIN sessions' = DOMAIN store \cup {i}
      /\ \A j \in DOMAIN store : j # i => sessions'[j] = store[j]
  BY <1>5
<1> HIDE DEF s
<1>7. CASE Full(s, key)
  <2>1. i \in DOMAIN store /\ new = s /\ key \notin ToSet(s.order)
    BY <1>4, <1>7, StoreAssumption DEF Full
  <2>2. UNCHANGED <<held, touched>>
    <3>1. key \notin ToSet(sessions'[i].order)
      BY <1>6, <2>1
    <3> QED
      BY <3>1 DEF Put
  <2>3. sessions' = store
    <3>1. store = [j \in DOMAIN store |-> store[j]] /\ new = store[i]
      BY <1>3, <2>1 DEF s
    <3> HIDE DEF new
    <3> QED
      BY <1>5, <2>1, <3>1
  <2>4. held' = [j \in Ids |-> IF j \in {} THEN <<>> ELSE held[j]]
    BY <2>2 DEF StoreTypes
  <2> QED
    BY <1>1, <1>2, <2>2, <2>3, <2>4, StoreUntouched
<1>8. CASE ~Full(s, key)
  <2> DEFINE order == IF key \in ToSet(s.order) THEN s.order ELSE Append(s.order, key)
  <2>1. /\ new = [order |-> order, touched |-> now]
        /\ new.order = order /\ new.touched = now
    BY <1>8
  <2>2. order \in Seq(Keys) /\ Len(order) <= MaxEntries
    BY <1>4, <1>8, StoreAssumption DEF Full
  <2>3. key \in ToSet(order)
    <3>1. CASE key \in ToSet(s.order)
      BY <3>1
    <3>2. CASE key \notin ToSet(s.order)
      <4>1. order = Append(s.order, key)
        BY <3>2
      <4>2. Len(s.order) + 1 \in DOMAIN order /\ order[Len(s.order) + 1] = key
        BY <1>4, <4>1
      <4> QED
        BY <4>2 DEF ToSet
    <3> QED
      BY <3>1, <3>2
  <2>4. new \in Session
    BY <1>2, <2>1, <2>2 DEF Session
  <2> DEFINE kept == i \in DOMAIN sessions /\ ~Expired(i) /\ sessions'[i].order # <<key>>
             before == IF kept THEN held[i] ELSE <<>>
  <2>5. /\ held' = [held EXCEPT ![i] = IF key \in ToSet(before) THEN before
                                       ELSE Append(before, key)]
        /\ touched' = [touched EXCEPT ![i] = now]
    BY <1>6, <2>1, <2>3 DEF Put
  <2>6. (IF key \in ToSet(before) THEN before ELSE Append(before, key)) = order
    <3>0. sessions'[i].order = order /\ ToSet(<<>>) = {} /\ Append(<<>>, key) = <<key>>
      BY <1>6, <2>1 DEF ToSet
    <3>1. CASE i \in DOMAIN store
      <4>1. i \in DOMAIN sessions /\ ~Expired(i) /\ s.order = held[i]
        BY <1>3, <1>4, <3>1
      <4>2. CASE order # <<key>>
        BY <3>0, <4>1, <4>2
      <4>3. CASE order = <<key>>
        <5>1. before = <<>>
          BY <3>0, <4>3
        <5> QED
          BY <3>0, <4>3, <5>1
      <4> QED
        BY <4>2, <4>3
    <3>2. CASE i \notin DOMAIN store
      <4>1. s.order = <<>>
        BY <1>4, <3>2
      <4>2. order = <<key>>
        BY <3>0, <4>1
      <4>3. before = <<>>
        BY <3>0, <4>2
      <4> QED
        BY <3>0, <4>2, <4>3
    <3> QED
      BY <3>1, <3>2
  <2> HIDE DEF order, new, before
  <2>7. /\ held' \in [Ids -> Seq(Keys)] /\ held'[i] = order
        /\ \A j \in Ids : j # i => held'[j] = held[j]
        /\ touched' \in [Ids -> Nat] /\ touched'[i] = now
        /\ \A j \in Ids : j # i => touched'[j] = touched[j]
    BY <1>2, <2>2, <2>5, <2>6 DEF StoreTypes
  <2>8. LossCounted' /\ OldestFirst /\ evicted' \in Nat
    <3>1. \A j \in Ids \ DOMAIN sessions' :
            touched'[j] = touched[j] /\ held'[j] = IF j \in {} THEN <<>> ELSE held[j]
      BY <1>6, <2>7
    <3>2. \A k \in DOMAIN sessions' \ DOMAIN store : sessions'[k].touched = now
      BY <1>6, <2>1
    <3>3. DOMAIN store \subseteq DOMAIN sessions'
      BY <1>6
    <3> QED
      BY <1>1, <1>2, <3>1, <3>2, <3>3, StoreOperation
  <2>9. /\ IsFiniteSet(DOMAIN sessions') /\ DOMAIN sessions' \subseteq Ids
        /\ Cardinality(DOMAIN sessions') <= MaxSessions + 1
    <3>1. /\ IsFiniteSet(DOMAIN store \cup {i}) /\ Cardinality(DOMAIN store) \in Nat
          /\ Cardinality(DOMAIN store \cup {i}) <= Cardinality(DOMAIN store) + 1
      <4>1. Cardinality(DOMAIN store) \in Nat
        BY <1>3, FS_CardinalityType
      <4>2. /\ IsFiniteSet(DOMAIN store \cup {i})
            /\ Cardinality(DOMAIN store \cup {i})
                 = IF i \in DOMAIN store THEN Cardinality(DOMAIN store)
                   ELSE Cardinality(DOMAIN store) + 1
        BY <1>3, FS_AddElement
      <4> QED
        BY <4>1, <4>2
    <3>2. Cardinality(DOMAIN store \cup {i}) \in Nat
      BY <3>1, FS_CardinalityType
    <3> QED
      BY <1>3, <1>6, <3>1, <3>2, StoreAssumption
  <2>10. sessions' \in [DOMAIN sessions' -> Session]
    BY <1>3, <1>5, <1>6, <2>4
  <2>11. StoreTypes'
    BY <1>2, <2>7, <2>8, <2>9, <2>10 DEF StoreTypes
  <2>12. StoreAgreed'
    <3> SUFFICES ASSUME NEW j \in DOMAIN sessions'
                 PROVE  /\ sessions'[j].order = held'[j] /\ sessions'[j].touched = touched'[j]
                        /\ touched'[j] <= now /\ Len(held'[j]) <= MaxEntries
      BY <1>2 DEF StoreAgreed
    <3>1. CASE j = i
      BY <1>2, <1>6, <2>1, <2>2, <2>7, <3>1
    <3>2. CASE j # i
      BY <1>3, <1>6, <2>7, <3>2
    <3> QED
      BY <3>1, <3>2
  <2> QED
    BY <2>8, <2>9, <2>11, <2>12
<1> QED
  BY <1>7, <1>8

---------------------------------------------------------------------------

\* Every step keeps the account, and drops the oldest first.
LEMMA StoreInvNext ==
  ASSUME StoreInv, [StoreNext]_storeVars
  PROVE  StoreInv' /\ OldestFirst
<1>1. CASE StoreNext
  BY <1>1, StoreTick, StoreReads, StorePut DEF StoreNext
<1>2. CASE UNCHANGED storeVars
  <2>1. StoreInv'
    BY <1>2 DEF storeVars, StoreInv, StoreTypes, StoreAgreed, LossCounted, StoreLost
  <2>2. OldestFirst
    BY <1>2 DEF storeVars, OldestFirst
  <2> QED
    BY <2>1, <2>2
<1> QED
  BY <1>1, <1>2

LEMMA StoreInvKeeps ==
  ASSUME StoreInv
  PROVE  StoreKeeps
<1>1. EntriesBounded
  BY DEF EntriesBounded, StoreInv, StoreAgreed
<1>2. LostOnlyWhenTold
  BY DEF LostOnlyWhenTold, StoreInv, StoreAgreed, LossCounted, StoreLost
<1> QED
  BY <1>1, <1>2 DEF StoreKeeps

LEMMA StorePart ==
  ASSUME [Next]_vars
  PROVE  /\ part' = part /\ (part = "store" => [StoreNext]_storeVars)
         /\ part # "store" => UNCHANGED storeVars
  BY DEF Next, vars

\* Whatever the callers put, ask for and close, and whenever: the limit of a
\* session's entries holds, and what was put is there in its order until the
\* session is closed, expires or is counted as evicted; and what an operation drops
\* without closing it had expired, or was touched no later than all it keeps
\* (store.go:30, 56-65, 160-172, 238-243).  The cap on sessions is not among it: a
\* Put may leave one session more.
THEOREM NothingLostUntold == Spec => StorePromise
<1> DEFINE I == part = "store" => StoreInv
<1>1. Init => I
  <2> SUFFICES ASSUME Init, part = "store" PROVE StoreInv
    OBVIOUS
  <2>1. StoreInit
    BY DEF Init
  <2> QED
    BY <2>1, StoreInvInit
<1>2. I /\ [Next]_vars => I'
  BY StorePart, StoreInvNext
<1>3. I => (part = "store" => StoreKeeps)
  BY StoreInvKeeps
<1>4. I /\ [Next]_vars => [\A d \in DOMAIN sessions \ DOMAIN sessions' :
         \/ Expired(d) \/ held'[d] = <<>>
         \/ \A k \in DOMAIN sessions \cap DOMAIN sessions' :
              sessions'[k].touched = now \/ Touched(d) <= Touched(k)]_storeVars
  <2> SUFFICES ASSUME I, [Next]_vars PROVE OldestFirst \/ UNCHANGED storeVars
    BY DEF OldestFirst
  <2> QED
    BY StorePart, StoreInvNext
<1> QED
  BY <1>1, <1>2, <1>3, <1>4, PTL DEF Spec, StorePromise, EvictsOldest

---------------------------------------------------------------------------
(* The runner and its chains.                                                *)

\* The sequences are numbered, and the sampling of the manifest is a record.
Numbered == \E n \in Nat : Seqs = 1 .. n
DefaultIsRecord == Default = [f \in DOMAIN Default |-> Default[f]]

LEMMA RunnerConstants == Numbered /\ DefaultIsRecord
  BY RunnerAssumption, FS_CardinalityType DEF Numbered, DefaultIsRecord

RunnerParams == {Default} \cup {Merged(w) : w \in Overrides}

RunnerTypes ==
  /\ owns \in BOOLEAN /\ vision \in BOOLEAN
  /\ step \in {"load", "context", "chains", "vision", "batch", "ready", "failing", "gone"}
  /\ chain \in [Seqs -> Nat]
  /\ built \in Seq(RunnerParams) /\ heard \in Seq(SUBSET Nat) /\ Len(heard) = Len(built)
  /\ custom \in [Seqs -> BOOLEAN]
  /\ served \in Nat /\ refused \in Nat
  /\ request \in [Seqs -> [id : Nat, wants : Overrides \cup {<<>>}, set : BOOLEAN]]

\* Which sequences have a chain at a step, and what the wishes of one are.
RunnerStage ==
  /\ step \in {"load", "context", "failing", "gone"} => \A s \in Seqs : chain[s] = 0
  /\ step \in {"vision", "batch", "ready"} => \A s \in Seqs : chain[s] # 0
  /\ step = "load" => owns
  /\ step = "vision" => vision
  /\ step # "ready" => \A s \in Seqs : request[s].id = 0
  /\ step \in {"load", "context", "chains", "vision", "batch"} => \A s \in Seqs : ~custom[s]

\* The chains in use.
RunnerInUse == {Chain(chain[s]) : s \in Seqs \ Missing}

\* What is allocated is what the runner has come to, and what was left behind.
RunnerAccounted ==
  /\ misuse = FALSE
  /\ step = "load" => alive = Stranded
  /\ step \in {"context", "failing"} => alive = {Weights} \cup Stranded
  /\ step \in {"chains", "vision", "batch", "ready"} =>
       alive = {Weights, Context} \cup RunnerInUse
               \cup (IF vision /\ step \in {"batch", "ready"} THEN {Vision} ELSE {})
               \cup (IF step = "ready" THEN {Batch} ELSE {})
               \cup Stranded
  /\ step = "gone" => alive = (IF owns THEN {} ELSE {Weights}) \cup Stranded

\* No two sequences have one chain.
ChainsApart ==
  /\ \A s \in Seqs : chain[s] <= Len(built)
  /\ \A s, q \in Seqs : s # q /\ chain[s] # 0 => chain[s] # chain[q]

\* A chain is the default's until a request wants another, and has heard nobody
\* before the request that has set it.
ChainSuits(s) ==
  /\ request[s].id = 0 => ~request[s].set
  /\ request[s].id # 0 => request[s].wants \in Overrides
  /\ chain[s] # 0 /\ ~custom[s] => built[chain[s]] = Default
  /\ chain[s] # 0 /\ ~request[s].set => heard[chain[s]] = {}
  /\ request[s].set => /\ built[chain[s]] = Merged(request[s].wants)
                       /\ heard[chain[s]] \subseteq {request[s].id}

RunnerInv == RunnerTypes /\ RunnerStage /\ RunnerAccounted /\ ChainsApart /\ \A s \in Seqs : ChainSuits(s)

\* What is allocated can be told apart.
LEMMA Distinct ==
  /\ Weights # Context /\ Weights # Vision /\ Weights # Batch
  /\ Context # Vision /\ Context # Batch /\ Vision # Batch
  /\ \A n : /\ Chain(n) # Weights /\ Chain(n) # Context /\ Chain(n) # Vision
            /\ Chain(n) # Batch
  /\ \A n, m : Chain(n) = Chain(m) => n = m
  /\ \A n : Buffer(n) \notin {Weights, Context, Vision, Batch} /\ \A m : Buffer(n) # Chain(m)
<1>1. /\ Weights # Context /\ Weights # Vision /\ Weights # Batch
      /\ Context # Vision /\ Context # Batch /\ Vision # Batch
  BY DEF Weights, Context, Vision, Batch
<1>2. ASSUME NEW n
      PROVE  Chain(n) # Weights /\ Chain(n) # Context /\ Chain(n) # Vision /\ Chain(n) # Batch
  <2>1. Chain(n)[1] = "chain" /\ Weights[1] = "weights" /\ Context[1] = "context"
        /\ Vision[1] = "vision" /\ Batch[1] = "batch"
    BY DEF Chain, Weights, Context, Vision, Batch
  <2>2. "chain" # "weights" /\ "chain" # "context" /\ "chain" # "vision" /\ "chain" # "batch"
    OBVIOUS
  <2> QED
    BY <2>1, <2>2
<1>3. ASSUME NEW n, NEW m, Chain(n) = Chain(m) PROVE n = m
  <2>1. Chain(n)[2] = n /\ Chain(m)[2] = m
    BY DEF Chain
  <2> QED
    BY <1>3, <2>1
<1>4. ASSUME NEW n
      PROVE  Buffer(n) \notin {Weights, Context, Vision, Batch} /\ \A m : Buffer(n) # Chain(m)
  <2>1. Buffer(n)[1] = "buffer" /\ Weights[1] = "weights" /\ Context[1] = "context"
        /\ Vision[1] = "vision" /\ Batch[1] = "batch" /\ \A m : Chain(m)[1] = "chain"
    BY DEF Buffer, Chain, Weights, Context, Vision, Batch
  <2>2. "buffer" \notin {"weights", "context", "vision", "batch", "chain"}
    OBVIOUS
  <2> QED
    BY <2>1, <2>2
<1> QED
  BY <1>1, <1>2, <1>3, <1>4

\* What a refusal leaves is among what is left behind.
LEMMA StrandedMore ==
  ASSUME refused \in Nat, NEW left \in {0, 1}, NEW keep, Strand(keep \cup Stranded, left)
  PROVE  alive' = keep \cup Stranded' /\ refused' \in Nat
<1>1. CASE left = 0
  <2>1. refused' = refused /\ 1 .. left = {}
    BY <1>1 DEF Strand
  <2> QED
    BY <2>1 DEF Strand, Stranded
<1>2. CASE left = 1
  <2>1. /\ refused' = refused + 1 /\ refused' \in Nat /\ 1 .. left = {1}
        /\ 1 .. refused' = (1 .. refused) \cup {refused + 1}
    BY <1>2 DEF Strand
  <2>2. Stranded' = Stranded \cup {Buffer(refused + 1)}
    BY <2>1 DEF Stranded
  <2>3. alive' = (keep \cup Stranded) \cup {Buffer(refused + 1)}
    BY <2>1 DEF Strand
  <2> QED
    BY <2>1, <2>2, <2>3
<1> QED
  BY <1>1, <1>2

LEMMA LeftoversAre == \A p : Leftovers(p) \subseteq {0, 1}
  BY DEF Leftovers

\* A request that wants nothing gets the defaults.
LEMMA NothingWanted ==
  ASSUME DefaultIsRecord
  PROVE  Merged(<<>>) = Default
<1>1. DOMAIN <<>> = {}
  OBVIOUS
<1>2. Merged(<<>>) = [f \in DOMAIN Default |-> Default[f]]
  BY <1>1 DEF Merged
<1> QED
  BY <1>2 DEF DefaultIsRecord

\* The sequence OpenRunner builds the next chain for.
LEMMA NextMissing ==
  ASSUME Numbered, Missing # {}
  PROVE  Min(Missing) \in Missing
<1>1. PICK n \in Nat : Seqs = 1 .. n
  BY DEF Numbered
<1>2. Missing \in SUBSET Nat
  BY <1>1 DEF Missing
<1>3. PICK m \in Missing : \A k \in Missing : m <= k
  BY <1>2, SmallestNumber
<1>4. Min(Missing) = CHOOSE x \in Missing : \A y \in Missing : x <= y
  BY DEF Min
<1> QED
  BY <1>3, <1>4

\* Nothing is allocated at first but what the caller brings.
LEMMA RunnerInvInit == RunnerInit => RunnerInv
<1> SUFFICES ASSUME RunnerInit PROVE RunnerInv
  OBVIOUS
<1> USE DEF RunnerInit
<1>1. RunnerTypes
  BY DEF RunnerTypes, Free
<1>2. RunnerStage
  BY DEF RunnerStage, Free
<1>4. RunnerAccounted
  <2>1. Stranded = {}
    BY DEF Stranded
  <2> QED
    BY <2>1 DEF RunnerAccounted
<1>3. ChainsApart /\ \A s \in Seqs : ChainSuits(s)
  BY DEF ChainsApart, ChainSuits, Free
<1> QED
  BY <1>1, <1>2, <1>3, <1>4 DEF RunnerInv

---------------------------------------------------------------------------
(* Opening and closing.                                                      *)

\* Close frees what is there, each once, and all but what is the caller's.
LEMMA FreeHeld ==
  ASSUME RunnerInv, step \in {"chains", "vision", "batch", "ready"}
  PROVE  /\ ~misuse /\ Held \subseteq alive
         /\ alive \ Held = (IF step = "ready" /\ owns THEN {} ELSE {Weights}) \cup Stranded
<1>1. /\ misuse = FALSE
      /\ alive = {Weights, Context} \cup RunnerInUse
                 \cup (IF vision /\ step \in {"batch", "ready"} THEN {Vision} ELSE {})
                 \cup (IF step = "ready" THEN {Batch} ELSE {})
                 \cup Stranded
  BY DEF RunnerInv, RunnerAccounted
<1>2. Held = {Context} \cup RunnerInUse
             \cup (IF vision /\ step \in {"batch", "ready"} THEN {Vision} ELSE {})
             \cup (IF step = "ready" THEN {Batch} ELSE {})
             \cup (IF step = "ready" /\ owns THEN {Weights} ELSE {})
  BY DEF Held, RunnerInUse
<1>3. Weights \notin {Context, Vision, Batch} \cup RunnerInUse
  BY Distinct DEF RunnerInUse
<1>4. Held \subseteq alive
  BY <1>1, <1>2
<1>5. Stranded \cap ({Weights, Context, Vision, Batch} \cup RunnerInUse) = {}
  BY Distinct DEF Stranded, RunnerInUse
<1>6. alive \ Held = (IF step = "ready" /\ owns THEN {} ELSE {Weights}) \cup Stranded
  BY <1>1, <1>2, <1>3, <1>5
<1> QED
  BY <1>1, <1>4, <1>6

\* Nothing is left to the sequences when a runner goes, nor is a request there.
LEMMA RunnerGone ==
  ASSUME RunnerInv, \A s \in Seqs : request[s].id = 0, chain' = [s \in Seqs |-> 0],
         step' \in {"failing", "gone"}, RunnerAccounted', refused' \in Nat,
         UNCHANGED <<owns, vision, built, heard, custom, served, request>>
  PROVE  RunnerInv'
<1> USE DEF RunnerInv
<1>1. RunnerTypes'
  BY DEF RunnerTypes
<1>2. \A s \in Seqs : chain'[s] = 0
  OBVIOUS
<1>3. RunnerStage'
  BY <1>2 DEF RunnerStage
<1>4. Len(built) \in Nat
  BY DEF RunnerTypes
<1>5. ChainsApart'
  BY <1>2, <1>4 DEF ChainsApart
<1>6. \A s \in Seqs : ChainSuits(s)'
  BY <1>2 DEF ChainSuits
<1> QED
  BY <1>1, <1>3, <1>5, <1>6

\* A step of opening that leaves the chains alone.
LEMMA RunnerOpening ==
  ASSUME RunnerInv, step' \in {"context", "chains", "vision", "batch", "ready", "failing", "gone"},
         step # "ready",
         UNCHANGED <<owns, vision, refused, chain, built, heard, custom, served, request>>,
         RunnerAccounted',
         step' = "context" => step = "load",
         step' \in {"failing", "gone"} => step \in {"load", "context", "failing"},
         step' \in {"vision", "batch", "ready"} => \A s \in Seqs : chain[s] # 0,
         step' = "vision" => vision,
         step' \in {"chains", "vision", "batch", "ready"} => step # "failing" /\ step # "gone"
  PROVE  RunnerInv'
<1> USE DEF RunnerInv
<1>1. RunnerTypes'
  BY DEF RunnerTypes
<1>2. RunnerStage'
  BY DEF RunnerStage, RunnerTypes
<1>3. ChainsApart' /\ \A s \in Seqs : ChainSuits(s)'
  BY DEF ChainsApart, ChainSuits
<1> QED
  BY <1>1, <1>2, <1>3

LEMMA RunnerOpen ==
  ASSUME RunnerInv, Load \/ NewContext \/ ChainsBuilt \/ NewBatch \/ OpenFailed
  PROVE  RunnerInv'
<1>0. RunnerTypes /\ RunnerStage /\ RunnerAccounted
  BY DEF RunnerInv
<1>1. CASE Load
  <2>1. RunnerAccounted'
    BY <1>0, <1>1 DEF RunnerAccounted, Load, Allocate, Objects, Chains, RunnerStage, Stranded
  <2> QED
    BY <1>1, <2>1, RunnerOpening DEF Load, Chains, Allocate, Objects
<1>2. CASE NewContext
  <2>1. Missing = Seqs
    BY <1>0, <1>2 DEF NewContext, RunnerStage, Missing
  <2>2. RunnerInUse' = {}
    BY <1>2, <2>1 DEF RunnerInUse, Missing, NewContext, Chains
  <2>3. RunnerAccounted'
    BY <1>0, <1>2, <2>2 DEF RunnerAccounted, NewContext, Allocate, Objects, Stranded
  <2> QED
    BY <1>2, <2>3, RunnerOpening DEF NewContext, Chains, Allocate, Objects
<1>3. CASE ChainsBuilt
  <2>1. RunnerInUse' = RunnerInUse
    BY <1>3 DEF RunnerInUse, Missing, ChainsBuilt, Chains
  <2>2. RunnerAccounted'
    BY <1>0, <1>3, <2>1 DEF RunnerAccounted, ChainsBuilt, Objects, Stranded
  <2> QED
    BY <1>3, <2>2, RunnerOpening DEF ChainsBuilt, Chains, Missing, Objects
<1>4. CASE NewBatch
  <2>1. RunnerInUse' = RunnerInUse
    BY <1>4 DEF RunnerInUse, Missing, NewBatch, Chains
  <2>2. RunnerAccounted'
    BY <1>0, <1>4, <2>1 DEF RunnerAccounted, NewBatch, Allocate, Stranded
  <2> QED
    BY <1>0, <1>4, <2>2, RunnerOpening DEF NewBatch, Chains, RunnerStage, Allocate
<1>5. CASE OpenFailed
  <2>1. Weights \notin Stranded
    BY Distinct DEF Stranded
  <2>2. Stranded' = Stranded
    BY <1>5 DEF OpenFailed, FreeAll, Stranded
  <2>3. RunnerAccounted'
    BY <1>0, <1>5, <2>1, <2>2 DEF RunnerAccounted, OpenFailed, FreeAll
  <2> QED
    BY <1>5, <2>3, RunnerOpening DEF OpenFailed, Chains, FreeAll
<1> QED
  BY <1>1, <1>2, <1>3, <1>4, <1>5

\* A step of opening fails behind the context.
LEMMA RunnerAbandon ==
  ASSUME RunnerInv, step \in {"chains", "vision"}, NEW left \in {0, 1}, Abandon(left),
         UNCHANGED <<owns, vision, served, custom, request>>
  PROVE  RunnerInv'
<1>1. Strand({Weights} \cup Stranded, left) /\ misuse' = FALSE
  BY FreeHeld DEF Abandon
<1>2. alive' = {Weights} \cup Stranded' /\ refused' \in Nat
  BY <1>1, StrandedMore DEF RunnerInv, RunnerTypes
<1>3. RunnerAccounted'
  BY <1>1, <1>2 DEF RunnerAccounted, Abandon
<1>4. \A s \in Seqs : request[s].id = 0
  BY DEF RunnerInv, RunnerStage
<1> QED
  BY <1>2, <1>3, <1>4, RunnerGone DEF Abandon

LEMMA RunnerVision ==
  ASSUME RunnerInv, OpenVision
  PROVE  RunnerInv'
<1>1. CASE Abandon(0)
  BY <1>1, RunnerAbandon DEF OpenVision
<1>2. CASE step' = "batch" /\ Allocate(Vision) /\ UNCHANGED Chains
  <2>1. RunnerInUse' = RunnerInUse
    BY <1>2 DEF RunnerInUse, Missing, Chains
  <2>2. RunnerAccounted'
    BY <1>2, <2>1 DEF RunnerInv, RunnerAccounted, RunnerStage, OpenVision, Allocate, Stranded
  <2>3. \A s \in Seqs : chain[s] # 0
    BY DEF RunnerInv, RunnerStage, OpenVision
  <2> QED
    BY <1>2, <2>2, <2>3, RunnerOpening DEF OpenVision, Chains, Allocate
<1> QED
  BY <1>1, <1>2 DEF OpenVision

LEMMA RunnerClose ==
  ASSUME RunnerInv, CloseRunner
  PROVE  RunnerInv'
<1>1. misuse' = FALSE /\ alive' = (IF owns THEN {} ELSE {Weights}) \cup Stranded
  BY FreeHeld DEF CloseRunner, FreeAll
<1>2. Stranded' = Stranded /\ refused' \in Nat
  BY DEF CloseRunner, FreeAll, Stranded, RunnerInv, RunnerTypes
<1>3. RunnerAccounted'
  BY <1>1, <1>2 DEF RunnerAccounted, CloseRunner
<1> QED
  BY <1>2, <1>3, RunnerGone DEF CloseRunner


\* A chain is built for the first sequence without one.
LEMMA RunnerNewChain ==
  ASSUME RunnerInv, Numbered, NewChain
  PROVE  RunnerInv'
<1>0. /\ RunnerTypes /\ RunnerStage /\ RunnerAccounted /\ ChainsApart
      /\ \A s \in Seqs : ChainSuits(s) /\ request[s].id = 0 /\ ~custom[s]
  BY DEF RunnerInv, RunnerStage, NewChain
<1>1. ASSUME NEW left \in Leftovers(Default), Abandon(left)
      PROVE  RunnerInv'
  BY <1>1, LeftoversAre, RunnerAbandon DEF NewChain
<1>2. CASE /\ Build(Default)
           /\ chain' = [chain EXCEPT ![Min(Missing)] = Len(built')]
           /\ Allocate(Chain(Len(built'))) /\ UNCHANGED step
  <2>1. PICK m \in Missing : m = Min(Missing)
    BY NextMissing DEF NewChain
  <2>2. PICK n \in Nat : n = Len(built)
    BY <1>0 DEF RunnerTypes
  <2>3. /\ built' = Append(built, Default) /\ heard' = Append(heard, {})
        /\ Len(built') = n+1 /\ Len(heard') = n+1
        /\ built' \in Seq(RunnerParams) /\ heard' \in Seq(SUBSET Nat)
        /\ built'[n+1] = Default /\ heard'[n+1] = {}
        /\ \A i \in 1 .. n : built'[i] = built[i] /\ heard'[i] = heard[i]
    <3>1. Default \in RunnerParams /\ {} \in SUBSET Nat
      BY DEF RunnerParams
    <3> QED
      BY <1>0, <1>2, <2>2, <3>1 DEF Build, RunnerTypes
  <2>4. /\ m \in Seqs /\ chain[m] = 0 /\ chain'[m] = n+1
        /\ \A s \in Seqs : s # m => chain'[s] = chain[s]
        /\ \A s \in Seqs : chain[s] \in 0 .. n
        /\ chain' \in [Seqs -> Nat]
    BY <1>0, <1>2, <2>1, <2>2, <2>3 DEF RunnerTypes, Missing, ChainsApart
  <2>5. RunnerTypes'
    BY <1>0, <1>2, <2>3, <2>4 DEF RunnerTypes, NewChain, Allocate
  <2>6. RunnerStage'
    BY <1>0, <1>2, <2>3, <2>4 DEF RunnerStage, NewChain
  <2>7. RunnerInUse' = RunnerInUse \cup {Chain(n+1)}
    <3>1. Seqs \ Missing' = (Seqs \ Missing) \cup {m}
      BY <2>2, <2>4 DEF Missing
    <3>2. m \notin Seqs \ Missing
      BY <2>1
    <3> QED
      BY <2>4, <3>1, <3>2 DEF RunnerInUse
  <2>8. RunnerAccounted'
    BY <1>0, <1>2, <2>3, <2>7 DEF RunnerAccounted, NewChain, Allocate, Stranded
  <2>9. ChainsApart'
    <3>1. \A s \in Seqs : chain'[s] <= n+1 /\ (s # m => chain'[s] # n+1)
      BY <2>2, <2>4
    <3>2. \A s, q \in Seqs : s # q /\ chain'[s] # 0 => chain'[s] # chain'[q]
      <4> SUFFICES ASSUME NEW s \in Seqs, NEW q \in Seqs, s # q, chain'[s] # 0
                   PROVE  chain'[s] # chain'[q]
        OBVIOUS
      <4>1. CASE s = m \/ q = m
        BY <2>4, <3>1, <4>1
      <4>2. CASE s # m /\ q # m
        BY <1>0, <2>4, <4>2 DEF ChainsApart
      <4> QED
        BY <4>1, <4>2
    <3> QED
      BY <2>3, <3>1, <3>2 DEF ChainsApart
  <2>10. ASSUME NEW s \in Seqs PROVE ChainSuits(s)'
    <3>1. CASE s = m
      BY <1>0, <2>2, <2>3, <2>4, <3>1 DEF ChainSuits, NewChain
    <3>2. CASE s # m
      <4>1. chain'[s] = chain[s] /\ (chain[s] # 0 => chain[s] \in 1 .. n)
        BY <2>4, <3>2
      <4> QED
        BY <1>0, <2>3, <4>1 DEF ChainSuits, NewChain
    <3> QED
      BY <3>1, <3>2
  <2> QED
    BY <2>5, <2>6, <2>8, <2>9, <2>10 DEF RunnerInv
<1> QED
  BY <1>1, <1>2 DEF NewChain

---------------------------------------------------------------------------
(* Requests.                                                                 *)

\* While the runner is ready every sequence has a chain, which is its own.
LEMMA ReadyFacts ==
  ASSUME RunnerInv, step = "ready"
  PROVE  /\ misuse = FALSE /\ {Weights, Context, Batch} \subseteq alive
         /\ Missing = {} /\ RunnerInUse = {Chain(chain[q]) : q \in Seqs}
         /\ \A s \in Seqs : chain[s] \in 1 .. Len(built) /\ Chain(chain[s]) \in alive
         /\ \A s, q \in Seqs : s # q => chain[s] # chain[q]
<1>1. Missing = {}
  BY DEF RunnerInv, RunnerStage, Missing
<1>2. \A s \in Seqs : chain[s] \in 1 .. Len(built)
  BY DEF RunnerInv, RunnerStage, RunnerTypes, ChainsApart
<1>3. RunnerInUse = {Chain(chain[q]) : q \in Seqs}
  BY <1>1 DEF RunnerInUse
<1>4. misuse = FALSE /\ {Weights, Context, Batch} \cup RunnerInUse \subseteq alive
  BY DEF RunnerInv, RunnerAccounted
<1>5. \A s, q \in Seqs : s # q => chain[s] # chain[q]
  BY DEF RunnerInv, RunnerStage, ChainsApart
<1> QED
  BY <1>1, <1>2, <1>3, <1>4, <1>5

\* A step of a request that keeps every chain, and what the others have heard.
LEMMA RunnerServing ==
  ASSUME RunnerInv, step = "ready", NEW s \in Seqs,
         UNCHANGED <<owns, vision, step, misuse, chain, built, custom>>,
         NEW left \in {0, 1}, Strand(alive, left),
         RunnerTypes',
         \A q \in Seqs : q # s => request'[q] = request[q] /\ heard'[chain[q]] = heard[chain[q]],
         ChainSuits(s)'
  PROVE  RunnerInv'
<1> USE DEF RunnerInv
<1>1. RunnerStage' /\ ChainsApart'
  BY DEF RunnerStage, ChainsApart
<1>2. RunnerInUse' = RunnerInUse
  BY DEF RunnerInUse, Missing
<1> DEFINE keep == {Weights, Context} \cup RunnerInUse
               \cup (IF vision /\ step \in {"batch", "ready"} THEN {Vision} ELSE {})
               \cup (IF step = "ready" THEN {Batch} ELSE {})
<1>3. alive = keep \cup Stranded /\ refused \in Nat
  BY DEF RunnerAccounted, RunnerTypes
<1>4. alive' = keep \cup Stranded'
  <2>1. Strand(keep \cup Stranded, left)
    BY <1>3
  <2> HIDE DEF keep
  <2> QED
    BY <1>3, <2>1, StrandedMore
<1>5. RunnerAccounted'
  BY <1>2, <1>4 DEF RunnerAccounted
<1>6. \A q \in Seqs : ChainSuits(q)'
  BY DEF ChainSuits
<1> QED
  BY <1>1, <1>5, <1>6

\* A step that leaves the objects alone strands none.
LEMMA NoneStranded ==
  ASSUME refused \in Nat, UNCHANGED <<alive, refused>>
  PROVE  Strand(alive, 0)
<1>1. 1 .. 0 = {}
  OBVIOUS
<1> QED
  BY <1>1 DEF Strand

LEMMA RunnerAdmit ==
  ASSUME RunnerInv, NEW s \in Seqs, Admit(s)
  PROVE  RunnerInv'
<1>1. PICK w \in Overrides :
        request' = [request EXCEPT ![s] = [id |-> served', wants |-> w, set |-> FALSE]]
  BY DEF Admit
<1>2. served \in Nat /\ served' = served + 1 /\ served' \in Nat /\ served' # 0
  BY DEF RunnerInv, RunnerTypes, Admit
<1>3. request'[s] = [id |-> served', wants |-> w, set |-> FALSE]
      /\ \A q \in Seqs : q # s => request'[q] = request[q]
  BY <1>1 DEF RunnerInv, RunnerTypes
<1>4. RunnerTypes'
  BY <1>1, <1>2 DEF RunnerInv, RunnerTypes, Admit, Chains, Objects
<1>5. ChainSuits(s)'
  BY <1>2, <1>3 DEF RunnerInv, ChainSuits, Admit, Chains
<1>6. UNCHANGED <<owns, vision, step, misuse, chain, built, heard, custom>> /\ step = "ready"
  BY DEF Admit, Chains, Objects
<1>7. Strand(alive, 0)
  BY NoneStranded DEF Admit, Objects, RunnerInv, RunnerTypes
<1> QED
  BY <1>3, <1>4, <1>5, <1>6, <1>7, RunnerServing

\* What a chain that is nobody else's hears is nothing to the other chains.
LEMMA OthersHear ==
  ASSUME RunnerInv, step = "ready", NEW s \in Seqs, NEW x,
         heard' = [heard EXCEPT ![chain[s]] = x]
  PROVE  /\ \A q \in Seqs : q # s => heard'[chain[q]] = heard[chain[q]]
         /\ heard'[chain[s]] = x /\ Len(heard') = Len(heard)
         /\ x \in SUBSET Nat => heard' \in Seq(SUBSET Nat)
<1>1. /\ heard \in Seq(SUBSET Nat) /\ Len(heard) = Len(built)
      /\ \A q \in Seqs : chain[q] \in 1 .. Len(heard)
      /\ \A q \in Seqs : q # s => chain[q] # chain[s]
  BY ReadyFacts DEF RunnerInv, RunnerTypes
<1> QED
  BY <1>1

LEMMA RunnerRelease ==
  ASSUME RunnerInv, NEW s \in Seqs, SetSamplingFails(s) \/ FreeSeq(s)
  PROVE  RunnerInv'
<1>1. /\ step = "ready" /\ Released(s)
      /\ UNCHANGED <<owns, vision, served, step, misuse, chain, built, custom>>
  BY DEF SetSamplingFails, FreeSeq, Objects
<1>0. PICK left \in {0, 1} : Strand(alive, left)
  BY LeftoversAre, NoneStranded DEF SetSamplingFails, FreeSeq, Objects, RunnerInv, RunnerTypes
<1>7. refused' \in Nat
  BY <1>0 DEF Strand, RunnerInv, RunnerTypes
<1>2. heard' = [heard EXCEPT ![chain[s]] = {}]
  BY <1>1 DEF Released
<1>3. /\ \A q \in Seqs : q # s => heard'[chain[q]] = heard[chain[q]]
      /\ heard'[chain[s]] = {} /\ Len(heard') = Len(heard) /\ heard' \in Seq(SUBSET Nat)
  BY <1>1, <1>2, OthersHear
<1>4. request'[s] = Free /\ \A q \in Seqs : q # s => request'[q] = request[q]
  BY <1>1 DEF Released, RunnerInv, RunnerTypes
<1>5. RunnerTypes'
  BY <1>1, <1>3, <1>7 DEF RunnerInv, RunnerTypes, Released, Free
<1>6. ChainSuits(s)'
  BY <1>1, <1>3, <1>4 DEF RunnerInv, ChainSuits, Free
<1> QED
  BY <1>0, <1>1, <1>3, <1>4, <1>5, <1>6, RunnerServing

LEMMA RunnerSample ==
  ASSUME RunnerInv, NEW s \in Seqs, SampleAt(s)
  PROVE  RunnerInv'
<1>1. step = "ready" /\ request[s].set
  BY DEF SampleAt
<1>2. misuse' = misuse
  BY <1>1, ReadyFacts DEF SampleAt
<1>3. /\ heard' = [heard EXCEPT ![chain[s]] = heard[chain[s]] \cup {request[s].id}]
      /\ request[s].id \in Nat
  BY DEF SampleAt, RunnerInv, RunnerTypes
<1>4. heard[chain[s]] \cup {request[s].id} \in SUBSET Nat
  <2>1. heard \in Seq(SUBSET Nat) /\ chain[s] \in 1 .. Len(heard)
    BY <1>1, ReadyFacts DEF RunnerInv, RunnerTypes
  <2> QED
    BY <1>3, <2>1
<1>5. /\ \A q \in Seqs : q # s => heard'[chain[q]] = heard[chain[q]]
      /\ heard'[chain[s]] = heard[chain[s]] \cup {request[s].id}
      /\ Len(heard') = Len(heard) /\ heard' \in Seq(SUBSET Nat)
  BY <1>1, <1>3, <1>4, OthersHear
<1>6. RunnerTypes'
  BY <1>5 DEF RunnerInv, RunnerTypes, SampleAt
<1>7. ChainSuits(s)'
  BY <1>1, <1>5 DEF RunnerInv, ChainSuits, SampleAt
<1>8. Strand(alive, 0)
  BY NoneStranded DEF SampleAt, RunnerInv, RunnerTypes
<1> QED
  BY <1>1, <1>2, <1>5, <1>6, <1>7, <1>8, RunnerServing DEF SampleAt



\* A request's wishes are met: it keeps the default's chain, or one is built for it
\* and the chain it had is freed.
LEMMA RunnerSetSampling ==
  ASSUME RunnerInv, DefaultIsRecord, NEW s \in Seqs, SetSampling(s)
  PROVE  RunnerInv'
<1>0. /\ RunnerTypes /\ RunnerStage /\ RunnerAccounted /\ ChainsApart /\ \A q \in Seqs : ChainSuits(q)
      /\ step = "ready" /\ request[s].id > 0 /\ ~request[s].set
      /\ UNCHANGED <<owns, vision, served, step>>
      /\ request' = [request EXCEPT ![s].set = TRUE]
  BY DEF RunnerInv, SetSampling
<1>1. /\ request'[s].set = TRUE /\ request'[s].id = request[s].id
      /\ request'[s].wants = request[s].wants
      /\ \A q \in Seqs : q # s => request'[q] = request[q]
      /\ \A q \in Seqs : request'[q].id = request[q].id
      /\ request' \in [Seqs -> [id : Nat, wants : Overrides \cup {<<>>}, set : BOOLEAN]]
  BY <1>0 DEF RunnerTypes
<1>2. request[s].wants \in Overrides /\ request[s].id # 0 /\ chain[s] # 0
      /\ heard[chain[s]] = {}
  BY <1>0 DEF RunnerTypes, ChainSuits, RunnerStage
<1>3. CASE Stays(s)
  <2>1. UNCHANGED <<alive, refused, misuse, chain, built, heard, custom>>
    BY <1>3 DEF SetSampling, Objects, Chains
  <2>2. RunnerTypes'
    BY <1>0, <1>1, <2>1 DEF RunnerTypes
  <2>3. built[chain[s]] = Merged(request[s].wants)
    BY <1>0, <1>2, <1>3, NothingWanted DEF Stays, ChainSuits
  <2>4. ChainSuits(s)'
    BY <1>0, <1>1, <1>2, <2>1, <2>3 DEF ChainSuits
  <2>5. Strand(alive, 0)
    BY <1>0, <2>1, NoneStranded DEF RunnerTypes
  <2> QED
    BY <1>0, <1>1, <2>1, <2>2, <2>4, <2>5, RunnerServing
<1>4. CASE ~Stays(s)
  <2>0. PICK n \in Nat : n = Len(built) /\ n = Len(heard)
    BY <1>0 DEF RunnerTypes
  <2> DEFINE p == Merged(request[s].wants)
  <2>1. /\ built' = Append(built, p) /\ heard' = Append(heard, {})
        /\ alive' = (alive \cup {Chain(Len(built'))}) \ {Chain(chain[s])}
        /\ misuse' = (misuse \/ Chain(chain[s]) \notin alive) /\ UNCHANGED refused
        /\ chain' = [chain EXCEPT ![s] = Len(built')]
        /\ custom' = [custom EXCEPT ![s] = request[s].wants # <<>>]
    BY <1>4 DEF SetSampling, Build
  <2>2. p \in RunnerParams /\ {} \in SUBSET Nat
    BY <1>2 DEF RunnerParams
  <2>3. /\ Len(built') = n+1 /\ Len(heard') = n+1
        /\ built' \in Seq(RunnerParams) /\ heard' \in Seq(SUBSET Nat)
        /\ built'[n+1] = p /\ heard'[n+1] = {}
        /\ \A i \in 1 .. n : built'[i] = built[i] /\ heard'[i] = heard[i]
    <3> HIDE DEF p
    <3> QED
      BY <1>0, <2>0, <2>1, <2>2 DEF RunnerTypes
  <2>4. /\ chain'[s] = n+1 /\ \A q \in Seqs : q # s => chain'[q] = chain[q]
        /\ \A q \in Seqs : chain[q] \in 1 .. n
        /\ \A q, r \in Seqs : q # r => chain[q] # chain[r]
        /\ chain' \in [Seqs -> Nat]
    BY <1>0, <2>0, <2>1, <2>3, ReadyFacts DEF RunnerTypes
  <2>5. /\ custom' \in [Seqs -> BOOLEAN] /\ (custom'[s] <=> request[s].wants # <<>>)
        /\ \A q \in Seqs : q # s => custom'[q] = custom[q]
    BY <1>0, <2>1 DEF RunnerTypes
  <2>6. RunnerTypes'
    BY <1>0, <1>1, <2>1, <2>3, <2>4, <2>5 DEF RunnerTypes
  <2>7. RunnerStage'
    BY <1>0, <1>1, <2>4 DEF RunnerStage
  <2>8. RunnerAccounted'
    <3>1. RunnerInUse = {Chain(chain[q]) : q \in Seqs} /\ misuse = FALSE /\ Chain(chain[s]) \in alive
      BY <1>0, ReadyFacts
    <3>2. Missing' = {}
      BY <2>0, <2>4 DEF Missing
    <3>3. RunnerInUse' = (RunnerInUse \cup {Chain(n+1)}) \ {Chain(chain[s])}
      <4>1. RunnerInUse' = {Chain(chain'[q]) : q \in Seqs}
        BY <3>2 DEF RunnerInUse
      <4>2. \A q \in Seqs : q # s => Chain(chain'[q]) # Chain(chain[s])
        BY <2>4, Distinct
      <4>3. Chain(n+1) # Chain(chain[s])
        BY <2>4, Distinct
      <4>4. RunnerInUse' \subseteq (RunnerInUse \cup {Chain(n+1)}) \ {Chain(chain[s])}
        BY <2>4, <3>1, <4>1, <4>2, <4>3
      <4>5. (RunnerInUse \cup {Chain(n+1)}) \ {Chain(chain[s])} \subseteq RunnerInUse'
        BY <2>4, <3>1, <4>1
      <4> QED
        BY <4>4, <4>5
    <3>4. Chain(chain[s]) \notin {Weights, Context, Vision, Batch}
      BY Distinct
    <3>5. alive = {Weights, Context} \cup RunnerInUse \cup (IF vision THEN {Vision} ELSE {}) \cup {Batch}
                  \cup Stranded
      BY <1>0 DEF RunnerAccounted
    <3>8. Stranded' = Stranded /\ Chain(chain[s]) \notin Stranded
      BY <2>1, Distinct DEF Stranded
    <3>6. alive' = {Weights, Context} \cup RunnerInUse' \cup (IF vision THEN {Vision} ELSE {}) \cup {Batch}
                   \cup Stranded'
      BY <2>1, <2>3, <3>3, <3>4, <3>5, <3>8
    <3>7. misuse' = FALSE
      BY <2>1, <3>1
    <3> QED
      BY <1>0, <3>6, <3>7 DEF RunnerAccounted
  <2>9. ChainsApart'
    <3>1. \A q \in Seqs : chain'[q] <= n+1 /\ (q # s => chain'[q] # n+1)
      BY <2>4
    <3>2. \A q, r \in Seqs : q # r => chain'[q] # chain'[r]
      <4> SUFFICES ASSUME NEW q \in Seqs, NEW r \in Seqs, q # r PROVE chain'[q] # chain'[r]
        OBVIOUS
      <4>1. CASE q = s \/ r = s
        BY <2>4, <3>1, <4>1
      <4>2. CASE q # s /\ r # s
        BY <2>4, <4>2
      <4> QED
        BY <4>1, <4>2
    <3> QED
      BY <2>3, <3>1, <3>2 DEF ChainsApart
  <2>10. ASSUME NEW q \in Seqs PROVE ChainSuits(q)'
    <3>1. CASE q = s
      <4>1. ~custom'[s] => p = Default
        BY <1>0, <2>5, NothingWanted
      <4> HIDE DEF p
      <4>2. built'[chain'[s]] = p /\ heard'[chain'[s]] = {}
        BY <2>3, <2>4
      <4>3. p = Merged(request'[s].wants)
        BY <1>1 DEF p
      <4> QED
        BY <1>1, <1>2, <3>1, <4>1, <4>2, <4>3 DEF ChainSuits
    <3>2. CASE q # s
      <4>1. /\ chain'[q] = chain[q] /\ custom'[q] = custom[q] /\ request'[q] = request[q]
            /\ built'[chain[q]] = built[chain[q]] /\ heard'[chain[q]] = heard[chain[q]]
        BY <1>1, <2>3, <2>4, <2>5, <3>2
      <4> QED
        BY <1>0, <4>1 DEF ChainSuits
    <3> QED
      BY <3>1, <3>2
  <2> QED
    BY <2>6, <2>7, <2>8, <2>9, <2>10 DEF RunnerInv
<1> QED
  BY <1>3, <1>4

---------------------------------------------------------------------------

\* Every step of the runner keeps the account.
LEMMA RunnerInvNext ==
  ASSUME RunnerInv, Numbered, DefaultIsRecord, [RunnerNext]_runnerVars
  PROVE  RunnerInv'
<1>1. CASE Load \/ NewContext \/ ChainsBuilt \/ NewBatch \/ OpenFailed
  BY <1>1, RunnerOpen
<1>2. CASE NewChain
  BY <1>2, RunnerNewChain
<1>3. CASE OpenVision
  BY <1>3, RunnerVision
<1>4. CASE CloseRunner
  BY <1>4, RunnerClose
<1>5. ASSUME NEW s \in Seqs,
             \/ Admit(s) \/ SetSampling(s) \/ SetSamplingFails(s) \/ SampleAt(s) \/ FreeSeq(s)
      PROVE  RunnerInv'
  BY <1>5, RunnerAdmit, RunnerSetSampling, RunnerRelease, RunnerSample
<1>6. CASE UNCHANGED runnerVars
  BY <1>6 DEF runnerVars, RunnerInv, RunnerTypes, RunnerStage, RunnerAccounted, ChainsApart, ChainSuits, RunnerInUse, Missing, Stranded
<1> QED
  BY <1>1, <1>2, <1>3, <1>4, <1>5, <1>6 DEF RunnerNext

LEMMA RunnerInvSound ==
  ASSUME RunnerInv
  PROVE  RunnerSound
<1>1. ChainIsOwn
  <2>1. step = "ready" => \A s, q \in Seqs : q # s => chain[q] # chain[s]
    BY ReadyFacts
  <2> QED
    BY <2>1 DEF ChainIsOwn, RunnerInv, ChainSuits
<1>2. FreedOnce
  <2>1. Weights \notin Stranded
    BY Distinct DEF Stranded
  <2> QED
    BY <2>1 DEF FreedOnce, RunnerInv, RunnerAccounted
<1> QED
  BY <1>1, <1>2 DEF RunnerSound

LEMMA RunnerPart ==
  ASSUME [Next]_vars
  PROVE  part' = part /\ (part = "runner" => [RunnerNext]_runnerVars)
  BY DEF Next, vars

\* Whatever the sequences, the manifest and the wishes: whoever samples has a chain
\* of its own, built of its wishes, that has heard nobody else, and what the runner
\* allocates is freed once on every path of opening and closing, except for the
\* buffers of chains whose grammar was refused, of which as many stay as were refused
\* (runner.go:26-28, 41-44, 59-61, 117-119, 211, 535-538).
THEOREM ChainsAreOwn == Spec => []RunnerPromise
<1> DEFINE I == part = "runner" => RunnerInv
<1>1. Init => I
  <2> SUFFICES ASSUME Init, part = "runner" PROVE RunnerInv
    OBVIOUS
  <2>1. RunnerInit
    BY DEF Init
  <2> QED
    BY <2>1, RunnerInvInit, RunnerConstants
<1>2. I /\ [Next]_vars => I'
  BY RunnerPart, RunnerInvNext, RunnerConstants
<1>3. I => RunnerPromise
  BY RunnerInvSound DEF RunnerPromise
<1> QED
  BY <1>1, <1>2, <1>3, PTL DEF Spec

---------------------------------------------------------------------------
(* One prefix for many prompts.                                              *)

\* A total is the last of a loop's sums.
Adds(r, v, n) ==
  r \in [0 .. n -> Int] /\ r[0] = 0 /\ \A k \in 1 .. n : r[k] = r[k - 1] + v[k]

LEMMA TotalLoop ==
  ASSUME NEW n \in Nat, NEW v \in [1 .. n -> Int]
  PROVE  \E r : Adds(r, v, n) /\ Total(v) = r[n]
<1> DEFINE V == Int
           up == [k \in 1 .. n |-> [q \in V |-> q + v[k]]]
           body(f) == [s \in SUBSET (1 .. n) |-> IF s = {} THEN 0 ELSE f[s \ {Max(s)}] + v[Max(s)]]
           h == CHOOSE f : f = body(f)
<1>1. up \in [1 .. n -> [V -> V]] /\ 0 \in V
  OBVIOUS
<1>2. \A s \in SUBSET (1 .. n) : s # {} => Max(s) \in 1 .. n /\ s \ {Max(s)} \in SUBSET (1 .. n)
  BY MaxFacts
<1>3. \A k \in 1 .. n, q \in V : up[k][q] = q + v[k]
  OBVIOUS
<1>4. PICK f : Folded(f, n, V, 0, up)
  <2>1. up \in Loops(n, V)
    BY <1>1 DEF Loops
  <2> HIDE DEF V, up
  <2>2. PICK z : z = 0
    OBVIOUS
  <2>3. \E f : Folded(f, n, V, z, up)
    BY <1>1, <2>1, <2>2, FoldExists
  <2> QED
    BY <2>2, <2>3
<1>5. f = body(f)
  <2>1. \A s \in SUBSET (1 .. n) : f[s] = IF s = {} THEN 0 ELSE f[s \ {Max(s)}] + v[Max(s)]
    <3>1. \A s \in SUBSET (1 .. n) : f[s] \in V
      BY <1>4 DEF Folded
    <3> HIDE DEF V, up
    <3> QED
      BY <1>2, <1>3, <1>4, <3>1 DEF Folded
  <2> QED
    BY <1>4, <2>1 DEF Folded
<1>6. h = body(h)
  <2> HIDE DEF body
  <2> QED
    BY <1>5
<1>7. Total(v) = h[1 .. n]
  BY DEF Total, FoldLeft, MapThenFoldSet
<1>8. Folds(h, n, V, 0, up)
  <2> HIDE DEF h
  <2>1. \A s \in SUBSET (1 .. n) : h[s] = IF s = {} THEN 0 ELSE h[s \ {Max(s)}] + v[Max(s)]
    BY <1>6
  <2>2. {} \in SUBSET (1 .. n)
    OBVIOUS
  <2> HIDE DEF V, up
  <2> QED
    BY <1>2, <1>3, <2>1, <2>2 DEF Folds
<1>9. Looped(Before(h, n), n, V, 0, up) /\ h[1 .. n] = Before(h, n)[n]
  <2>1. up \in Loops(n, V)
    BY <1>1 DEF Loops
  <2> HIDE DEF h, V, up
  <2>2. PICK z : z = 0
    OBVIOUS
  <2>3. Looped(Before(h, n), n, V, z, up) /\ h[1 .. n] = Before(h, n)[n]
    BY <1>1, <1>8, <2>1, <2>2, FoldLoop
  <2> QED
    BY <2>2, <2>3
<1>10. PICK r : r = Before(h, n)
  OBVIOUS
<1>11. r \in [0 .. n -> V] /\ r[0] = 0 /\ \A k \in 1 .. n : r[k] = up[k][r[k - 1]]
  BY <1>9, <1>10 DEF Looped
<1>12. \A k \in 1 .. n : r[k] = r[k - 1] + v[k]
  <2>1. \A k \in 1 .. n : k - 1 \in 0 .. n
    OBVIOUS
  <2> HIDE DEF up, h
  <2> QED
    BY <1>3, <1>11, <2>1
<1> HIDE DEF h
<1> QED
  BY <1>7, <1>9, <1>10, <1>11, <1>12 DEF Adds

\* What is taken from every number is taken that many times.
LEMMA TotalShift ==
  ASSUME NEW n \in Nat, NEW v \in [1 .. n -> Int], NEW w \in [1 .. n -> Int], NEW c \in Int,
         \A k \in 1 .. n : v[k] = w[k] + c
  PROVE  Total(v) = Total(w) + n * c /\ Total(w) \in Int
<1>1. PICK a : Adds(a, v, n) /\ Total(v) = a[n]
  BY TotalLoop
<1>2. PICK b : Adds(b, w, n) /\ Total(w) = b[n]
  BY TotalLoop
<1> DEFINE S == {k \in Nat : k <= n => a[k] = b[k] + k * c}
<1>3. 0 \in S
  BY <1>1, <1>2 DEF Adds
<1>4. ASSUME NEW k \in Nat, k \in S PROVE k + 1 \in S
  <2> SUFFICES ASSUME k + 1 <= n PROVE a[k + 1] = b[k + 1] + (k + 1) * c
    OBVIOUS
  <2>1. k + 1 \in 1 .. n /\ (k + 1) - 1 = k /\ k \in 0 .. n /\ a[k] = b[k] + k * c
    BY <1>4
  <2>2. a[k + 1] = a[k] + v[k + 1] /\ b[k + 1] = b[k] + w[k + 1] /\ b[k] \in Int /\ w[k + 1] \in Int
    BY <1>1, <1>2, <2>1 DEF Adds
  <2>3. v[k + 1] = w[k + 1] + c
    BY <2>1
  <2>4. (k + 1) * c = k * c + c /\ k * c \in Int
    OBVIOUS
  <2> QED
    BY <2>1, <2>2, <2>3, <2>4
<1>5. n \in S
  <2> HIDE DEF S
  <2> QED
    BY <1>3, <1>4, Induct
<1> QED
  BY <1>1, <1>2, <1>5 DEF Adds

---------------------------------------------------------------------------

\* A list is its beginning and the rest.
LEMMA Parted ==
  ASSUME NEW T, NEW q \in Seq(T), NEW l \in Nat, l <= Len(q)
  PROVE  /\ Len(SubSeq(q, l + 1, Len(q))) = Len(q) - l
         /\ SubSeq(q, 1, l) \o SubSeq(q, l + 1, Len(q)) = q
<1>1. PICK a, b, n : a = SubSeq(q, 1, l) /\ b = SubSeq(q, l + 1, n) /\ n = Len(q)
  OBVIOUS
<1>2. n \in Nat /\ l \in Nat /\ l <= n
  BY <1>1
<1>3. a \in Seq(T) /\ Len(a) = l /\ \A k \in 1 .. l : a[k] = q[k]
  BY <1>1, <1>2
<1>4. b \in Seq(T) /\ Len(b) = n - l /\ \A k \in 1 .. n - l : b[k] = q[l + k]
  BY <1>1, <1>2
<1>5. a \o b \in Seq(T) /\ Len(a \o b) = n
  <2>1. a \o b \in Seq(T) /\ Len(a \o b) = Len(a) + Len(b)
    BY ONLY <1>3, <1>4, ConcatProperties
  <2>2. l + (n - l) = n
    BY ONLY <1>2
  <2> QED
    BY ONLY <1>3, <1>4, <2>1, <2>2
<1>6. ASSUME NEW k \in 1 .. n PROVE (a \o b)[k] = q[k]
  <2>1. CASE k <= l
    <3>1. (a \o b)[k] = a[k]
      BY ONLY <1>2, <1>3, <1>4, <1>6, <2>1, ConcatProperties
    <3> QED
      BY <1>2, <1>3, <2>1, <3>1
  <2>2. CASE k > l
    <3>1. k - l \in 1 .. n - l /\ l + (k - l) = k
      BY <1>2, <2>2
    <3>2. (a \o b)[k] = b[k - l]
      BY ONLY <1>2, <1>3, <1>4, <1>6, <2>2, ConcatProperties
    <3> QED
      BY <1>4, <3>1, <3>2
  <2>3. l \in Int /\ k \in Int
    BY <1>2
  <2>4. k <= l \/ k > l
    BY ONLY <2>3
  <2> QED
    BY ONLY <2>1, <2>2, <2>4
<1>7. a \o b = q
  BY <1>1, <1>5, <1>6, SeqEqual
<1> QED
  BY <1>1, <1>4, <1>7

\* The prompts are a list of lists.
Listed(T) ==
  /\ prompts \in Seq(Seq(T)) /\ Len(prompts) \in Nat \ {0} /\ Indices = 1 .. Len(prompts)
  /\ 1 \in Indices
  /\ \A i \in Indices : prompts[i] \in Seq(T) /\ Len(prompts[i]) \in Nat

LEMMA PromptsListed == ASSUME prompts \in PromptLists PROVE \E T : Listed(T)
<1>1. PICK T : prompts \in Seq(Seq(T)) /\ prompts # <<>>
  BY PrefixAssumption
<1> DEFINE R == Seq(T)
<1>2. prompts \in Seq(R)
  BY <1>1
<1> HIDE DEF R
<1>3. Len(prompts) \in Nat \ {0} /\ DOMAIN prompts = 1 .. Len(prompts) /\ \A i \in DOMAIN prompts : prompts[i] \in R
  BY <1>1, <1>2
<1>4. \A i \in DOMAIN prompts : Len(prompts[i]) \in Nat
  BY <1>3 DEF R
<1> QED
  BY <1>1, <1>3, <1>4 DEF R, Listed, Indices

LEMMA SharedFacts ==
  ASSUME prompts \in PromptLists
  PROVE  /\ SharedLen \in Nat /\ SameFirst(SharedLen)
         /\ \A i \in Indices : SharedLen <= Len(prompts[i]) /\ (prompts[i] # <<>> => SharedLen < Len(prompts[i]))
         /\ \A n \in 0 .. Shortest - 1 : Len(prompts) > 1 /\ SameFirst(n) => n <= SharedLen
<1>1. PICK T : Listed(T)
  BY PromptsListed
<1>2. SameFirst(0)
  <2>1. \A i \in Indices : SubSeq(prompts[i], 1, 0) = <<>>
    BY <1>1 DEF Listed
  <2> QED
    BY <1>1, <2>1 DEF SameFirst, Listed
<1>3. Shortest \in Nat /\ \A i \in Indices : Shortest <= Len(prompts[i])
  <2> DEFINE A == {Len(prompts[i]) : i \in Indices}
  <2>1. A \in SUBSET Nat /\ A # {}
    BY <1>1 DEF Listed
  <2>2. \A i \in Indices : Len(prompts[i]) \in A
    OBVIOUS
  <2> HIDE DEF A
  <2>3. Min(A) \in A /\ \A y \in A : Min(A) <= y
    BY <2>1, MinOfSome
  <2>4. Shortest = Min(A)
    BY DEF Shortest, A
  <2> QED
    BY <2>1, <2>2, <2>3, <2>4
<1>4. \A i \in Indices : prompts[i] # <<>> => Len(prompts[i]) > 0
  BY <1>1 DEF Listed
<1>5. CASE Len(prompts) = 1
  <2>1. SharedLen = 0
    BY <1>5 DEF SharedLen
  <2> QED
    BY <1>1, <1>2, <1>4, <1>5, <2>1 DEF Listed
<1>6. CASE Len(prompts) # 1
  <2>1. PICK m : m = Max({Shortest - 1, 0})
    OBVIOUS
  <2>2. Shortest - 1 \in Int /\ 0 \in Int
    BY <1>3
  <2>3. m \in {Shortest - 1, 0} /\ m >= Shortest - 1 /\ m >= 0
    BY ONLY <2>1, <2>2, MaxOfTwo
  <2> DEFINE A == {n \in 0 .. m : SameFirst(n)}
  <2>4. m \in Nat /\ A \in SUBSET (0 .. m) /\ 0 \in A
    BY <1>2, <2>2, <2>3
  <2>5. SharedLen = Max(A)
    BY <1>6, <2>1 DEF SharedLen
  <2>6. SharedLen \in A /\ \A x \in A : x <= SharedLen
    <3> HIDE DEF A
    <3> QED
      BY <2>4, <2>5, MaxOfSome
  <2>7. SharedLen \in Nat /\ SharedLen <= m /\ SameFirst(SharedLen)
    BY <2>4, <2>6
  <2>8. \A n \in 0 .. Shortest - 1 : SameFirst(n) => n <= SharedLen
    <3> SUFFICES ASSUME NEW n \in 0 .. Shortest - 1, SameFirst(n) PROVE n <= SharedLen
      OBVIOUS
    <3>1. n \in A
      BY <1>3, <2>3, <2>4
    <3> QED
      BY <2>6, <3>1
  <2>9. \A i \in Indices : SharedLen <= Len(prompts[i]) /\ (prompts[i] # <<>> => SharedLen < Len(prompts[i]))
    <3> SUFFICES ASSUME NEW i \in Indices
                 PROVE  SharedLen <= Len(prompts[i]) /\ (prompts[i] # <<>> => SharedLen < Len(prompts[i]))
      OBVIOUS
    <3>1. Len(prompts[i]) \in Nat /\ Shortest <= Len(prompts[i]) /\ (prompts[i] # <<>> => Len(prompts[i]) > 0)
      BY <1>1, <1>3, <1>4 DEF Listed
    <3> HIDE DEF A
    <3> QED
      BY <1>3, <2>3, <2>7, <3>1
  <2> QED
    BY <2>7, <2>8, <2>9
<1> QED
  BY <1>5, <1>6

---------------------------------------------------------------------------

\* The first n tokens of the first prompt.
Head1(n) == SubSeq(prompts[1], 1, n)

\* What a share has done so far: a sequence holds a beginning of the shared prefix.
PrefixInv ==
  /\ prompts \in PromptLists /\ capacity \in Capacities
  /\ off \in 0 .. SharedLen
  /\ DOMAIN cells = Indices
  /\ \A i \in Indices : \E n \in 0 .. SharedLen : cells[i] = Head1(n)
  /\ sharing \in {"start", "decode"} => cells[1] = Head1(IF remembers THEN off ELSE 0)
  /\ sharing = "copy" =>
       next \in 2 .. Len(prompts) + 1 /\ \A i \in Indices : i < next => cells[i] = Head1(SharedLen)
  /\ sharing = "shared" => \A i \in Indices : cells[i] = Head1(SharedLen)

LEMMA Beginnings ==
  ASSUME prompts \in PromptLists, NEW n \in 0 .. SharedLen
  PROVE  /\ Len(Head1(n)) = n
         /\ \A i \in Indices : SubSeq(prompts[i], 1, n) = Head1(n)
         /\ \A m \in 0 .. SharedLen : n <= m => Head1(n) \o SubSeq(Shared, n + 1, m) = Head1(m)
         /\ SubSeq(Head1(SharedLen), 1, n) = Head1(n)
         /\ Head1(0) = <<>>
<1>1. PICK T : Listed(T)
  BY PromptsListed
<1>2. SharedLen \in Nat /\ SameFirst(SharedLen) /\ \A i \in Indices : SharedLen <= Len(prompts[i])
  BY SharedFacts
<1>3. PICK l, p : l = SharedLen /\ p = prompts[1]
  OBVIOUS
<1>4. p \in Seq(T) /\ l \in Nat /\ l <= Len(p) /\ n \in Nat /\ n <= l
  BY <1>1, <1>2, <1>3 DEF Listed
<1>5. Len(Head1(n)) = n /\ Head1(0) = <<>>
  BY <1>3, <1>4 DEF Head1
<1>6. ASSUME NEW i \in Indices PROVE SubSeq(prompts[i], 1, n) = Head1(n)
  <2>1. PICK q : q = prompts[i]
    OBVIOUS
  <2>2. q \in Seq(T) /\ l <= Len(q) /\ SubSeq(q, 1, l) = SubSeq(p, 1, l)
    BY <1>1, <1>2, <1>3, <2>1 DEF Listed, SameFirst
  <2>3. \A k \in 1 .. l : q[k] = p[k]
    <3> SUFFICES ASSUME NEW k \in 1 .. l PROVE q[k] = p[k]
      OBVIOUS
    <3>1. SubSeq(q, 1, l)[k] = q[k] /\ SubSeq(p, 1, l)[k] = p[k]
      BY <1>4, <2>2
    <3> QED
      BY <2>2, <3>1
  <2>4. SubSeq(q, 1, n) = SubSeq(p, 1, n)
    BY <1>4, <2>2, <2>3
  <2> QED
    BY <1>3, <2>1, <2>4 DEF Head1
<1>7. ASSUME NEW m \in 0 .. SharedLen, n <= m
      PROVE  Head1(n) \o SubSeq(Shared, n + 1, m) = Head1(m)
  <2>1. PICK a, b, c : a = SubSeq(p, 1, n) /\ b = SubSeq(SubSeq(p, 1, l), n + 1, m) /\ c = SubSeq(p, 1, m)
    OBVIOUS
  <2>2. m \in Nat /\ m <= l
    BY <1>3, <1>4, <1>7
  <2>3. a \in Seq(T) /\ Len(a) = n /\ \A k \in 1 .. n : a[k] = p[k]
    BY <1>4, <2>1
  <2>4. b \in Seq(T) /\ Len(b) = m - n /\ \A k \in 1 .. m - n : b[k] = p[n + k]
    <3>1. PICK s : s = SubSeq(p, 1, l)
      OBVIOUS
    <3>2. s \in Seq(T) /\ Len(s) = l /\ \A k \in 1 .. l : s[k] = p[k]
      BY <1>4, <3>1
    <3>3. b = SubSeq(s, n + 1, m)
      BY <2>1, <3>1
    <3>4. b \in Seq(T) /\ Len(b) = m - n /\ \A k \in 1 .. m - n : b[k] = s[n + k]
      BY <1>4, <1>7, <2>2, <3>2, <3>3
    <3>5. \A k \in 1 .. m - n : n + k \in 1 .. l
      BY <1>4, <2>2
    <3> QED
      BY <3>2, <3>4, <3>5
  <2>5. c \in Seq(T) /\ Len(c) = m /\ \A k \in 1 .. m : c[k] = p[k]
    BY <1>4, <2>1, <2>2
  <2>6. /\ a \o b \in Seq(T) /\ Len(a \o b) = m
        /\ \A k \in 1 .. n : (a \o b)[k] = a[k]
        /\ \A k \in 1 .. m - n : (a \o b)[n + k] = b[k]
    <3>1. /\ a \o b \in Seq(T) /\ Len(a \o b) = Len(a) + Len(b)
          /\ \A k \in 1 .. Len(a) : (a \o b)[k] = a[k]
          /\ \A k \in 1 .. Len(b) : (a \o b)[Len(a) + k] = b[k]
      <4>1. a \in Seq(T) /\ b \in Seq(T)
        BY ONLY <2>3, <2>4, Zenon
      <4> QED
        BY ONLY <4>1, Joined
    <3>2. Len(a) = n /\ Len(b) = m - n /\ n + (m - n) = m
      BY ONLY <1>4, <2>2, <2>3, <2>4
    <3> QED
      BY ONLY <3>1, <3>2
  <2>7. \A k \in 1 .. m : (a \o b)[k] = c[k]
    <3> SUFFICES ASSUME NEW k \in 1 .. m PROVE (a \o b)[k] = c[k]
      OBVIOUS
    <3>1. CASE k <= n
      <4>1. k \in 1 .. n
        BY <1>4, <2>2, <3>1
      <4> QED
        BY ONLY <2>3, <2>5, <2>6, <4>1, k \in 1 .. m, Zenon
    <3>2. CASE k > n
      <4>1. k - n \in 1 .. m - n /\ n + (k - n) = k
        BY <1>4, <2>2, <3>2
      <4>2. (a \o b)[k] = b[k - n]
        BY ONLY <2>6, <4>1, Zenon
      <4> QED
        BY <2>4, <2>5, <4>1, <4>2
    <3>3. n \in Int /\ k \in Int
      BY <1>4, <2>2
    <3>4. k <= n \/ k > n
      BY ONLY <3>3
    <3> QED
      BY ONLY <3>1, <3>2, <3>4
  <2>8. a \o b = c
    BY <2>5, <2>6, <2>7, SeqEqual
  <2> QED
    BY <1>3, <2>1, <2>8 DEF Head1, Shared
<1>8. SubSeq(Head1(SharedLen), 1, n) = Head1(n)
  <2>1. SubSeq(SubSeq(p, 1, l), 1, n) = SubSeq(p, 1, n)
    BY <1>4
  <2> QED
    BY <1>3, <2>1 DEF Head1
<1> QED
  BY <1>5, <1>6, <1>7, <1>8

LEMMA PrefixInvInit == PrefixInit => PrefixInv
<1> SUFFICES ASSUME PrefixInit PROVE PrefixInv
  OBVIOUS
<1>1. /\ prompts \in PromptLists /\ capacity \in Capacities /\ off = 0 /\ sharing = "start"
      /\ cells = [i \in Indices |-> <<>>]
  BY DEF PrefixInit
<1>2. SharedLen \in Nat /\ 1 \in Indices
  BY <1>1, SharedFacts, PromptsListed DEF Listed
<1>3. 0 \in 0 .. SharedLen
  BY <1>2
<1>4. Head1(0) = <<>>
  BY <1>1, <1>3, Beginnings
<1> QED
  BY <1>1, <1>2, <1>3, <1>4 DEF PrefixInv

LEMMA PrefixInvNext == PrefixInv /\ (PrefixNext \/ UNCHANGED prefixVars) => PrefixInv'
<1> SUFFICES ASSUME PrefixInv, PrefixNext \/ UNCHANGED prefixVars PROVE PrefixInv'
  OBVIOUS
<1>1. prompts' = prompts /\ capacity' = capacity /\ remembers' = remembers
  BY DEF PrefixNext, prefixVars, StartShare, DecodeBatch, DecodeFails, DonorHolds, CopyPrefix, Done
<1>2. PICK l : l = SharedLen
  OBVIOUS
<1>3. SharedLen' = l /\ Shared' = Shared /\ Indices' = Indices /\ \A n : Head1(n)' = Head1(n)
  BY <1>1, <1>2 DEF SharedLen, Shared, Indices, Head1, Shortest, SameFirst
<1>4. /\ prompts \in PromptLists /\ capacity \in Nat \ {0} /\ l \in Nat /\ off \in 0 .. l
      /\ Len(prompts) \in Nat \ {0} /\ Indices = 1 .. Len(prompts) /\ 1 \in Indices
  BY <1>2, SharedFacts, PromptsListed, PrefixAssumption DEF PrefixInv, Listed
<1>5. /\ DOMAIN cells = Indices /\ \A i \in Indices : \E n \in 0 .. l : cells[i] = Head1(n)
  BY <1>2 DEF PrefixInv
<1>6. 0 \in 0 .. l /\ l \in 0 .. l
  BY <1>4
<1>7. \A n \in 0 .. l : Len(Head1(n)) = n
  BY <1>2, <1>4, Beginnings
<1>8. ASSUME NEW i \in Indices, Len(cells[i]) = l PROVE cells[i] = Head1(l)
  BY <1>5, <1>7, <1>8
<1>9. ASSUME StartShare PROVE PrefixInv'
  <2>1. cells' = cells /\ off' = off /\ sharing' \in {"shared", "failed", "decode"} /\ sharing = "start"
        /\ (sharing' = "shared" => l = 0)
    BY <1>2, <1>4, <1>9 DEF StartShare
  <2>2. sharing' = "shared" => \A i \in Indices : cells[i] = Head1(l)
    BY <1>5, <2>1
  <2>3. cells[1] = Head1(IF remembers THEN off ELSE 0)
    BY <2>1 DEF PrefixInv
  <2> QED
    BY <1>1, <1>3, <1>4, <1>5, <2>1, <2>2, <2>3 DEF PrefixInv
<1>10. ASSUME DecodeBatch PROVE PrefixInv'
  <2>1. PICK end : end = Min({off + capacity, l})
    OBVIOUS
  <2>2. end \in 0 .. l /\ off <= end
    <3>1. off + capacity \in Int /\ l \in Int
      BY <1>4
    <3>2. end \in {off + capacity, l} /\ end <= l
      BY ONLY <2>1, <3>1, MinOfTwo
    <3> QED
      BY <1>4, <3>2
  <2>3. /\ sharing = "decode" /\ sharing' = sharing /\ off' = end /\ next' = next
        /\ cells' = IF remembers THEN [cells EXCEPT ![1] = cells[1] \o SubSeq(Shared, off + 1, end)] ELSE cells
    BY <1>2, <1>10, <2>1 DEF DecodeBatch
  <2>4. CASE remembers
    <3>1. cells[1] = Head1(off)
      BY <2>3, <2>4 DEF PrefixInv
    <3>2. Head1(off) \o SubSeq(Shared, off + 1, end) = Head1(end)
      BY <1>2, <1>4, <2>2, Beginnings
    <3>3. cells' = [cells EXCEPT ![1] = Head1(end)]
      BY <2>3, <2>4, <3>1, <3>2
    <3>4. /\ DOMAIN cells' = Indices /\ cells'[1] = Head1(end)
          /\ \A i \in Indices : i # 1 => cells'[i] = cells[i]
      BY <1>4, <1>5, <3>3
    <3>5. \A i \in Indices : \E n \in 0 .. l : cells'[i] = Head1(n)
      BY <1>5, <2>2, <3>4
    <3> QED
      BY <1>1, <1>3, <1>4, <2>2, <2>3, <2>4, <3>4, <3>5 DEF PrefixInv
  <2>5. CASE ~remembers
    <3>1. cells[1] = Head1(0) /\ cells' = cells
      BY <2>3, <2>5 DEF PrefixInv
    <3> QED
      BY <1>1, <1>3, <1>4, <1>5, <2>2, <2>3, <2>5, <3>1 DEF PrefixInv
  <2> QED
    BY <2>4, <2>5
<1>11. ASSUME DecodeFails \/ UNCHANGED prefixVars PROVE PrefixInv'
  <2>1. CASE DecodeFails
    BY <1>1, <1>3, <1>4, <1>5, <2>1 DEF PrefixInv, DecodeFails
  <2>2. CASE UNCHANGED prefixVars
    <3>1. /\ cells' = cells /\ off' = off /\ next' = next /\ sharing' = sharing
      BY <2>2 DEF prefixVars
    <3> QED
      BY <1>1, <1>2, <1>3, <3>1 DEF PrefixInv
  <2> QED
    BY <1>11, <2>1, <2>2
<1>12. ASSUME DonorHolds PROVE PrefixInv'
  <2>1. /\ cells' = cells /\ off' = off /\ next' = 2 /\ sharing' \in {"copy", "failed"}
        /\ (sharing' = "copy" => Len(cells[1]) - 1 = l - 1)
    BY <1>2, <1>12 DEF DonorHolds, PosMax
  <2>2. sharing' = "copy" => cells[1] = Head1(l)
    BY <1>4, <1>5, <1>7, <1>8, <2>1
  <2>3. 2 \in 2 .. Len(prompts) + 1 /\ \A i \in Indices : i < 2 => i = 1
    BY <1>4
  <2> QED
    BY <1>1, <1>3, <1>4, <1>5, <2>1, <2>2, <2>3 DEF PrefixInv
<1>13. ASSUME CopyPrefix PROVE PrefixInv'
  <2>1. PICK x : x = next
    OBVIOUS
  <2>2. /\ sharing = "copy" /\ x \in Indices /\ off' = off /\ x \in 2 .. Len(prompts) + 1
        /\ \A i \in Indices : i < x => cells[i] = Head1(l)
    BY <1>2, <1>13, <2>1 DEF CopyPrefix, PrefixInv
  <2>3. cells[1] = Head1(l)
    BY <1>4, <2>2
  <2>4. PICK v : v = cells'[x]
    OBVIOUS
  <2>5. /\ DOMAIN cells' = Indices /\ \A y \in Indices : y # x => cells'[y] = cells[y]
        /\ \E n \in 0 .. l : v = Head1(n)
    <3>1. CASE cells' = [cells EXCEPT ![x] = SubSeq(cells[1], 1, l)]
      <4>1. SubSeq(Head1(l), 1, l) = Head1(l)
        BY <1>2, <1>4, <1>6, Beginnings
      <4> QED
        BY <1>5, <1>6, <2>2, <2>3, <2>4, <3>1, <4>1
    <3>2. CASE cells' = cells
      BY <1>5, <2>2, <2>4, <3>2
    <3> QED
      BY <1>2, <1>13, <2>1, <3>1, <3>2 DEF CopyPrefix
  <2>6. CASE Len(v) - 1 = l - 1
    <3>1. sharing' = sharing /\ next' = x + 1
      BY <1>2, <1>13, <2>1, <2>4, <2>6 DEF CopyPrefix
    <3>2. v = Head1(l)
      BY <1>4, <1>7, <2>5, <2>6
    <3>3. x + 1 \in 2 .. Len(prompts) + 1 /\ \A i \in Indices : i < x + 1 => i < x \/ i = x
      BY <1>4, <2>2
    <3>4. \A i \in Indices : i < x + 1 => cells'[i] = Head1(l)
      BY <1>5, <2>2, <2>4, <2>5, <3>2, <3>3
    <3>5. DOMAIN cells' = Indices /\ \A i \in Indices : \E n \in 0 .. l : cells'[i] = Head1(n)
      BY <1>5, <2>4, <2>5
    <3> QED
      BY <1>1, <1>3, <1>4, <2>2, <3>1, <3>3, <3>4, <3>5 DEF PrefixInv
  <2>7. CASE Len(v) - 1 # l - 1
    <3>1. sharing' = "failed"
      BY <1>2, <1>13, <2>1, <2>4, <2>7 DEF CopyPrefix
    <3>2. DOMAIN cells' = Indices /\ \A i \in Indices : \E n \in 0 .. l : cells'[i] = Head1(n)
      BY <1>5, <2>4, <2>5
    <3> QED
      BY <1>1, <1>3, <1>4, <2>2, <3>1, <3>2 DEF PrefixInv
  <2> QED
    BY <2>6, <2>7
<1>14. ASSUME Done PROVE PrefixInv'
  <2>1. /\ cells' = cells /\ off' = off /\ sharing' = "shared" /\ sharing = "copy"
        /\ next \notin Indices /\ next \in 2 .. Len(prompts) + 1
        /\ \A i \in Indices : i < next => cells[i] = Head1(l)
    BY <1>2, <1>14 DEF Done, PrefixInv
  <2>2. PICK x : x = next
    OBVIOUS
  <2>3. \A i \in Indices : i < x
    BY <1>4, <2>1, <2>2
  <2>4. \A i \in Indices : cells[i] = Head1(l)
    BY <2>1, <2>2, <2>3
  <2> QED
    BY <1>1, <1>3, <1>4, <1>5, <2>1, <2>4 DEF PrefixInv
<1> QED
  BY <1>9, <1>10, <1>11, <1>12, <1>13, <1>14 DEF PrefixNext

LEMMA PrefixInvSound == PrefixInv => ShareSound
<1> SUFFICES ASSUME PrefixInv PROVE ShareSound
  OBVIOUS
<1>1. PICK T : Listed(T)
  BY PromptsListed DEF PrefixInv
<1>2. PICK l, n : l = SharedLen /\ n = Len(prompts)
  OBVIOUS
<1>3. /\ prompts \in PromptLists /\ l \in Nat /\ n \in Nat \ {0} /\ Indices = 1 .. n
      /\ \A i \in Indices : prompts[i] \in Seq(T) /\ Len(prompts[i]) \in Nat /\ l <= Len(prompts[i])
      /\ \A i \in Indices : prompts[i] # <<>> => l < Len(prompts[i])
      /\ \A m \in 0 .. Shortest - 1 : n > 1 /\ SameFirst(m) => m <= l
  BY <1>1, <1>2, SharedFacts DEF PrefixInv, Listed
<1>4. l \in 0 .. l
  BY <1>3
<1>5. \A i \in Indices : Len(Suffix(i)) = Len(prompts[i]) - l /\ Head1(l) \o Suffix(i) = prompts[i]
  <2> SUFFICES ASSUME NEW i \in Indices
               PROVE  Len(Suffix(i)) = Len(prompts[i]) - l /\ Head1(l) \o Suffix(i) = prompts[i]
    OBVIOUS
  <2>1. PICK q, a, b : q = prompts[i] /\ a = SubSeq(q, 1, l) /\ b = SubSeq(q, l + 1, Len(q))
    OBVIOUS
  <2>2. q \in Seq(T) /\ Len(q) \in Nat /\ l <= Len(q)
    BY <1>3, <2>1
  <2>4. Len(b) = Len(q) - l
    BY ONLY <1>3, <2>1, <2>2, Parted
  <2>7. a \o b = q
    BY ONLY <1>3, <2>1, <2>2, Parted
  <2>8. a = Head1(l)
    BY <1>2, <1>3, <1>4, <2>1, Beginnings
  <2>9. b = Suffix(i)
    BY <1>2, <2>1 DEF Suffix
  <2> QED
    BY <2>1, <2>4, <2>7, <2>8, <2>9
<1>6. TotalLen - Saved = l + Total([i \in Indices |-> Len(Suffix(i))])
  <2>1. PICK v, w : v = [i \in 1 .. n |-> Len(prompts[i])] /\ w = [i \in 1 .. n |-> Len(Suffix(i))]
    OBVIOUS
  <2>2. /\ v \in [1 .. n -> Int] /\ w \in [1 .. n -> Int] /\ l \in Int
        /\ \A k \in 1 .. n : v[k] = w[k] + l
    BY <1>3, <1>5, <2>1
  <2>3. PICK sum : sum = n * l
    OBVIOUS
  <2>4. Total(v) = Total(w) + n * l /\ Total(w) \in Int
    BY <1>3, <2>2, TotalShift, ZenonT(60)
  <2>5. n * l \in Int /\ l * (n - 1) = n * l - l
    BY <1>3
  <2>6. Saved = l * (n - 1) /\ TotalLen = Total(v)
    BY <1>2, <1>3, <2>1 DEF Saved, TotalLen
  <2>7. Total(v) - l * (n - 1) = l + Total(w)
    BY ONLY <1>3, <2>4, <2>5
  <2> QED
    BY <1>3, <2>1, <2>6, <2>7
<1>7. ASSUME sharing = "shared", NEW i \in Indices, prompts[i] # <<>>
      PROVE  cells[i] \o Suffix(i) = prompts[i] /\ Suffix(i) # <<>>
  <2>1. cells[i] = Head1(l)
    BY <1>2, <1>7 DEF PrefixInv
  <2>2. Len(Suffix(i)) # 0
    BY <1>3, <1>5, <1>7
  <2> QED
    BY <1>5, <2>1, <2>2
<1>8. ASSUME NEW i \in Indices PROVE IsPrefix(cells[i], prompts[i])
  <2>1. PICK m \in 0 .. l : cells[i] = Head1(m)
    BY <1>2 DEF PrefixInv
  <2>2. /\ Len(Head1(m)) = m /\ SubSeq(prompts[i], 1, m) = Head1(m)
        /\ SubSeq(prompts[1], 1, m) = Head1(m)
    BY <1>2, <1>3, <2>1, Beginnings DEF Head1
  <2>3. SubSeq(Head1(m), 1, m) = Head1(m)
    <3>1. PICK p : p = prompts[1]
      OBVIOUS
    <3>2. p \in Seq(T) /\ m \in Nat /\ m <= Len(p)
      BY <1>1, <1>3, <2>1, <3>1 DEF Listed
    <3>3. SubSeq(SubSeq(p, 1, m), 1, m) = SubSeq(p, 1, m)
      BY <3>2
    <3> QED
      BY <3>1, <3>3 DEF Head1
  <2>4. m <= Len(prompts[i])
    BY <1>3, <2>1
  <2> QED
    BY <2>1, <2>2, <2>3, <2>4 DEF IsPrefix
<1> QED
  BY <1>2, <1>3, <1>6, <1>7, <1>8 DEF ShareSound

LEMMA PrefixPart ==
  ASSUME [Next]_vars
  PROVE  part' = part /\ (part = "prefix" => PrefixNext \/ UNCHANGED prefixVars)
  BY DEF Next, vars

\* Whatever the prompts and the batches, and whatever the library keeps, ignores or
\* fails: after a share without an error every sequence holds what its prompt begins
\* with and has a token left to decode, what was saved is what need not be decoded
\* again, no longer prefix would have done, and no sequence ever holds a token of
\* another prompt (prefix.go:58-63, 79-82, 137-142).
THEOREM SharedAreOwn == Spec => []SharePromise
<1> DEFINE I == part = "prefix" => PrefixInv
<1>1. Init => I
  <2> SUFFICES ASSUME Init, part = "prefix" PROVE PrefixInv
    OBVIOUS
  <2>1. PrefixInit
    BY DEF Init
  <2> QED
    BY <2>1, PrefixInvInit
<1>2. I /\ [Next]_vars => I'
  BY PrefixPart, PrefixInvNext
<1>3. I => SharePromise
  BY PrefixInvSound DEF SharePromise
<1> QED
  BY <1>1, <1>2, <1>3, PTL DEF Spec

---------------------------------------------------------------------------
(* The sampler: narrowed chains and the scan.                               *)

\* Some of the numbers up to n have a best one.
LEMMA BestOf ==
  ASSUME NEW n \in Nat, NEW f \in [1 .. n -> Int], NEW S \in SUBSET (1 .. n), S # {}
  PROVE  \E t \in S : \A u \in S : f[u] <= f[t]
<1> DEFINE Has(X) == \E t \in X : \A u \in X : f[u] <= f[t]
           A == {k \in Nat : \A X \in SUBSET (1 .. n) : X # {} /\ (\A x \in X : x <= k) => Has(X)}
<1>1. 0 \in A
  <2>1. ASSUME NEW X \in SUBSET (1 .. n), X # {}, \A x \in X : x <= 0 PROVE FALSE
    <3>1. PICK x \in X : x \in 1 .. n
      BY <2>1
    <3>2. x \in 1 .. n /\ x <= 0
      BY <2>1, <3>1
    <3> QED
      BY ONLY <3>2
  <2> HIDE DEF Has
  <2> QED
    BY <2>1
<1>2. ASSUME NEW k \in Nat, k \in A PROVE k + 1 \in A
  <2> SUFFICES ASSUME NEW X \in SUBSET (1 .. n), X # {}, \A x \in X : x <= k + 1 PROVE Has(X)
    OBVIOUS
  <2>1. \A Y \in SUBSET (1 .. n) : Y # {} /\ (\A x \in Y : x <= k) => Has(Y)
    BY <1>2
  <2>2. CASE k + 1 \notin X
    <3>1. \A x \in X : x <= k
      BY <2>2
    <3> HIDE DEF Has
    <3> QED
      BY <2>1, <3>1
  <2>3. CASE X = {k + 1}
    BY <2>3
  <2>4. CASE k + 1 \in X /\ X # {k + 1}
    <3>1. PICK Y : Y = X \ {k + 1}
      OBVIOUS
    <3>2. Y \in SUBSET (1 .. n) /\ Y # {} /\ \A x \in Y : x <= k
      BY <2>4, <3>1
    <3>3. Has(Y)
      <4> HIDE DEF Has
      <4> QED
        BY <2>1, <3>2
    <3>4. PICK t \in Y : \A u \in Y : f[u] <= f[t]
      BY <3>3
    <3>5. PICK z : z = k + 1
      OBVIOUS
    <3>6. \A x \in X : x = z \/ x \in Y
      BY <3>1, <3>5
    <3>7. t \in X /\ z \in X /\ f[t] \in Int /\ f[z] \in Int /\ \A x \in X : f[x] \in Int
      BY <2>4, <3>1, <3>4, <3>5
    <3>8. CASE f[z] <= f[t]
      <4>1. \A x \in X : f[x] <= f[t]
        BY <3>4, <3>6, <3>8
      <4> QED
        BY <3>7, <4>1
    <3>9. CASE f[t] <= f[z]
      <4>1. PICK a, b : a = f[t] /\ b = f[z]
        OBVIOUS
      <4>2. a \in Int /\ b \in Int /\ a <= b
        BY <3>7, <3>9, <4>1
      <4>3. ASSUME NEW x \in X PROVE f[x] <= f[z]
        <5>1. PICK c : c = f[x]
          OBVIOUS
        <5>2. c \in Int /\ (c = b \/ c <= a)
          BY <3>4, <3>6, <3>7, <4>1, <5>1
        <5>3. c <= b
          BY ONLY <4>2, <5>2
        <5> QED
          BY <4>1, <5>1, <5>3
      <4> QED
        BY <3>7, <4>3
    <3> QED
      BY <3>7, <3>8, <3>9
  <2> QED
    BY <2>2, <2>3, <2>4
<1>3. n \in A
  <2> HIDE DEF A
  <2> QED
    BY <1>1, <1>2, Induct
<1> QED
  BY <1>3

---------------------------------------------------------------------------
(* Narrowing to what lies above a cutoff.                                    *)

\* l are the logits, w what is left of them, P the tokens that were penalised.
Lowered(n, l, w, P) ==
  /\ n \in Nat /\ l \in [1 .. n -> Int] /\ w \in [1 .. n -> Int] /\ P \in SUBSET (1 .. n)
  /\ \A t \in 1 .. n : w[t] <= l[t] /\ (t \notin P => w[t] = l[t])

Higher(S, w, t) == {u \in S : w[u] > w[t]}
TopOf(S, w, K) == {t \in S : Cardinality(Higher(S, w, t)) < K}

\* The greatest of some numbers between two.
LEMMA MaxOfRange ==
  ASSUME NEW lo \in Int, NEW hi \in Int, NEW E \in SUBSET (lo .. hi), E # {}
  PROVE  Max(E) \in E
<1>1. PICK D : D = {e - lo : e \in E}
  OBVIOUS
<1>2. PICK n : n = hi - lo
  OBVIOUS
<1>3. PICK e0 : e0 \in E
  OBVIOUS
<1>4. n \in Nat /\ D \in SUBSET (0 .. n) /\ D # {}
  BY <1>1, <1>2, <1>3
<1>5. PICK d : d \in D /\ \A x \in D : x <= d
  BY <1>4, MaxOfSome
<1>6. PICK m \in E : d = m - lo
  BY <1>1, <1>5
<1>7. \A y \in E : y <= m
  <2> SUFFICES ASSUME NEW y \in E PROVE y <= m
    OBVIOUS
  <2>1. y - lo <= m - lo
    BY <1>1, <1>5, <1>6
  <2>2. y \in Int /\ m \in Int /\ lo \in Int
    OBVIOUS
  <2> QED
    BY ONLY <2>1, <2>2
<1>8. \E x \in E : \A y \in E : x >= y
  <2>1. \A y \in E : y \in Int /\ m \in Int
    OBVIOUS
  <2> QED
    BY <1>7, <2>1
<1> QED
  BY <1>8 DEF Max

LEMMA HigherFinite ==
  ASSUME NEW n \in Nat, NEW S \in SUBSET (1 .. n), NEW w, NEW t
  PROVE  /\ IsFiniteSet(S) /\ IsFiniteSet(Higher(S, w, t))
         /\ Cardinality(S) \in Nat /\ Cardinality(Higher(S, w, t)) \in Nat
<1>1. IsFiniteSet(1 .. n)
  BY FS_Interval
<1>2. IsFiniteSet(S)
  BY <1>1, FS_Subset
<1>3. Higher(S, w, t) \in SUBSET S
  BY DEF Higher
<1>4. IsFiniteSet(Higher(S, w, t))
  BY <1>2, <1>3, FS_Subset
<1> QED
  BY <1>2, <1>4, FS_CardinalityType

LEMMA Narrowing ==
  ASSUME NEW n, NEW l, NEW w, NEW P, Lowered(n, l, w, P),
         NEW c \in Int, NEW K \in Nat,
         NEW C, C = {i \in 1 .. n : l[i] >= c}, Cardinality(C \ P) >= K
  PROVE  TopOf(C, w, K) = TopOf(1 .. n, w, K)
<1>1. PICK V : V = 1 .. n
  OBVIOUS
<1>2. /\ n \in Nat /\ C \in SUBSET V /\ V \in SUBSET (1 .. n) /\ C \in SUBSET (1 .. n)
      /\ \A t \in V : l[t] \in Int /\ w[t] \in Int /\ w[t] <= l[t] /\ (t \notin P => w[t] = l[t])
      /\ \A t \in V : t \in C <=> l[t] >= c
  BY <1>1 DEF Lowered
<1>3. IsFiniteSet(C \ P) /\ Cardinality(C \ P) \in Nat
  <2>1. C \ P \in SUBSET (1 .. n)
    BY <1>2
  <2> QED
    BY <1>2, <2>1, HigherFinite
<1>4. ASSUME NEW S \in SUBSET V, C \subseteq S, NEW t \in V, w[t] < c
      PROVE  ~(Cardinality(Higher(S, w, t)) < K)
  <2>1. C \ P \in SUBSET Higher(S, w, t)
    <3> SUFFICES ASSUME NEW u \in C \ P PROVE u \in S /\ w[u] > w[t]
      BY DEF Higher
    <3>1. u \in V /\ w[u] = l[u] /\ l[u] >= c
      BY <1>2
    <3> QED
      BY <1>2, <1>4, <3>1
  <2>2. IsFiniteSet(Higher(S, w, t)) /\ Cardinality(Higher(S, w, t)) \in Nat
    BY <1>1, <1>2, HigherFinite
  <2>3. Cardinality(C \ P) <= Cardinality(Higher(S, w, t))
    BY <2>1, <2>2, FS_Subset
  <2> QED
    BY <1>3, <2>2, <2>3
<1>5. ASSUME NEW t \in C, w[t] >= c PROVE Higher(V, w, t) = Higher(C, w, t)
  <2>1. ASSUME NEW u \in V, w[u] > w[t] PROVE u \in C
    BY <1>2, <1>5, <2>1
  <2> QED
    BY <1>2, <2>1 DEF Higher
<1>6. ASSUME NEW t \in TopOf(C, w, K) PROVE t \in TopOf(V, w, K)
  <2>1. t \in C /\ t \in V /\ Cardinality(Higher(C, w, t)) < K
    BY <1>2, <1>6 DEF TopOf
  <2>2. ~(w[t] < c)
    BY <1>2, <1>4, <2>1
  <2>3. w[t] >= c
    BY <1>2, <2>1, <2>2
  <2> QED
    BY <1>5, <2>1, <2>3 DEF TopOf
<1>7. ASSUME NEW t \in TopOf(V, w, K) PROVE t \in TopOf(C, w, K)
  <2>1. t \in V /\ Cardinality(Higher(V, w, t)) < K
    BY <1>7 DEF TopOf
  <2>2. ~(w[t] < c)
    <3>1. V \in SUBSET V /\ C \subseteq V
      BY <1>2
    <3> QED
      BY <1>4, <2>1, <3>1
  <2>3. w[t] >= c /\ t \in C
    BY <1>2, <2>1, <2>2
  <2> QED
    BY <1>5, <2>1, <2>3 DEF TopOf
<1> QED
  BY <1>1, <1>6, <1>7

---------------------------------------------------------------------------
(* What a chain draws from.                                                  *)

\* What the penalties leave of the logits.
Values(logits) == [t \in Vocab |-> Penalised(t, logits[t])]

\* The tokens they touch.
Repeated == {t \in Vocab : Penalises /\ Count(t) > 0}

\* No more tokens are remembered than the window is long.
SamplerInv ==
  /\ params \in ParamSets /\ window \in Seq(Vocab)
  /\ window # <<>> => Len(window) <= params.lastN

LEMMA ParamFacts ==
  ASSUME params \in ParamSets
  PROVE  /\ params.temp \in Int /\ params.topK \in Int /\ params.minKeep \in Int /\ params.lastN \in Int
         /\ params.repeat \in Nat \ {0} /\ params.freq \in Int /\ params.presence \in Int
         /\ params.grammar \in BOOLEAN
         /\ NVocab \in Nat \ {0} /\ Slack \in Nat /\ Lo \in Int /\ Hi \in Int /\ Margin \in Int
         /\ Vocab = 1 .. NVocab /\ Vocab # {}
<1>1. PICK p : p = params
  OBVIOUS
<1>2. p \in ParamSets
  BY <1>1
<1>3. /\ p.temp \in Int /\ p.topK \in Int /\ p.minKeep \in Int /\ p.lastN \in Int
      /\ p.repeat \in Nat \ {0} /\ p.freq \in Int /\ p.presence \in Int /\ p.grammar \in BOOLEAN
  BY <1>2, SamplerAssumption
<1>4. /\ NVocab \in Nat \ {0} /\ Slack \in Nat /\ Lo \in Int /\ Hi \in Int /\ Margin \in Int
      /\ Vocab = 1 .. NVocab
  BY SamplerAssumption DEF Vocab
<1>5. 1 \in Vocab
  BY <1>4
<1> QED
  BY <1>1, <1>3, <1>4, <1>5

LEMMA Quotient ==
  ASSUME NEW l \in Int, NEW r \in Nat \ {0}
  PROVE  /\ l \div r \in Int /\ l * r \in Int
         /\ l > 0 => l \div r <= l
         /\ l <= 0 => l * r <= l
<1>1. l \div r \in Int /\ l * r \in Int
  OBVIOUS
<1>2. ASSUME l > 0 PROVE l \div r <= l
  <2>1. PICK q : q = l \div r
    OBVIOUS
  <2>2. q \in Int /\ r * q <= l
    BY <2>1
  <2>3. ASSUME q > l PROVE FALSE
    <3>1. r * q >= q
      BY <1>2, <2>2, <2>3
    <3> QED
      BY <2>2, <2>3, <3>1
  <2> QED
    BY <2>1, <2>2, <2>3
<1>3. ASSUME l <= 0 PROVE l * r <= l
  BY <1>3
<1> QED
  BY <1>1, <1>2, <1>3

LEMMA CountFacts ==
  ASSUME window \in Seq(Vocab)
  PROVE  \A t : Count(t) \in Nat /\ (Count(t) > 0 => \E i \in 1 .. Len(window) : window[i] = t)
<1> SUFFICES ASSUME NEW t
             PROVE  Count(t) \in Nat /\ (Count(t) > 0 => \E i \in 1 .. Len(window) : window[i] = t)
  OBVIOUS
<1>1. PICK n, A : n = Len(window) /\ A = {i \in DOMAIN window : window[i] = t}
  OBVIOUS
<1>2. n \in Nat /\ DOMAIN window = 1 .. n /\ A \in SUBSET (1 .. n)
  BY <1>1
<1>3. IsFiniteSet(A)
  <2>1. IsFiniteSet(1 .. n)
    BY <1>2, FS_Interval
  <2> QED
    BY <1>2, <2>1, FS_Subset
<1>4. Cardinality(A) \in Nat /\ (A = {} => Cardinality(A) = 0)
  BY <1>3, FS_CardinalityType, FS_EmptySet
<1>5. Count(t) = Cardinality(A)
  BY <1>1 DEF Count
<1>6. ASSUME Count(t) > 0 PROVE \E i \in 1 .. Len(window) : window[i] = t
  <2>1. A # {}
    BY <1>4, <1>5, <1>6
  <2> QED
    BY <1>1, <1>2, <2>1
<1> QED
  BY <1>4, <1>5, <1>6

LEMMA ValueFacts ==
  ASSUME params \in ParamSets, window \in Seq(Vocab), NEW logits \in [Vocab -> Int]
  PROVE  /\ Values(logits) \in [Vocab -> Int]
         /\ \A t \in Vocab : Values(logits)[t] = Penalised(t, logits[t])
         /\ \A t \in Vocab : t \notin Repeated => Values(logits)[t] = logits[t]
         /\ Lowering => \A t \in Vocab : Values(logits)[t] <= logits[t]
<1>1. ASSUME NEW t \in Vocab
      PROVE  /\ Penalised(t, logits[t]) \in Int
             /\ t \notin Repeated => Penalised(t, logits[t]) = logits[t]
             /\ Lowering => Penalised(t, logits[t]) <= logits[t]
  <2>1. PICK l, n, r, f, p : l = logits[t] /\ n = Count(t) /\ r = params.repeat /\ f = params.freq /\ p = params.presence
    OBVIOUS
  <2>2. l \in Int /\ n \in Nat /\ r \in Nat \ {0} /\ f \in Int /\ p \in Int
    BY <2>1, ParamFacts, CountFacts
  <2>3. CASE ~(Penalises /\ n > 0)
    <3>1. Penalised(t, l) = l
      BY ONLY <2>1, <2>3, Zenon DEF Penalised
    <3>2. l <= l
      BY ONLY <2>2
    <3> QED
      BY ONLY <2>1, <2>2, <3>1, <3>2, Zenon
  <2>4. CASE Penalises /\ n > 0
    <3>1. t \in Repeated
      BY <2>1, <2>4 DEF Repeated
    <3>2. PICK m : m = IF l > 0 THEN l \div r ELSE l * r
      OBVIOUS
    <3>3. m \in Int /\ m <= l
      <4>1. /\ l \div r \in Int /\ l * r \in Int
            /\ l > 0 => l \div r <= l
            /\ l <= 0 => l * r <= l
        BY ONLY <2>2, Quotient, Zenon
      <4>2. PICK v, z : v = l \div r /\ z = l * r
        OBVIOUS
      <4>3. m = IF l > 0 THEN v ELSE z
        BY ONLY <3>2, <4>2
      <4>4. v \in Int /\ z \in Int /\ (l > 0 => v <= l) /\ (l <= 0 => z <= l)
        BY ONLY <4>1, <4>2, Zenon
      <4>5. l \in Int
        BY ONLY <2>2
      <4> QED
        BY ONLY <4>3, <4>4, <4>5
    <3>4. Penalised(t, logits[t]) = m - n * f - p
      BY <2>1, <2>4, <3>2 DEF Penalised
    <3>5. n * f \in Int /\ (f >= 0 => n * f >= 0)
      BY <2>2
    <3>6. Lowering => f >= 0 /\ p >= 0
      BY <2>1 DEF Lowering
    <3>7. PICK y : y = n * f
      OBVIOUS
    <3> QED
      BY <2>1, <2>2, <3>1, <3>3, <3>4, <3>5, <3>6, <3>7, SMTT(60)
  <2> QED
    BY <2>3, <2>4
<1> QED
  BY <1>1 DEF Values

\* Where something may be drawn from.
Valid(mask, S) == IF params.grammar /\ mask \cap S # {} THEN mask \cap S ELSE S

LEMMA PoolFacts ==
  ASSUME params \in ParamSets, window \in Seq(Vocab), NEW logits \in [Vocab -> Int],
         NEW mask, NEW S \in SUBSET Vocab, S # {}
  PROVE  /\ Pool(logits, mask, S) \subseteq Valid(mask, S)
         /\ params.temp <= 0 =>
              Pool(logits, mask, S) =
                {Min({t \in Valid(mask, S) : \A u \in Valid(mask, S) : Values(logits)[u] <= Values(logits)[t]})}
         /\ params.temp > 0 /\ params.topK > 0 =>
              Pool(logits, mask, S) = TopOf(Valid(mask, S), Values(logits), params.topK)
<1>1. PICK G, w : G = Valid(mask, S) /\ w = Values(logits)
  OBVIOUS
<1>2. G \in SUBSET Vocab /\ G # {} /\ Vocab = 1 .. NVocab /\ NVocab \in Nat
  BY <1>1, ParamFacts DEF Valid
<1>3. w \in [Vocab -> Int] /\ \A t \in Vocab : w[t] = Penalised(t, logits[t])
  BY <1>1, ValueFacts
<1>4. \A t \in G : {u \in G : Penalised(u, logits[u]) > Penalised(t, logits[t])} = Higher(G, w, t)
  BY <1>2, <1>3 DEF Higher
<1>5. ASSUME NEW t \in G PROVE Higher(G, w, t) = {} <=> \A u \in G : w[u] <= w[t]
  <2>1. \A u \in G : w[u] \in Int /\ w[t] \in Int
    BY <1>2, <1>3
  <2>2. \A u \in G : w[u] <= w[t] <=> ~(w[u] > w[t])
    BY <2>1
  <2>3. \A u \in G : u \in Higher(G, w, t) <=> w[u] > w[t]
    BY DEF Higher
  <2>4. Higher(G, w, t) \subseteq G
    BY DEF Higher
  <2> QED
    BY <2>2, <2>3, <2>4
<1>6. PICK B : B = {t \in G : \A u \in G : w[u] <= w[t]}
  OBVIOUS
<1>14. PICK H : H = {t \in G : Higher(G, w, t) = {}}
  OBVIOUS
<1>7. Pool(logits, mask, S) =
        IF params.temp <= 0 THEN {Min(H)}
        ELSE IF params.topK > 0 THEN TopOf(G, w, params.topK) ELSE G
  <2>1. {t \in G : {u \in G : Penalised(u, logits[u]) > Penalised(t, logits[t])} = {}} = {t \in G : Higher(G, w, t) = {}}
    BY <1>4
  <2>2. {t \in G : Cardinality({u \in G : Penalised(u, logits[u]) > Penalised(t, logits[t])}) < params.topK}
          = TopOf(G, w, params.topK)
    BY <1>4 DEF TopOf
  <2> QED
    BY <1>1, <1>14, <2>1, <2>2 DEF Pool, Valid
<1>8. H = B
  BY <1>5, <1>6, <1>14
<1>9. Min(B) \in B
  <2>1. B # {}
    BY <1>2, <1>3, <1>6, BestOf
  <2>2. B \in SUBSET Nat
    <3>1. B \in SUBSET (1 .. NVocab)
      BY <1>2, <1>6
    <3> QED
      BY <1>2, <3>1
  <2> QED
    BY ONLY <2>1, <2>2, MinOfSome
<1>10. params.temp \in Int /\ params.topK \in Int
  BY ParamFacts
<1>11. TopOf(G, w, params.topK) \subseteq G /\ B \subseteq G
  BY <1>6 DEF TopOf
<1>12. CASE params.temp <= 0
  <2>1. Pool(logits, mask, S) = {Min(B)}
    BY <1>7, <1>8, <1>12
  <2>2. ~(params.temp > 0)
    BY <1>10, <1>12
  <2> QED
    <3>1. Min(B) \in G
      BY <1>9, <1>11
    <3>2. {t \in Valid(mask, S) : \A u \in Valid(mask, S) : Values(logits)[u] <= Values(logits)[t]} = B
      BY <1>1, <1>6
    <3> HIDE DEF Min
    <3> QED
      BY <1>1, <1>12, <2>1, <2>2, <3>1, <3>2
<1>13. CASE ~(params.temp <= 0)
  BY <1>1, <1>7, <1>10, <1>11, <1>13
<1> QED
  BY <1>12, <1>13

\* The scan takes what a greedy chain takes of the whole vocabulary.
LEMMA ScanIsGreedy ==
  ASSUME params \in ParamSets, window \in Seq(Vocab), NEW logits \in [Vocab -> Int], NEW mask,
         GreedyDirect
  PROVE  {Scan(logits)} = Pool(logits, mask, Vocab)
<1>1. params.temp <= 0 /\ ~params.grammar /\ Repeated = {}
  BY DEF GreedyDirect, Repeated
<1>2. Valid(mask, Vocab) = Vocab
  BY <1>1 DEF Valid
<1>3. \A t \in Vocab : Values(logits)[t] = logits[t]
  BY <1>1, ValueFacts
<1>4. Vocab \in SUBSET Vocab /\ Vocab # {}
  BY ParamFacts
<1>5. Pool(logits, mask, Vocab) =
        {Min({t \in Vocab : \A u \in Vocab : Values(logits)[u] <= Values(logits)[t]})}
  <2>1. Pool(logits, mask, Vocab) =
          {Min({t \in Valid(mask, Vocab) : \A u \in Valid(mask, Vocab) : Values(logits)[u] <= Values(logits)[t]})}
    BY <1>1, <1>4, PoolFacts
  <2> QED
    BY ONLY <1>2, <2>1
<1>6. {t \in Vocab : \A u \in Vocab : Values(logits)[u] <= Values(logits)[t]}
        = {t \in Vocab : \A u \in Vocab : logits[u] <= logits[t]}
  BY <1>3
<1> QED
  BY <1>5, <1>6 DEF Scan

\* At most as many tokens are penalised as the window holds.
LEMMA FewRepeated ==
  ASSUME SamplerInv
  PROVE  /\ Repeated \in SUBSET Vocab /\ IsFiniteSet(Repeated) /\ Cardinality(Repeated) \in Nat
         /\ Repeated # {} => Cardinality(Repeated) <= params.lastN
<1>1. params \in ParamSets /\ window \in Seq(Vocab)
  BY DEF SamplerInv
<1>2. PICK n : n = Len(window)
  OBVIOUS
<1>3. n \in Nat /\ Repeated \in SUBSET Vocab /\ Vocab = 1 .. NVocab /\ NVocab \in Nat
  BY <1>1, <1>2, ParamFacts DEF Repeated
<1>4. IsFiniteSet(Repeated) /\ Cardinality(Repeated) \in Nat
  BY <1>3, HigherFinite
<1>5. \A t \in Repeated : \E i \in 1 .. n : window[i] = t
  BY <1>1, <1>2, CountFacts DEF Repeated
<1>6. ASSUME Repeated # {} PROVE Cardinality(Repeated) <= params.lastN
  <2>1. PICK I : I = {i \in 1 .. n : window[i] \in Repeated}
    OBVIOUS
  <2>2. PICK f : f = [i \in I |-> window[i]]
    OBVIOUS
  <2>3. f \in Surjection(I, Repeated)
    BY <1>5, <2>1, <2>2 DEF Surjection
  <2>4. IsFiniteSet(1 .. n) /\ Cardinality(1 .. n) = n
    BY <1>3, FS_Interval
  <2>5. IsFiniteSet(I) /\ Cardinality(I) <= n
    BY <2>1, <2>4, FS_Subset
  <2>6. Cardinality(Repeated) <= Cardinality(I)
    BY <2>3, <2>5, FS_Surjection
  <2>7. window # <<>>
    BY <1>2, <1>5, <1>6
  <2>8. n <= params.lastN /\ params.lastN \in Int
    BY <1>1, <1>2, <2>7, ParamFacts DEF SamplerInv
  <2>9. Cardinality(I) \in Nat
    BY <2>5, FS_CardinalityType
  <2> QED
    BY <1>3, <1>4, <2>5, <2>6, <2>8, <2>9
<1> QED
  BY <1>3, <1>4, <1>6

\* The candidates are everything, or what lies above some number and is enough.
LEMMA CandidateFacts ==
  ASSUME params \in ParamSets, NEW logits \in [Vocab -> Int]
  PROVE  \/ Candidates(logits) = Vocab
         \/ /\ TruncN > 0
            /\ \E c \in Int : /\ Candidates(logits) = {i \in 1 .. NVocab : logits[i] >= c}
                              /\ Cardinality(Candidates(logits)) >= TruncN
            /\ Candidates(logits) # {}
<1>1. SUFFICES ASSUME SelectCandidates(logits) # {}
               PROVE  /\ TruncN > 0
                      /\ \E c \in Int : /\ SelectCandidates(logits) = {i \in 1 .. NVocab : logits[i] >= c}
                                        /\ Cardinality(SelectCandidates(logits)) >= TruncN
  BY DEF Candidates
<1>2. PICK n, C : n = TruncN /\ C = SelectCandidates(logits)
  OBVIOUS
<1>3. n \in Int
  <2>1. /\ params.topK + params.lastN + Slack \in Int /\ params.minKeep \in Int
    <3>1. PICK x, y, z : x = params.topK /\ y = params.lastN /\ z = Slack
      OBVIOUS
    <3>2. x \in Int /\ y \in Int /\ z \in Nat /\ params.minKeep \in Int
      BY <3>1, ParamFacts, Zenon
    <3>3. (x + y) + z \in Int
      BY ONLY <3>2
    <3> QED
      BY ONLY <3>1, <3>2, <3>3, Zenon
  <2>2. PICK m : m = Max({params.topK + params.lastN + Slack, params.minKeep})
    OBVIOUS
  <2>3. m \in Int
    BY <2>1, <2>2, MaxOfTwo
  <2> QED
    BY <1>2, <2>2, <2>3 DEF TruncN
<1>4. ~(n <= 0)
  BY <1>1, <1>2 DEF SelectCandidates
<1>5. \E s : C = Above(logits, CutoffFor(logits, s))
             /\ Cardinality(Above(logits, CutoffFor(logits, s))) >= n
  BY <1>1, <1>2 DEF SelectCandidates
<1>6. PICK s : C = Above(logits, CutoffFor(logits, s)) /\ Cardinality(C) >= n
  BY <1>5
<1>7. CutoffFor(logits, s) = {} \/ \E c \in Int : CutoffFor(logits, s) = {c}
  <2>1. PICK E : /\ E \in SUBSET (Lo .. Hi)
                 /\ CutoffFor(logits, s) = (IF E = {} THEN {} ELSE {Max({Lo, Max(E) - Margin})})
    <3>1. PICK E : E = {b \in Lo .. Hi :
              Cardinality({i \in {i \in Vocab : (i - 1) % s = 0 /\ logits[i] >= Lo} : Capped(logits[i]) >= b})
                >= Max({1, TruncN \div s})}
      OBVIOUS
    <3>2. CutoffFor(logits, s) = (IF E = {} THEN {} ELSE {Max({Lo, Max(E) - Margin})})
      BY Zenon, <3>1 DEF CutoffFor
    <3>3. E \in SUBSET (Lo .. Hi)
      BY <3>1
    <3> QED
      BY <3>2, <3>3
  <2>2. PICK m : m = Max(E)
    OBVIOUS
  <2>3. CASE E = {}
    BY <2>1, <2>3
  <2>4. CASE E # {}
    <3>1. Lo \in Int /\ Hi \in Int /\ Margin \in Int
      BY ParamFacts
    <3>2. m \in E
      BY ONLY <2>1, <2>2, <2>4, <3>1, MaxOfRange
    <3>3. m \in Int
      BY <2>1, <3>1, <3>2
    <3>4. m - Margin \in Int
      BY <3>1, <3>3
    <3>5. PICK x : x = Max({Lo, m - Margin})
      OBVIOUS
    <3>6. x \in {Lo, m - Margin}
      BY ONLY <3>1, <3>4, <3>5, MaxOfTwo
    <3>7. CutoffFor(logits, s) = {x} /\ x \in Int
      BY <2>1, <2>2, <2>4, <3>1, <3>4, <3>5, <3>6
    <3> QED
      BY <3>7
  <2> QED
    BY <2>3, <2>4
<1>8. CutoffFor(logits, s) # {}
  <2>1. CutoffFor(logits, s) = {} => C = {}
    BY <1>6 DEF Above
  <2> QED
    BY <1>1, <1>2, <2>1
<1>9. PICK c \in Int : CutoffFor(logits, s) = {c}
  BY <1>7, <1>8
<1>10. C = {i \in 1 .. NVocab : logits[i] >= c}
  BY <1>6, <1>9 DEF Above, Vocab
<1>11. n > 0 /\ C = {i \in 1 .. NVocab : logits[i] >= c} /\ Cardinality(C) >= n
  BY <1>3, <1>4, <1>6, <1>10
<1> HIDE DEF Above, CutoffFor
<1>12. \E x \in Int : C = {i \in 1 .. NVocab : logits[i] >= x} /\ Cardinality(C) >= n
  BY ONLY <1>9, <1>11
<1> QED
  BY ONLY <1>2, <1>11, <1>12

\* What is kept above the cutoff has enough tokens that no penalty touched.
LEMMA EnoughUntouched ==
  ASSUME SamplerInv, WindowCounts, TruncN > 0, NEW C \in SUBSET Vocab, Cardinality(C) >= TruncN
  PROVE  params.temp > 0 /\ params.topK > 0 /\ Cardinality(C \ Repeated) >= params.topK
<1>1. params \in ParamSets
  BY DEF SamplerInv
<1>2. PICK k, l, q, x : k = params.topK /\ l = params.lastN /\ q = params.minKeep /\ x = k + l + Slack
  OBVIOUS
<1>3. k \in Int /\ l \in Int /\ q \in Int /\ Slack \in Nat /\ x \in Int
  BY <1>1, <1>2, ParamFacts
<1>4. PICK n : n = Max({x, q})
  OBVIOUS
<1>5. n \in Int /\ n >= x
  <2>1. n \in {x, q} /\ n >= x
    BY ONLY <1>3, <1>4, MaxOfTwo
  <2> QED
    BY <1>3, <2>1
<1>6. TruncN = IF params.temp > 0 /\ params.topK > 0 /\ n < NVocab THEN n ELSE 0
  BY <1>2, <1>4 DEF TruncN
<1>7. params.temp > 0 /\ params.topK > 0 /\ TruncN = n
  BY <1>6
<1>8. IsFiniteSet(C) /\ Cardinality(C) \in Nat /\ Cardinality(C \ Repeated) \in Nat
  <2>1. C \in SUBSET (1 .. NVocab) /\ C \ Repeated \in SUBSET (1 .. NVocab) /\ NVocab \in Nat
    BY <1>1, ParamFacts
  <2> QED
    BY <2>1, HigherFinite
<1>9. PICK a, b, r : a = Cardinality(C) /\ b = Cardinality(C \ Repeated) /\ r = Cardinality(C \cap Repeated)
  OBVIOUS
<1>10. b = a - r /\ r \in Nat /\ r <= Cardinality(Repeated)
  <2>1. b = a - r
    BY <1>8, <1>9, FS_Difference
  <2>2. C \cap Repeated \in SUBSET Repeated
    OBVIOUS
  <2>3. IsFiniteSet(C \cap Repeated) /\ r <= Cardinality(Repeated)
    BY <1>9, <2>2, FewRepeated, FS_Subset
  <2> QED
    BY <1>9, <2>1, <2>3, FS_CardinalityType
<1>11. CASE Repeated = {}
  <2>1. r = 0
    BY <1>9, <1>11, FS_EmptySet
  <2>2. l + Slack >= 0
    BY <1>2 DEF WindowCounts
  <2>3. a >= n
    BY <1>7, <1>9
  <2>4. b >= k
    BY <1>2, <1>3, <1>5, <1>8, <1>9, <1>10, <2>1, <2>2, <2>3
  <2> QED
    BY <1>2, <1>7, <1>9, <2>4
<1>12. CASE Repeated # {}
  <2>1. r <= l
    <3>1. Cardinality(Repeated) <= l /\ Cardinality(Repeated) \in Nat
      BY <1>2, <1>12, FewRepeated
    <3> QED
      BY <1>3, <1>10, <3>1
  <2>2. a >= n
    BY <1>7, <1>9
  <2>3. b >= k
    BY <1>2, <1>3, <1>5, <1>8, <1>9, <1>10, <2>1, <2>2
  <2> QED
    BY <1>2, <1>7, <1>9, <2>3
<1> QED
  BY <1>11, <1>12

\* Narrowed or not, a chain without a grammar draws from the same.
LEMMA NarrowedIsWhole ==
  ASSUME SamplerInv, Lowering, WindowCounts, ~params.grammar, NEW mask, NEW logits \in [Vocab -> Int]
  PROVE  Pool(logits, mask, Candidates(logits)) = Pool(logits, mask, Vocab)
<1>1. params \in ParamSets /\ window \in Seq(Vocab)
  BY DEF SamplerInv
<1> SUFFICES ASSUME Candidates(logits) # Vocab
             PROVE  Pool(logits, mask, Candidates(logits)) = Pool(logits, mask, Vocab)
  OBVIOUS
<1>2. PICK C, w, n : C = Candidates(logits) /\ w = Values(logits) /\ n = NVocab
  OBVIOUS
<1>3. /\ TruncN > 0 /\ C # {}
      /\ \E c \in Int : C = {i \in 1 .. n : logits[i] >= c} /\ Cardinality(C) >= TruncN
  BY <1>1, <1>2, CandidateFacts
<1>4. PICK c \in Int : C = {i \in 1 .. n : logits[i] >= c} /\ Cardinality(C) >= TruncN
  BY <1>3
<1>5. Vocab = 1 .. n /\ n \in Nat /\ C \in SUBSET Vocab /\ Vocab # {} /\ Vocab \in SUBSET Vocab
  BY <1>1, <1>2, <1>4, ParamFacts
<1>6. params.temp > 0 /\ params.topK > 0 /\ Cardinality(C \ Repeated) >= params.topK
  BY <1>3, <1>4, <1>5, EnoughUntouched
<1>7. PICK k : k = params.topK
  OBVIOUS
<1>8. k \in Nat
  <2>1. k \in Int
    BY <1>1, <1>7, ParamFacts, Zenon
  <2> QED
    BY ONLY <1>6, <1>7, <2>1
<1>9. Lowered(n, logits, w, Repeated)
  <2>1. /\ w \in [Vocab -> Int] /\ \A t \in Vocab : t \notin Repeated => w[t] = logits[t]
        /\ \A t \in Vocab : w[t] <= logits[t]
    BY <1>1, <1>2, ValueFacts
  <2>2. Repeated \in SUBSET Vocab
    BY DEF Repeated
  <2> QED
    BY <1>5, <2>1, <2>2 DEF Lowered
<1>10. TopOf(C, w, k) = TopOf(1 .. n, w, k)
  <2>1. Cardinality(C \ Repeated) >= k
    BY <1>6, <1>7
  <2>2. PICK P : P = Repeated
    OBVIOUS
  <2> QED
    BY ONLY <1>4, <1>8, <1>9, <2>1, <2>2, Narrowing
<1>11. Valid(mask, C) = C /\ Valid(mask, Vocab) = Vocab
  BY DEF Valid
<1>12. Pool(logits, mask, C) = TopOf(C, w, k)
  BY <1>1, <1>2, <1>3, <1>5, <1>6, <1>7, <1>11, PoolFacts
<1>13. Pool(logits, mask, Vocab) = TopOf(Vocab, w, k)
  <2>1. Vocab \in SUBSET Vocab /\ Vocab # {}
    BY <1>5
  <2>2. Pool(logits, mask, Vocab) = TopOf(Valid(mask, Vocab), Values(logits), params.topK)
    BY ONLY <1>1, <1>6, <2>1, PoolFacts, logits \in [Vocab -> Int]
  <2> QED
    BY ONLY <1>2, <1>7, <1>11, <2>2
<1> QED
  BY <1>2, <1>5, <1>10, <1>12, <1>13

LEMMA CandidatesAreTokens ==
  ASSUME params \in ParamSets, NEW logits \in [Vocab -> Int]
  PROVE  Candidates(logits) \in SUBSET Vocab /\ Candidates(logits) # {}
<1>1. Vocab = 1 .. NVocab /\ Vocab # {}
  BY ParamFacts
<1> QED
  BY <1>1, CandidateFacts

\* Only a token of the vocabulary is ever drawn.
LEMMA DrawnFacts ==
  ASSUME params \in ParamSets, window \in Seq(Vocab), NEW logits \in [Vocab -> Int], NEW mask
  PROVE  /\ Drawn(logits, mask) \subseteq Vocab
         /\ Pool(logits, mask, Vocab) \subseteq Vocab
<1>1. Vocab \in SUBSET Vocab /\ Vocab # {} /\ Candidates(logits) \in SUBSET Vocab /\ Candidates(logits) # {}
  BY ParamFacts, CandidatesAreTokens
<1>2. Pool(logits, mask, Vocab) \subseteq Vocab
  BY <1>1, PoolFacts DEF Valid
<1>3. Pool(logits, mask, Candidates(logits)) \subseteq Vocab
  <2>1. Pool(logits, mask, Candidates(logits)) \subseteq Valid(mask, Candidates(logits))
    BY <1>1, PoolFacts
  <2>2. Valid(mask, Candidates(logits)) \subseteq Candidates(logits)
    BY DEF Valid
  <2> QED
    BY <1>1, <2>1, <2>2
<1>4. GreedyDirect => Scan(logits) \in Vocab
  BY <1>2, ScanIsGreedy
<1> QED
  BY <1>2, <1>3, <1>4 DEF Drawn

LEMMA SamplerInvInit == SamplerInit => SamplerInv
  BY DEF SamplerInit, SamplerInv

LEMMA SamplerInvNext == SamplerInv /\ (SamplerNext \/ UNCHANGED samplerVars) => SamplerInv'
<1> SUFFICES ASSUME SamplerInv, SamplerNext \/ UNCHANGED samplerVars PROVE SamplerInv'
  OBVIOUS
<1>1. params \in ParamSets /\ window \in Seq(Vocab) /\ params.lastN \in Int
  BY ParamFacts DEF SamplerInv
<1>2. Vocab' = Vocab
  BY DEF Vocab
<1>3. ASSUME NEW t \in Vocab, window' = Windowed(t), params' = params PROVE SamplerInv'
  <2>1. PICK all, n, l, x, W : all = Append(window, t) /\ n = Len(all) /\ l = params.lastN
                              /\ x = Max({1, n - l + 1}) /\ W = SubSeq(all, x, n)
    OBVIOUS
  <2>2. all \in Seq(Vocab) /\ n \in Nat /\ l \in Int
    BY <1>1, <1>3, <2>1
  <2>3. 1 \in Int /\ n - l + 1 \in Int
    BY <2>2
  <2>4. x \in {1, n - l + 1} /\ x >= 1 /\ x >= n - l + 1
    BY ONLY <2>1, <2>3, MaxOfTwo
  <2>5. x \in Int
    BY <2>3, <2>4
  <2>6. W \in Seq(Vocab) /\ (W = <<>> \/ Len(W) = n - x + 1)
    <3>1. CASE x <= n
      <4>1. PICK V : V = Vocab
        OBVIOUS
      <4>2. all \in Seq(V) /\ x \in Nat \ {0} /\ x <= Len(all) + 1
        BY <2>1, <2>2, <2>4, <2>5, <3>1, <4>1
      <4>3. W \in Seq(Vocab) /\ Len(W) = n - x + 1
        BY ONLY <2>1, <4>1, <4>2, LaterPart
      <4> QED
        BY <4>3
    <3>2. CASE x > n
      <4>1. W = <<>>
        BY <2>1, <2>2, <2>5, <3>2
      <4> QED
        BY <4>1
    <3> QED
      BY <2>2, <2>5, <3>1, <3>2
  <2>7. W # <<>> => Len(W) <= l
    BY <2>2, <2>4, <2>5, <2>6
  <2>8. window' = W
    BY <1>3, <2>1 DEF Windowed
  <2> QED
    BY <1>1, <1>2, <1>3, <2>1, <2>6, <2>7, <2>8 DEF SamplerInv
<1>4. CASE Sample
  <2>0. PICK logits \in LogitLists, mask \in Allowed :
             \E t \in Drawn(logits, mask) : window' = IF GreedyDirect THEN window ELSE Windowed(t)
    BY <1>4 DEF Sample
  <2>1. PICK t \in Drawn(logits, mask) : window' = IF GreedyDirect THEN window ELSE Windowed(t)
    BY <2>0
  <2>2. logits \in [Vocab -> Int]
    BY SamplerAssumption DEF Vocab
  <2>3. t \in Vocab
    BY <1>1, <2>2, DrawnFacts
  <2>4. params' = params
    BY <1>4 DEF Sample
  <2>5. CASE GreedyDirect
    BY <1>2, <2>1, <2>4, <2>5 DEF SamplerInv
  <2> QED
    BY <1>3, <2>1, <2>3, <2>4, <2>5
<1>5. CASE SampleByLibrary
  <2>0. PICK logits \in LogitLists, mask \in Allowed : \E t \in Pool(logits, mask, Vocab) : window' = Windowed(t)
    BY <1>5 DEF SampleByLibrary
  <2>1. PICK t \in Pool(logits, mask, Vocab) : window' = Windowed(t)
    BY <2>0
  <2>2. logits \in [Vocab -> Int]
    BY SamplerAssumption DEF Vocab
  <2>3. t \in Vocab /\ params' = params
    BY <1>1, <1>5, <2>2, DrawnFacts DEF SampleByLibrary
  <2> QED
    BY <1>3, <2>1, <2>3
<1>6. CASE Reset
  BY <1>1, <1>2, <1>6 DEF Reset, SamplerInv
<1>7. CASE UNCHANGED samplerVars
  BY <1>1, <1>2, <1>7 DEF samplerVars, SamplerInv
<1> QED
  BY <1>4, <1>5, <1>6, <1>7 DEF SamplerNext

LEMMA SamplerInvSound == SamplerInv => ShortcutsUnseen
<1> SUFFICES ASSUME SamplerInv, NEW logits \in LogitLists, NEW mask \in Allowed
             PROVE  IF params.grammar THEN TruncN <= 0 => Drawn(logits, mask) \subseteq mask
                    ELSE Lowering /\ WindowCounts => Drawn(logits, mask) = Pool(logits, mask, Vocab)
  BY DEF ShortcutsUnseen
<1>1. params \in ParamSets /\ window \in Seq(Vocab) /\ logits \in [Vocab -> Int] /\ params.grammar \in BOOLEAN
  BY ParamFacts, SamplerAssumption DEF SamplerInv, Vocab
<1>2. ASSUME params.grammar, TruncN <= 0 PROVE Drawn(logits, mask) \subseteq mask
  <2>1. mask # {} /\ mask \subseteq Vocab
    BY <1>2, SamplerAssumption DEF Allowed, Vocab
  <2>2. Candidates(logits) = Vocab
    BY <1>2 DEF Candidates, SelectCandidates
  <2>3. Drawn(logits, mask) = Pool(logits, mask, Vocab)
    BY <1>2, <2>2 DEF Drawn, GreedyDirect
  <2>4. Valid(mask, Vocab) = mask \cap Vocab
    BY <1>2, <2>1 DEF Valid
  <2>5. Vocab \in SUBSET Vocab /\ Vocab # {}
    BY <2>1
  <2>6. Pool(logits, mask, Vocab) \subseteq Valid(mask, Vocab)
    BY <1>1, <2>5, PoolFacts
  <2> QED
    BY <2>3, <2>4, <2>6
<1>3. ASSUME ~params.grammar, Lowering, WindowCounts PROVE Drawn(logits, mask) = Pool(logits, mask, Vocab)
  <2>1. CASE GreedyDirect
    BY <1>1, <2>1, ScanIsGreedy DEF Drawn
  <2>2. CASE ~GreedyDirect
    BY <1>1, <1>3, <2>2, NarrowedIsWhole DEF Drawn
  <2> QED
    BY <2>1, <2>2
<1> QED
  BY <1>1, <1>2, <1>3

LEMMA SamplerPart ==
  ASSUME [Next]_vars
  PROVE  part' = part /\ (part = "sampler" => SamplerNext \/ UNCHANGED samplerVars)
  BY DEF Next, vars

\* Whatever the vocabulary, the logits and what was generated before, where no penalty
\* is below its neutral value, the window and the slack are not less than nothing and
\* there is no grammar: a narrowed chain draws from what it would draw from with the
\* whole vocabulary, since above any cutoff at least top-k tokens are left that no
\* penalty touches, and a scan finds what the greedy chain would.  A chain with a
\* grammar that is not narrowed draws what the grammar allows (sampler.go:119-120,
\* 134-145, 239-243).
THEOREM ShortCutsAreSafe == Spec => []SamplerPromise
<1> DEFINE I == part = "sampler" => SamplerInv
<1>1. Init => I
  <2> SUFFICES ASSUME Init, part = "sampler" PROVE SamplerInv
    OBVIOUS
  <2>1. SamplerInit
    BY DEF Init
  <2> QED
    BY <2>1, SamplerInvInit
<1>2. I /\ [Next]_vars => I'
  BY SamplerPart, SamplerInvNext
<1>3. I => SamplerPromise
  BY SamplerInvSound DEF SamplerPromise
<1> QED
  BY <1>1, <1>2, <1>3, PTL DEF Spec

---------------------------------------------------------------------------
(* The lookup drafter.                                                      *)

\* The list h occurs in s, in its order: e says where.
Places(e, h, s) ==
  /\ e \in [1 .. Len(h) -> 1 .. Len(s)]
  /\ \A i, j \in 1 .. Len(h) : i < j => e[i] < e[j]
  /\ \A i \in 1 .. Len(h) : h[i] = s[e[i]]
Occurs(h, s) == \E e : Places(e, h, s)

LEMMA OccursItself == ASSUME NEW T, NEW s \in Seq(T) PROVE Occurs(s, s)
<1>1. PICK e : e = [i \in 1 .. Len(s) |-> i]
  OBVIOUS
<1>2. Len(s) \in Nat
  OBVIOUS
<1>3. Places(e, s, s)
  BY <1>1, <1>2 DEF Places
<1> QED
  BY <1>3 DEF Occurs

LEMMA OccursLonger ==
  ASSUME NEW T, NEW h \in Seq(T), NEW s \in Seq(T), NEW t \in Seq(T), Occurs(h, s)
  PROVE  Occurs(h, s \o t)
<1>1. PICK e : Places(e, h, s)
  BY DEF Occurs
<1>2. PICK n, m, x, k : n = Len(s) /\ m = Len(t) /\ x = s \o t /\ k = Len(h)
  OBVIOUS
<1>3. n \in Nat /\ m \in Nat /\ Len(x) = n + m /\ \A i \in 1 .. n : x[i] = s[i]
  BY <1>2, Joined
<1>4. /\ e \in [1 .. k -> 1 .. n] /\ \A i, j \in 1 .. k : i < j => e[i] < e[j]
      /\ \A i \in 1 .. k : h[i] = s[e[i]]
  BY <1>1, <1>2 DEF Places
<1>5. e \in [1 .. k -> 1 .. n + m] /\ \A i \in 1 .. k : h[i] = x[e[i]]
  <2>1. \A i \in 1 .. k : e[i] \in 1 .. n
    BY ONLY <1>4
  <2>2. \A j \in 1 .. n : j \in 1 .. n + m
    BY ONLY <1>3
  <2> QED
    BY ONLY <1>3, <1>4, <2>1, <2>2
<1>6. Places(e, h, x)
  BY <1>2, <1>3, <1>4, <1>5 DEF Places
<1> QED
  BY <1>2, <1>6 DEF Occurs

LEMMA OccursJoined ==
  ASSUME NEW T, NEW h \in Seq(T), NEW s \in Seq(T), NEW t \in Seq(T), Occurs(h, s)
  PROVE  Occurs(h \o t, s \o t)
<1>1. PICK e : Places(e, h, s)
  BY DEF Occurs
<1>2. PICK n, m, k, x, y : n = Len(s) /\ m = Len(t) /\ k = Len(h) /\ x = s \o t /\ y = h \o t
  OBVIOUS
<1>3. /\ n \in Nat /\ m \in Nat /\ k \in Nat
      /\ Len(x) = n + m /\ \A i \in 1 .. n : x[i] = s[i]
      /\ \A i \in 1 .. m : x[n + i] = t[i]
      /\ Len(y) = k + m /\ \A i \in 1 .. k : y[i] = h[i]
      /\ \A i \in 1 .. m : y[k + i] = t[i]
  BY <1>2, Joined
<1>4. /\ e \in [1 .. k -> 1 .. n] /\ \A i, j \in 1 .. k : i < j => e[i] < e[j]
      /\ \A i \in 1 .. k : h[i] = s[e[i]]
  BY <1>1, <1>2 DEF Places
<1>5. PICK f : f = [i \in 1 .. k + m |-> IF i <= k THEN e[i] ELSE n + (i - k)]
  OBVIOUS
<1>6. ASSUME NEW i \in 1 .. k + m
      PROVE  /\ f[i] \in 1 .. n + m /\ y[i] = x[f[i]]
             /\ i <= k => f[i] \in 1 .. n /\ f[i] = e[i]
             /\ ~(i <= k) => f[i] = n + (i - k)
  <2>1. CASE i <= k
    <3>1. i \in 1 .. k /\ f[i] = e[i] /\ e[i] \in 1 .. n
      BY <1>3, <1>4, <1>5, <2>1
    <3>2. e[i] \in 1 .. n + m
      BY <1>3, <3>1
    <3> QED
      BY <1>3, <1>4, <2>1, <3>1, <3>2
  <2>2. CASE ~(i <= k)
    <3>1. PICK j : j = i - k
      OBVIOUS
    <3>2. j \in 1 .. m /\ i = k + j /\ f[i] = n + j
      BY <1>3, <1>5, <2>2, <3>1
    <3>3. y[i] = t[j] /\ x[n + j] = t[j] /\ n + j \in 1 .. n + m
      BY <1>3, <3>2
    <3> QED
      BY <2>2, <3>1, <3>2, <3>3
  <2> QED
    BY <2>1, <2>2
<1>7. ASSUME NEW i \in 1 .. k + m, NEW j \in 1 .. k + m, i < j PROVE f[i] < f[j]
  <2>1. CASE j <= k
    <3>1. i \in 1 .. k /\ j \in 1 .. k /\ i <= k
      BY <1>3, <1>7, <2>1
    <3> QED
      BY <1>4, <1>6, <1>7, <2>1, <3>1
  <2>2. CASE i <= k /\ ~(j <= k)
    <3>1. f[i] \in 1 .. n /\ f[j] = n + (j - k)
      BY <1>6, <2>2
    <3> QED
      BY <1>3, <1>7, <2>2, <3>1
  <2>3. CASE ~(i <= k)
    <3>1. ~(j <= k)
      BY <1>3, <1>7, <2>3
    <3>2. f[i] = n + (i - k) /\ f[j] = n + (j - k)
      BY <1>6, <2>3, <3>1
    <3> QED
      BY <1>3, <1>7, <3>2
  <2> QED
    BY <2>1, <2>2, <2>3
<1>8. f \in [1 .. k + m -> 1 .. n + m]
  BY <1>5, <1>6
<1>9. Places(f, y, x)
  BY <1>3, <1>6, <1>7, <1>8 DEF Places
<1> QED
  BY <1>2, <1>9 DEF Occurs

---------------------------------------------------------------------------
(* What is left of a history.                                                *)

\* How much of n tokens is forgotten.
Dropped(n) == IF MaxHistory > 0 /\ n > MaxHistory THEN n - MaxHistory ELSE 0

LEMMA DroppedFacts ==
  ASSUME NEW n \in Nat, NEW m \in Nat
  PROVE  /\ Dropped(n) \in Nat /\ Dropped(n) <= n
         /\ Dropped(n + m) = Dropped(n) + Dropped((n - Dropped(n)) + m)
  BY LookupAssumption DEF Dropped

LEMMA TrimFacts ==
  ASSUME NEW T, NEW h \in Seq(T)
  PROVE  /\ Trim(h) \in Seq(T) /\ Len(Trim(h)) = Len(h) - Dropped(Len(h))
         /\ \A i \in 1 .. Len(h) - Dropped(Len(h)) : Trim(h)[i] = h[Dropped(Len(h)) + i]
<1>1. PICK n, d : n = Len(h) /\ d = Dropped(n)
  OBVIOUS
<1>2. n \in Nat /\ d \in Nat /\ d <= n /\ 0 \in Nat
  BY <1>1, DroppedFacts
<1>3. Trim(h) = SubSeq(h, d + 1, n)
  <2>1. SubSeq(h, 1, n) = h
    BY <1>1
  <2>2. MaxHistory > 0 /\ n > MaxHistory => d + 1 = n - MaxHistory + 1
    BY <1>1, <1>2, LookupAssumption DEF Dropped
  <2>3. ~(MaxHistory > 0 /\ n > MaxHistory) => d + 1 = 1
    BY <1>1 DEF Dropped
  <2> QED
    BY <1>1, <2>1, <2>2, <2>3 DEF Trim
<1>4. d + 1 \in Nat \ {0} /\ d + 1 <= Len(h) + 1
  BY <1>1, <1>2
<1>5. PICK x : x = d + 1
  OBVIOUS
<1>6. /\ SubSeq(h, x, n) \in Seq(T) /\ Len(SubSeq(h, x, n)) = n - x + 1
      /\ \A i \in 1 .. n - x + 1 : SubSeq(h, x, n)[i] = h[x + i - 1]
  BY ONLY <1>1, <1>4, <1>5, LaterPart, h \in Seq(T)
<1>7. n - x + 1 = n - d /\ \A i \in 1 .. n - d : x + i - 1 = d + i
  BY <1>2, <1>5
<1> QED
  BY <1>1, <1>3, <1>5, <1>6, <1>7

LEMMA OccursTrimmed ==
  ASSUME NEW T, NEW h \in Seq(T), NEW s \in Seq(T), Occurs(h, s)
  PROVE  Occurs(Trim(h), s)
<1>1. PICK e : Places(e, h, s)
  BY DEF Occurs
<1>2. PICK n, d, k, g : n = Len(h) /\ d = Dropped(n) /\ k = Len(s) /\ g = Trim(h)
  OBVIOUS
<1>3. n \in Nat /\ d \in Nat /\ d <= n /\ 0 \in Nat
  BY <1>2, DroppedFacts
<1>4. Len(g) = n - d /\ \A i \in 1 .. n - d : g[i] = h[d + i]
  BY <1>2, TrimFacts
<1>5. /\ e \in [1 .. n -> 1 .. k] /\ \A i, j \in 1 .. n : i < j => e[i] < e[j]
      /\ \A i \in 1 .. n : h[i] = s[e[i]]
  BY <1>1, <1>2 DEF Places
<1>6. PICK f : f = [i \in 1 .. n - d |-> e[d + i]]
  OBVIOUS
<1>7. \A i \in 1 .. n - d : d + i \in 1 .. n
  BY <1>3
<1>8. f \in [1 .. n - d -> 1 .. k]
  BY <1>5, <1>6, <1>7
<1>9. \A i, j \in 1 .. n - d : i < j => f[i] < f[j]
  <2> SUFFICES ASSUME NEW i \in 1 .. n - d, NEW j \in 1 .. n - d, i < j PROVE f[i] < f[j]
    OBVIOUS
  <2>1. d + i \in 1 .. n /\ d + j \in 1 .. n /\ d + i < d + j
    BY <1>3
  <2> QED
    BY <1>5, <1>6, <2>1
<1>10. \A i \in 1 .. n - d : g[i] = s[f[i]]
  BY <1>4, <1>5, <1>6, <1>7
<1>11. Places(f, g, s)
  BY <1>2, <1>4, <1>8, <1>9, <1>10 DEF Places
<1> QED
  BY <1>2, <1>11 DEF Occurs

\* What is forgotten first is forgotten anyway.
LEMMA TrimJoined ==
  ASSUME NEW T, NEW a \in Seq(T), NEW b \in Seq(T)
  PROVE  Trim(Trim(a) \o b) = Trim(a \o b)
<1>1. PICK x, y, z, g : x = Trim(a) /\ y = x \o b /\ z = a \o b /\ g = Len(x)
  OBVIOUS
<1>2. PICK n, m, d, q, c : n = Len(a) /\ m = Len(b) /\ d = Dropped(n) /\ q = n - d /\ c = Dropped(q + m)
  OBVIOUS
<1>3. n \in Nat /\ m \in Nat /\ d \in Nat /\ d <= n /\ q \in Nat /\ q = n - d
  <2>1. n \in Nat /\ m \in Nat
    BY <1>2
  <2>2. d \in Nat /\ d <= n
    BY <1>2, <2>1, DroppedFacts
  <2> QED
    BY <1>2, <2>1, <2>2
<1>4. x \in Seq(T) /\ Len(x) = q /\ \A i \in 1 .. q : x[i] = a[d + i]
  BY <1>1, <1>2, TrimFacts
<1>5. /\ y \in Seq(T) /\ Len(y) = q + m
      /\ \A i \in 1 .. q : y[i] = x[i]
      /\ \A i \in 1 .. m : y[q + i] = b[i]
  <2>1. /\ y \in Seq(T) /\ Len(y) = Len(x) + Len(b)
        /\ \A i \in 1 .. Len(x) : y[i] = x[i]
        /\ \A i \in 1 .. Len(b) : y[Len(x) + i] = b[i]
    BY ONLY <1>1, <1>4, b \in Seq(T), Joined, SMTT(60)
  <2> QED
    BY ONLY <1>2, <1>4, <2>1
<1>6. /\ z \in Seq(T) /\ Len(z) = n + m
      /\ \A i \in 1 .. n : z[i] = a[i]
      /\ \A i \in 1 .. m : z[n + i] = b[i]
  BY <1>1, <1>2, Joined
<1>7. ASSUME NEW i \in 1 .. q + m PROVE y[i] = z[d + i]
  <2>1. CASE i <= q
    <3>1. i \in 1 .. q /\ d + i \in 1 .. n
      BY <1>3, <2>1
    <3> QED
      BY <1>4, <1>5, <1>6, <3>1
  <2>2. CASE ~(i <= q)
    <3>1. PICK j : j = i - q
      OBVIOUS
    <3>2. j \in 1 .. m /\ i = q + j /\ d + i = n + j
      BY <1>3, <2>2, <3>1
    <3> QED
      BY <1>5, <1>6, <3>2
  <2> QED
    BY <2>1, <2>2
<1>8. c \in Nat /\ c <= q + m /\ Dropped(n + m) = d + c
  <2>1. q + m \in Nat /\ 0 \in Nat
    BY <1>3
  <2>2. c \in Nat /\ c <= q + m
    BY <1>2, <2>1, DroppedFacts
  <2>3. Dropped(n + m) = d + c
    <3>1. Dropped(n + m) = Dropped(n) + Dropped((n - Dropped(n)) + m)
      BY ONLY <1>3, DroppedFacts
    <3> QED
      BY ONLY <1>2, <3>1, Zenon
  <2> QED
    BY <2>2, <2>3
<1>9. PICK u, v, p, r : u = Trim(y) /\ v = Trim(z) /\ p = q + m - c /\ r = d + c
  OBVIOUS
<1>10. u \in Seq(T) /\ Len(u) = p /\ \A i \in 1 .. p : u[i] = y[c + i]
  <2>1. Dropped(Len(y)) = c /\ Len(y) - c = p
    <3>1. Len(y) = q + m
      BY <1>5
    <3>2. Dropped(Len(y)) = c
      BY ONLY <1>2, <3>1, Zenon
    <3>3. Len(y) - c = p
      BY ONLY <1>3, <1>8, <1>9, <3>1
    <3> QED
      BY <3>2, <3>3
  <2> QED
    BY <1>5, <1>9, <2>1, TrimFacts
<1>11. v \in Seq(T) /\ Len(v) = p /\ \A i \in 1 .. p : v[i] = z[r + i]
  <2>1. Dropped(Len(z)) = r /\ Len(z) - r = p
    BY <1>3, <1>6, <1>8, <1>9
  <2> QED
    BY <1>6, <1>9, <2>1, TrimFacts
<1>12. ASSUME NEW i \in 1 .. p PROVE u[i] = v[i]
  <2>1. c + i \in 1 .. q + m /\ d + (c + i) = r + i
    BY <1>3, <1>8, <1>9
  <2> QED
    BY <1>7, <1>10, <1>11, <2>1
<1>13. Len(u) = Len(v)
  BY <1>10, <1>11
<1>14. u = v
  BY <1>10, <1>11, <1>12, <1>13, SeqEqual
<1> QED
  BY <1>1, <1>9, <1>14

---------------------------------------------------------------------------
(* A list goes through all of another that occurs in it.                     *)

Follows(r, h, s, n) ==
  /\ r \in [0 .. n -> Nat] /\ r[0] = 0
  /\ \A k \in 1 .. n :
       r[k] = IF r[k - 1] < Len(h) /\ h[r[k - 1] + 1] = s[k] THEN r[k - 1] + 1 ELSE r[k - 1]

LEMMA ThroughLoop ==
  ASSUME NEW T, NEW h \in Seq(T), NEW s \in Seq(T)
  PROVE  \E r : Follows(r, h, s, Len(s)) /\ Through(h, s) = r[Len(s)]
<1>1. PICK n : n = Len(s)
  OBVIOUS
<1>2. n \in Nat /\ DOMAIN s = 1 .. n
  BY <1>1
<1> DEFINE V == Nat
           go(q, t) == IF q < Len(h) /\ h[q + 1] = t THEN q + 1 ELSE q
           up == [k \in 1 .. n |-> [q \in V |-> go(q, s[k])]]
           body(f) == [x \in SUBSET (1 .. n) |-> IF x = {} THEN 0 ELSE go(f[x \ {Max(x)}], s[Max(x)])]
           g == CHOOSE f : f = body(f)
<1>3. up \in [1 .. n -> [V -> V]] /\ 0 \in V
  OBVIOUS
<1>4. \A x \in SUBSET (1 .. n) : x # {} => Max(x) \in 1 .. n /\ x \ {Max(x)} \in SUBSET (1 .. n)
  BY <1>2, MaxFacts
<1>5. \A k \in 1 .. n, q \in V : up[k][q] = go(q, s[k])
  OBVIOUS
<1>6. PICK f : Folded(f, n, V, 0, up)
  <2>1. up \in Loops(n, V)
    BY <1>3 DEF Loops
  <2> HIDE DEF V, up
  <2>2. PICK z : z = 0
    OBVIOUS
  <2>3. \E f : Folded(f, n, V, z, up)
    BY <1>2, <1>3, <2>1, <2>2, FoldExists
  <2> QED
    BY <2>2, <2>3
<1>7. f = body(f)
  <2>1. \A x \in SUBSET (1 .. n) : f[x] = IF x = {} THEN 0 ELSE go(f[x \ {Max(x)}], s[Max(x)])
    <3>1. \A x \in SUBSET (1 .. n) : f[x] \in V
      BY <1>6 DEF Folded
    <3> HIDE DEF V, up, go
    <3> QED
      BY <1>4, <1>5, <1>6, <3>1 DEF Folded
  <2> HIDE DEF go
  <2> QED
    BY <1>6, <2>1 DEF Folded
<1>8. g = body(g)
  <2> HIDE DEF body
  <2> QED
    BY <1>7
<1>9. Through(h, s) = g[1 .. n]
  BY <1>2 DEF Through, FoldLeft, MapThenFoldSet
<1>10. Folds(g, n, V, 0, up)
  <2> HIDE DEF g, go
  <2>1. \A x \in SUBSET (1 .. n) : g[x] = IF x = {} THEN 0 ELSE go(g[x \ {Max(x)}], s[Max(x)])
    BY <1>8
  <2>2. {} \in SUBSET (1 .. n)
    OBVIOUS
  <2> HIDE DEF V, up
  <2> QED
    BY <1>4, <1>5, <2>1, <2>2 DEF Folds
<1>11. Looped(Before(g, n), n, V, 0, up) /\ g[1 .. n] = Before(g, n)[n]
  <2>1. up \in Loops(n, V)
    BY <1>3 DEF Loops
  <2> HIDE DEF g, V, up
  <2>2. PICK z : z = 0
    OBVIOUS
  <2>3. Looped(Before(g, n), n, V, z, up) /\ g[1 .. n] = Before(g, n)[n]
    BY <1>2, <1>3, <1>10, <2>1, <2>2, FoldLoop
  <2> QED
    BY <2>2, <2>3
<1>12. PICK r : r = Before(g, n)
  OBVIOUS
<1>13. r \in [0 .. n -> V] /\ r[0] = 0 /\ \A k \in 1 .. n : r[k] = up[k][r[k - 1]]
  BY <1>11, <1>12 DEF Looped
<1>14. \A k \in 1 .. n : r[k] = go(r[k - 1], s[k])
  <2>1. \A k \in 1 .. n : k - 1 \in 0 .. n
    BY <1>2
  <2> HIDE DEF up, g, go
  <2> QED
    BY <1>5, <1>13, <2>1
<1>15. Follows(r, h, s, n) /\ Through(h, s) = r[n]
  <2> HIDE DEF g
  <2> QED
    BY <1>9, <1>11, <1>12, <1>13, <1>14 DEF Follows
<1> QED
  BY <1>1, <1>15

LEMMA ThroughAll ==
  ASSUME NEW T, NEW h \in Seq(T), NEW s \in Seq(T), Occurs(h, s)
  PROVE  Through(h, s) = Len(h)
<1>1. PICK n, m : n = Len(s) /\ m = Len(h)
  OBVIOUS
<1>2. n \in Nat /\ m \in Nat
  BY <1>1
<1>3. PICK e : Places(e, h, s)
  BY DEF Occurs
<1>4. /\ e \in [1 .. m -> 1 .. n] /\ \A i, j \in 1 .. m : i < j => e[i] < e[j]
      /\ \A i \in 1 .. m : h[i] = s[e[i]]
  BY <1>1, <1>3 DEF Places
<1>5. PICK r : Follows(r, h, s, n) /\ Through(h, s) = r[n]
  BY <1>1, ThroughLoop
<1>6. /\ r \in [0 .. n -> Nat] /\ r[0] = 0
      /\ \A k \in 1 .. n : r[k] = IF r[k - 1] < m /\ h[r[k - 1] + 1] = s[k] THEN r[k - 1] + 1 ELSE r[k - 1]
  BY <1>1, <1>5 DEF Follows
<1> DEFINE S == {k \in Nat : k <= n => r[k] <= m /\ \A i \in 1 .. m : e[i] <= k => i <= r[k]}
<1>7. 0 \in S
  BY <1>2, <1>4, <1>6
<1>8. ASSUME NEW k \in Nat, k \in S PROVE k + 1 \in S
  <2> SUFFICES ASSUME k + 1 <= n
               PROVE  r[k + 1] <= m /\ \A i \in 1 .. m : e[i] <= k + 1 => i <= r[k + 1]
    OBVIOUS
  <2>1. PICK a, b : a = r[k] /\ b = r[k + 1]
    OBVIOUS
  <2>2. /\ k + 1 \in 1 .. n /\ (k + 1) - 1 = k /\ k \in 0 .. n /\ a \in Nat /\ b \in Nat
        /\ a <= m /\ \A i \in 1 .. m : e[i] <= k => i <= a
    BY <1>2, <1>6, <1>8, <2>1
  <2>3. b = IF a < m /\ h[a + 1] = s[k + 1] THEN a + 1 ELSE a
    BY <1>6, <2>1, <2>2
  <2>4. b <= m /\ a <= b
    BY <1>2, <2>2, <2>3
  <2>5. ASSUME NEW i \in 1 .. m, e[i] <= k + 1 PROVE i <= b
    <3>1. e[i] \in 1 .. n
      BY <1>4
    <3>2. CASE e[i] <= k
      BY <1>2, <2>2, <2>4, <3>2
    <3>3. CASE e[i] = k + 1
      <4>1. ASSUME i > 1 PROVE i - 1 <= a
        <5>1. i - 1 \in 1 .. m /\ i - 1 < i
          BY <1>2, <4>1
        <5>2. e[i - 1] < e[i] /\ e[i - 1] \in 1 .. n
          BY <1>4, <5>1
        <5>3. e[i - 1] <= k
          BY <2>2, <3>3, <5>2
        <5> QED
          BY <2>2, <5>1, <5>3
      <4>2. i - 1 <= a
        BY <1>2, <2>2, <4>1
      <4>3. CASE i <= a
        BY <1>2, <2>2, <2>4, <4>3
      <4>4. CASE i = a + 1
        <5>1. a < m /\ h[a + 1] = s[k + 1]
          BY <1>2, <1>4, <2>2, <3>3, <4>4
        <5> QED
          BY <2>3, <4>4, <5>1
      <4> QED
        BY <1>2, <2>2, <4>2, <4>3, <4>4
    <3> QED
      BY <2>2, <2>5, <3>1, <3>2, <3>3
  <2> QED
    BY <2>1, <2>4, <2>5
<1>9. n \in S
  <2> HIDE DEF S
  <2> QED
    BY <1>2, <1>7, <1>8, Induct
<1>10. r[n] <= m /\ \A i \in 1 .. m : i <= r[n]
  BY <1>2, <1>4, <1>9
<1>11. r[n] \in Nat
  BY <1>2, <1>6
<1>12. m > 0 => m \in 1 .. m
  BY <1>2
<1> QED
  BY <1>1, <1>2, <1>5, <1>10, <1>11, <1>12

---------------------------------------------------------------------------
(* The drafter beside the engine.                                            *)

\* What the drafter has heard of: the token sampled last reaches it with the next call.
Heard == prompt \o (IF draft = <<>> THEN Front(out) ELSE out)

LookupTyped(T) ==
  /\ Emitted \subseteq T /\ \A p \in Prompts : p \in Seq(T) /\ p # <<>>
  /\ prompt \in Seq(T) /\ out \in Seq(T) /\ hist \in Seq(T) /\ last \in Seq(T)
  /\ draft \in Seq(T)
  /\ prompt # <<>> => out # <<>>

\* A staged draft is a beginning of what was proposed.
DraftIsProposed ==
  draft # <<>> => prompt # <<>> /\ Len(draft) <= Len(last) /\ draft = SubSeq(last, 1, Len(draft))

\* The history is some of what was heard, in its order, and all of it when no call was missed.
HistoryHeard ==
  prompt # <<>> => Occurs(hist, Heard) /\ (~missed => hist = Trim(Heard))

LookupInv(T) == LookupTyped(T) /\ DraftIsProposed /\ HistoryHeard /\ ProposalFollows

\* The tokens there are.
LookupTokens == Emitted \cup UNION {ToSet(p) : p \in Prompts}

LEMMA PromptFacts == \A p \in Prompts : p \in Seq(LookupTokens) /\ p # <<>>
<1> SUFFICES ASSUME NEW p \in Prompts PROVE p \in Seq(LookupTokens) /\ p # <<>>
  OBVIOUS
<1>1. p \in Seq(ToSet(p)) /\ p # <<>>
  BY LookupAssumption
<1>2. ToSet(p) \subseteq LookupTokens
  BY DEF LookupTokens
<1>3. \A i \in 1 .. Len(p) : p[i] \in ToSet(p)
  BY <1>1
<1> QED
  BY <1>1, <1>2, <1>3

\* What is not empty has a last element.
LEMMA FrontAndLast ==
  ASSUME NEW T, NEW a \in Seq(T), a # <<>>
  PROVE  Front(a) \in Seq(T) /\ a[Len(a)] \in T /\ a = Append(Front(a), a[Len(a)])
<1>1. PICK n, b : n = Len(a) /\ b = SubSeq(a, 1, n - 1)
  OBVIOUS
<1>2. n \in Nat \ {0} /\ a[n] \in T /\ b \in Seq(T) /\ Len(b) = n - 1 /\ \A i \in 1 .. n - 1 : b[i] = a[i]
  BY <1>1
<1>3. a = Append(b, a[n])
  BY <1>1, <1>2
<1> QED
  BY <1>1, <1>2, <1>3 DEF Front

LEMMA ProposalFacts ==
  ASSUME NEW T, NEW h \in Seq(T), NEW n \in Int, NEW p, p = Proposal(h, n)
  PROVE  /\ p \in Seq(T)
         /\ p # <<>> =>
              /\ Len(h) >= N + 1
              /\ \E i \in 1 .. Len(h) - N :
                   /\ SubSeq(h, i, i + N - 1) = SubSeq(h, Len(h) - N + 1, Len(h))
                   /\ \A k \in 0 .. Len(p) : IsPrefix(SubSeq(p, 1, k), SubSeq(h, i + N, Len(h)))
<1>1. PICK m, E : m = Len(h) /\ E = Earlier(h)
  OBVIOUS
<1>2. m \in Nat /\ N \in Nat \ {0}
  BY <1>1, LookupAssumption
<1>3. CASE n < 1 \/ m < N + 1 \/ E = {}
  BY <1>1, <1>3 DEF Proposal
<1>4. CASE ~(n < 1 \/ m < N + 1 \/ E = {})
  <2>1. E \in SUBSET (1 .. m - N) /\ m - N \in Nat /\ E # {}
    BY <1>1, <1>2, <1>4, SMTT(60) DEF Earlier
  <2>2. PICK i : i = Max(E)
    OBVIOUS
  <2>3. i \in E
    BY ONLY <2>1, <2>2, MaxFacts
  <2>4. i \in 1 .. m - N /\ SubSeq(h, i, i + N - 1) = SubSeq(h, m - N + 1, m)
    BY <1>1, <2>1, <2>3 DEF Earlier
  <2>5. PICK x, e : x = i + N /\ e = Min({x + n - 1, m})
    OBVIOUS
  <2>6. p = SubSeq(h, x, e)
    BY <1>1, <1>4, <2>2, <2>5 DEF Proposal
  <2>7. x \in Nat \ {0} /\ x <= m /\ x + n - 1 \in Int /\ m \in Int /\ n >= 1
    BY <1>2, <1>4, <2>4, <2>5
  <2>8. e \in {x + n - 1, m} /\ e <= m
    BY ONLY <2>5, <2>7, MinOfTwo
  <2>9. e \in Int /\ e >= x
    BY <2>7, <2>8
  <2>10. PICK q, c : q = SubSeq(h, x, m) /\ c = e - x + 1
    OBVIOUS
  <2>11. q \in Seq(T) /\ Len(q) = m - x + 1 /\ \A j \in 1 .. m - x + 1 : q[j] = h[x + j - 1]
    <3>1. x <= Len(h) + 1 /\ x \in Nat \ {0}
      BY <1>1, <1>2, <2>7
    <3> QED
      BY ONLY <1>1, <2>10, <3>1, LaterPart, h \in Seq(T)
  <2>12. p \in Seq(T) /\ Len(p) = c /\ \A j \in 1 .. c : p[j] = h[x + j - 1]
    <3>1. \A j \in x .. e : h[j] \in T
      <4>1. \A j \in x .. e : j \in 1 .. m
        BY <1>2, <2>7, <2>8, <2>9
      <4> QED
        BY <1>1, <4>1
    <3>2. x \in Int /\ e \in Int
      BY <2>7, <2>9
    <3>3. /\ SubSeq(h, x, e) \in Seq(T) /\ Len(SubSeq(h, x, e)) = IF x <= e THEN e - x + 1 ELSE 0
          /\ \A j \in 1 .. e - x + 1 : SubSeq(h, x, e)[j] = h[x + j - 1]
      BY ONLY <3>1, <3>2, SubSeqProperties
    <3> QED
      BY <2>6, <2>9, <2>10, <3>2, <3>3
  <2>13. c \in Nat /\ c <= m - x + 1
    BY <1>2, <2>7, <2>8, <2>9, <2>10
  <2>14. ASSUME NEW k \in 0 .. Len(p) PROVE IsPrefix(SubSeq(p, 1, k), q)
    <3>1. PICK a : a = SubSeq(p, 1, k)
      OBVIOUS
    <3>2. a \in Seq(T) /\ Len(a) = k /\ \A j \in 1 .. k : a[j] = p[j]
      BY <2>12, <3>1, BeginningFacts
    <3>3. k \in Nat /\ k <= c /\ k <= Len(q) /\ k \in 0 .. Len(q) /\ k \in 0 .. Len(a)
      BY <1>2, <2>7, <2>11, <2>12, <2>13, <3>2
    <3>4. PICK b, d : b = SubSeq(q, 1, k) /\ d = SubSeq(a, 1, k)
      OBVIOUS
    <3>5. b \in Seq(T) /\ Len(b) = k /\ \A j \in 1 .. k : b[j] = q[j]
      BY <2>11, <3>3, <3>4, BeginningFacts
    <3>6. d \in Seq(T) /\ Len(d) = k /\ \A j \in 1 .. k : d[j] = a[j]
      BY <3>2, <3>3, <3>4, BeginningFacts
    <3>7. \A j \in 1 .. k : d[j] = b[j]
      <4>1. \A j \in 1 .. k : j \in 1 .. c /\ j \in 1 .. m - x + 1
        BY <1>2, <2>7, <2>13, <3>3
      <4> QED
        BY <2>11, <2>12, <3>2, <3>5, <3>6, <4>1
    <3>8. d = b
      BY <3>5, <3>6, <3>7, SeqEqual
    <3> QED
      BY <3>1, <3>2, <3>3, <3>4, <3>8 DEF IsPrefix
  <2>15. Len(h) >= N + 1
    BY <1>1, <1>2, <1>4
  <2>16. \A k \in 0 .. Len(p) : IsPrefix(SubSeq(p, 1, k), SubSeq(h, i + N, Len(h)))
    BY ONLY <1>1, <2>5, <2>10, <2>14
  <2>17. i \in 1 .. Len(h) - N /\ SubSeq(h, i, i + N - 1) = SubSeq(h, Len(h) - N + 1, Len(h))
    BY ONLY <1>1, <2>4
  <2>18. p \in Seq(T)
    BY <2>12
  <2> QED
    BY ONLY <2>15, <2>16, <2>17, <2>18
<1> QED
  BY <1>3, <1>4

LEMMA LookupInvInit == LookupInit => LookupInv(LookupTokens)
<1>1. Emitted \subseteq LookupTokens
  BY DEF LookupTokens
<1> QED
  BY <1>1, PromptFacts DEF LookupInit, LookupInv, LookupTyped, DraftIsProposed, HistoryHeard, ProposalFollows

\* What was heard is in front of what was emitted.
LEMMA HeardFacts ==
  ASSUME NEW T, LookupTyped(T), prompt # <<>>
  PROVE  /\ Heard \in Seq(T)
         /\ draft # <<>> => Heard = prompt \o out
         /\ draft = <<>> => Heard = prompt \o Front(out) /\ Heard \o <<out[Len(out)]>> = prompt \o out
         /\ prompt \o out \in Seq(T) /\ out[Len(out)] \in T
<1>1. PICK p, o, f, x : p = prompt /\ o = out /\ f = Front(out) /\ x = out[Len(out)]
  OBVIOUS
<1>2. p \in Seq(T) /\ o \in Seq(T) /\ o # <<>>
  BY <1>1 DEF LookupTyped
<1>3. f \in Seq(T) /\ x \in T /\ o = Append(f, x)
  BY <1>1, <1>2, FrontAndLast
<1>4. o = f \o <<x>> /\ <<x>> \in Seq(T)
  BY <1>3, AppendFacts
<1>5. (p \o f) \o <<x>> = p \o o /\ p \o f \in Seq(T) /\ p \o o \in Seq(T)
  BY <1>2, <1>3, <1>4, JoinedTwice
<1> QED
  BY <1>1, <1>2, <1>3, <1>5 DEF Heard

LEMMA LookupSeed == ASSUME NEW T, LookupInv(T), Seed PROVE LookupInv(T)'
<1>1. PICK p \in Prompts, t \in Emitted : prompt' = p /\ out' = <<t>> /\ hist' = Trim(p)
  BY DEF Seed
<1>2. last' = <<>> /\ draft' = <<>> /\ missed' = FALSE
  BY DEF Seed
<1>3. p \in Seq(T) /\ p # <<>> /\ t \in T
  BY DEF LookupInv, LookupTyped
<1>4. Trim(p) \in Seq(T) /\ Occurs(Trim(p), p)
  BY <1>3, TrimFacts, OccursItself, OccursTrimmed
<1>5. Heard' = p
  <2>1. Front(<<t>>) = <<>>
    BY DEF Front
  <2>2. p \o <<>> = p
    BY <1>3
  <2> QED
    BY <1>1, <1>2, <2>1, <2>2 DEF Heard
<1>6. LookupTyped(T)'
  BY <1>1, <1>2, <1>3, <1>4 DEF LookupInv, LookupTyped
<1>7. DraftIsProposed' /\ ProposalFollows'
  BY <1>2 DEF DraftIsProposed, ProposalFollows
<1>8. HistoryHeard'
  BY ONLY <1>1, <1>4, <1>5 DEF HistoryHeard
<1> QED
  BY <1>6, <1>7, <1>8 DEF LookupInv

\* One more token reaches the drafter, with whatever follows it.
LEMMA HeardMore ==
  ASSUME NEW T, NEW h \in Seq(T), NEW s \in Seq(T), NEW g \in Seq(T), Occurs(h, s)
  PROVE  /\ Trim(h \o g) \in Seq(T) /\ Occurs(Trim(h \o g), s \o g)
         /\ h = Trim(s) => Trim(h \o g) = Trim(s \o g)
<1>1. h \o g \in Seq(T) /\ s \o g \in Seq(T)
  OBVIOUS
<1>2. Occurs(h \o g, s \o g)
  BY OccursJoined
<1>3. Trim(h \o g) \in Seq(T) /\ Occurs(Trim(h \o g), s \o g)
  BY <1>1, <1>2, TrimFacts, OccursTrimmed
<1>4. h = Trim(s) => Trim(h \o g) = Trim(s \o g)
  BY TrimJoined
<1> QED
  BY <1>3, <1>4

LEMMA LookupDrafts == ASSUME NEW T, LookupInv(T), Draft PROVE LookupInv(T)'
<1>1. prompt # <<>> /\ draft = <<>> /\ prompt' = prompt /\ missed' = missed
  BY DEF Draft
<1>2. LookupTyped(T) /\ HistoryHeard
  BY DEF LookupInv
<1>3. PICK A, x, B : A = Heard /\ x = out[Len(out)] /\ B = prompt \o out
  OBVIOUS
<1>4. A \in Seq(T) /\ x \in T /\ A \o <<x>> = B /\ B \in Seq(T) /\ hist \in Seq(T) /\ <<x>> \in Seq(T)
  <2>1. A \in Seq(T) /\ x \in T /\ A \o <<x>> = prompt \o out
    BY <1>1, <1>2, <1>3, HeardFacts
  <2>2. hist \in Seq(T) /\ prompt \o out \in Seq(T)
    BY <1>1, <1>2 DEF LookupTyped
  <2> QED
    BY <1>3, <2>1, <2>2, SMTT(60)
<1>5. PICK h : h = Trim(Append(hist, x))
  OBVIOUS
<1>6. h \in Seq(T) /\ Occurs(h, B) /\ (~missed => h = Trim(B))
  <2>1. Append(hist, x) = hist \o <<x>>
    BY <1>4, AppendFacts
  <2>2. Occurs(hist, A) /\ (~missed => hist = Trim(A))
    BY <1>1, <1>2, <1>3 DEF HistoryHeard
  <2>3. PICK g, h0 : g = <<x>> /\ h0 = hist
    OBVIOUS
  <2>4. g \in Seq(T) /\ h0 \in Seq(T) /\ A \in Seq(T) /\ Occurs(h0, A)
    BY <1>4, <2>2, <2>3
  <2>5. Trim(h0 \o g) \in Seq(T) /\ Occurs(Trim(h0 \o g), A \o g) /\ (h0 = Trim(A) => Trim(h0 \o g) = Trim(A \o g))
    BY ONLY <2>4, HeardMore
  <2> QED
    BY <1>4, <1>5, <2>1, <2>2, <2>3, <2>5
<1>7. PICK n \in 1 .. MaxDraft : 
        LET p == Proposal(h, Min({n, MaxDraft})) IN
        /\ hist' = h
        /\ last' = IF Len(h) < N + 1 THEN last ELSE p
        /\ \E k \in 0 .. Len(p), t \in Emitted :
             /\ draft' = SubSeq(p, 1, k)
             /\ out' = IF k = 0 THEN Append(out, t) ELSE out
  BY <1>3, <1>5 DEF Draft
<1>8. PICK m, p : m = Min({n, MaxDraft}) /\ p = Proposal(h, m)
  OBVIOUS
<1>9. hist' = h /\ last' = IF Len(h) < N + 1 THEN last ELSE p
  BY <1>7, <1>8
<1>10. PICK k \in 0 .. Len(p), t \in Emitted :
         draft' = SubSeq(p, 1, k) /\ out' = IF k = 0 THEN Append(out, t) ELSE out
  BY <1>7, <1>8
<1>11. m \in Int
  <2>1. n \in Int /\ MaxDraft \in Int
    BY LookupAssumption
  <2>2. m \in {n, MaxDraft}
    BY ONLY <1>8, <2>1, MinOfTwo
  <2> QED
    BY <2>1, <2>2
<1>12. /\ p \in Seq(T)
       /\ p # <<>> =>
            /\ Len(h) >= N + 1
            /\ \E i \in 1 .. Len(h) - N :
                 /\ SubSeq(h, i, i + N - 1) = SubSeq(h, Len(h) - N + 1, Len(h))
                 /\ \A j \in 0 .. Len(p) : IsPrefix(SubSeq(p, 1, j), SubSeq(h, i + N, Len(h)))
  BY ONLY <1>6, <1>8, <1>11, ProposalFacts
<1>13. draft' \in Seq(T) /\ Len(draft') = k /\ k \in Nat /\ k <= Len(p) /\ Len(p) \in Nat
  BY <1>10, <1>12, BeginningFacts
<1>14. draft' # <<>> => k # 0 /\ p # <<>> /\ Len(h) >= N + 1
  BY <1>12, <1>13
<1>15. Len(h) >= N + 1 => ~(Len(h) < N + 1)
  BY <1>6, LookupAssumption
<1>16. out \in Seq(T) /\ out # <<>> /\ t \in T
  BY <1>1, <1>2 DEF LookupTyped
<1>17. out' \in Seq(T) /\ out' # <<>> /\ Heard' = B
  <2>1. CASE k = 0
    <3>1. draft' = <<>> /\ out' = Append(out, t)
      BY <1>10, <1>13, <2>1
    <3>2. out' \in Seq(T) /\ out' # <<>> /\ Front(out') = out
      BY <1>16, <3>1, AppendFacts
    <3> QED
      BY <1>1, <1>3, <3>1, <3>2 DEF Heard
  <2>2. CASE k # 0
    <3>1. draft' # <<>> /\ out' = out
      BY <1>10, <1>13, <2>2
    <3> QED
      BY <1>1, <1>3, <1>16, <3>1 DEF Heard
  <2> QED
    BY <2>1, <2>2
<1>18. LookupTyped(T)'
  BY <1>1, <1>2, <1>6, <1>9, <1>12, <1>13, <1>17 DEF LookupTyped
<1>19. DraftIsProposed'
  <2> SUFFICES ASSUME draft' # <<>>
               PROVE  prompt' # <<>> /\ Len(draft') <= Len(last') /\ draft' = SubSeq(last', 1, Len(draft'))
    BY DEF DraftIsProposed
  <2>1. last' = p
    BY <1>9, <1>14, <1>15
  <2> QED
    BY <1>1, <1>10, <1>13, <2>1
<1>20. HistoryHeard'
  BY ONLY <1>1, <1>6, <1>9, <1>17 DEF HistoryHeard
<1>21. ProposalFollows'
  BY ONLY <1>9, <1>10, <1>12, <1>14 DEF ProposalFollows
<1> QED
  BY <1>18, <1>19, <1>20, <1>21 DEF LookupInv

LEMMA LookupSkips == ASSUME NEW T, LookupInv(T), SkipDraft PROVE LookupInv(T)'
<1>1. /\ prompt # <<>> /\ draft = <<>> /\ prompt' = prompt /\ draft' = draft
      /\ hist' = hist /\ last' = last /\ missed' = TRUE
  BY DEF SkipDraft
<1>2. PICK t \in Emitted : out' = Append(out, t)
  BY DEF SkipDraft
<1>3. LookupTyped(T) /\ HistoryHeard
  BY DEF LookupInv
<1>4. out \in Seq(T) /\ t \in T /\ hist \in Seq(T)
  BY <1>3 DEF LookupTyped
<1>5. out' \in Seq(T) /\ out' # <<>> /\ Front(out') = out
  BY <1>2, <1>4, AppendFacts
<1>6. PICK A, x : A = Heard /\ x = out[Len(out)]
  OBVIOUS
<1>7. A \in Seq(T) /\ x \in T /\ A \o <<x>> = prompt \o out
  BY <1>1, <1>3, <1>6, HeardFacts
<1>8. Occurs(hist, prompt \o out)
  <2>1. Occurs(hist, A) /\ <<x>> \in Seq(T)
    BY <1>1, <1>3, <1>6, <1>7 DEF HistoryHeard
  <2>2. PICK g : g = <<x>>
    OBVIOUS
  <2>3. Occurs(hist, A \o g)
    BY <1>4, <1>7, <2>1, <2>2, OccursLonger
  <2> QED
    BY <1>7, <2>2, <2>3
<1>9. Heard' = prompt \o out
  BY <1>1, <1>5 DEF Heard
<1>10. LookupTyped(T)'
  BY <1>1, <1>3, <1>5 DEF LookupTyped
<1>11. DraftIsProposed' /\ ProposalFollows'
  BY <1>1 DEF DraftIsProposed, ProposalFollows
<1>12. HistoryHeard'
  BY ONLY <1>1, <1>8, <1>9 DEF HistoryHeard
<1> QED
  BY <1>10, <1>11, <1>12 DEF LookupInv

LEMMA LookupVerify == ASSUME NEW T, LookupInv(T), Verify PROVE LookupInv(T)'
<1>1. /\ draft # <<>> /\ last' = <<>> /\ draft' = <<>> /\ prompt' = prompt /\ missed' = missed
  BY DEF Verify
<1>2. LookupTyped(T) /\ HistoryHeard /\ DraftIsProposed
  BY DEF LookupInv
<1>3. PICK n \in 0 .. Len(draft), t \in Emitted :
        out' = Append(out \o SubSeq(draft, 1, n), t) /\ hist' = Accepted(n)
  BY DEF Verify
<1>4. PICK d, l, g, o, B : d = draft /\ l = last /\ g = SubSeq(draft, 1, n) /\ o = out /\ B = prompt \o out
  OBVIOUS
<1>5. /\ prompt # <<>> /\ prompt \in Seq(T) /\ o \in Seq(T) /\ d \in Seq(T) /\ l \in Seq(T) /\ t \in T
      /\ hist \in Seq(T) /\ Len(d) <= Len(l) /\ d = SubSeq(l, 1, Len(d)) /\ B \in Seq(T) /\ Heard = B
  BY <1>1, <1>2, <1>4, HeardFacts DEF LookupTyped, DraftIsProposed
<1>6. n \in Nat /\ n <= Len(d) /\ Len(d) \in Nat /\ Len(l) \in Nat
  BY <1>4, <1>5
<1>7. g \in Seq(T) /\ Len(g) = n /\ \A i \in 1 .. n : g[i] = d[i]
  BY <1>4, <1>5, <1>6, BeginningFacts
<1>8. out' \in Seq(T) /\ out' # <<>> /\ Front(out') = o \o g
  <2>1. o \o g \in Seq(T)
    BY <1>5, <1>7
  <2> QED
    BY <1>3, <1>4, <1>5, <2>1, AppendFacts, ZenonT(60)
<1>9. Heard' = B \o g
  <2>1. Heard' = prompt \o (o \o g)
    BY <1>1, <1>8 DEF Heard
  <2>2. PICK p : p = prompt
    OBVIOUS
  <2>3. p \in Seq(T) /\ o \in Seq(T) /\ g \in Seq(T)
    BY <1>5, <1>7, <2>2
  <2>4. (p \o o) \o g = p \o (o \o g)
    BY ONLY <2>3, JoinedTwice
  <2> QED
    BY <1>4, <2>1, <2>2, <2>4
<1>10. Occurs(hist, B) /\ (~missed => hist = Trim(B))
  BY <1>2, <1>5 DEF HistoryHeard
<1>11. hist' \in Seq(T) /\ Occurs(hist', B \o g) /\ (~missed => hist' = Trim(B \o g))
  <2>1. CASE n = 0
    <3>1. g = <<>> /\ B \o g = B
      BY <1>5, <1>7, <2>1
    <3>2. hist' = hist
      BY <1>3, <2>1 DEF Accepted
    <3> QED
      BY <1>5, <1>10, <3>1, <3>2
  <2>2. CASE n # 0
    <3>1. n > 0 /\ Len(last) >= n
      BY <1>4, <1>5, <1>6, <2>2
    <3>2. hist' = Trim(hist \o SubSeq(last, 1, n))
      BY <1>3, <3>1 DEF Accepted
    <3>3. SubSeq(last, 1, n) = g
      <4>1. PICK v : v = SubSeq(l, 1, n)
        OBVIOUS
      <4>2. n \in 0 .. Len(l) /\ Len(d) \in 0 .. Len(l)
        BY <1>5, <1>6
      <4>3. v \in Seq(T) /\ Len(v) = n /\ \A i \in 1 .. n : v[i] = l[i]
        BY <1>5, <4>1, <4>2, BeginningFacts
      <4>4. \A i \in 1 .. Len(d) : d[i] = l[i]
        BY <1>5, <4>2, BeginningFacts
      <4>5. \A i \in 1 .. n : i \in 1 .. Len(d)
        BY <1>6
      <4>6. v = g
        BY <1>7, <4>3, <4>4, <4>5, SeqEqual
      <4> QED
        BY <1>4, <4>1, <4>6
    <3>4. PICK h0 : h0 = hist
      OBVIOUS
    <3>5. g \in Seq(T) /\ h0 \in Seq(T) /\ B \in Seq(T) /\ Occurs(h0, B)
      BY <1>5, <1>7, <1>10, <3>4
    <3>6. Trim(h0 \o g) \in Seq(T) /\ Occurs(Trim(h0 \o g), B \o g) /\ (h0 = Trim(B) => Trim(h0 \o g) = Trim(B \o g))
      BY ONLY <3>5, HeardMore
    <3> QED
      BY <1>10, <3>2, <3>3, <3>4, <3>6
  <2> QED
    BY <2>1, <2>2
<1>12. LookupTyped(T)'
  BY <1>1, <1>2, <1>8, <1>11 DEF LookupTyped
<1>13. DraftIsProposed' /\ ProposalFollows'
  BY <1>1 DEF DraftIsProposed, ProposalFollows
<1>14. HistoryHeard'
  BY ONLY <1>1, <1>9, <1>11 DEF HistoryHeard
<1> QED
  BY <1>12, <1>13, <1>14 DEF LookupInv

LEMMA LookupInvNext ==
  ASSUME NEW T, LookupInv(T), LookupNext \/ UNCHANGED lookupVars
  PROVE  LookupInv(T)'
<1>1. CASE Release
  BY <1>1 DEF Release, LookupInv, LookupTyped, DraftIsProposed, HistoryHeard, ProposalFollows
<1>2. CASE UNCHANGED lookupVars
  <2>1. Heard' = Heard
    BY <1>2 DEF lookupVars, Heard
  <2>2. LookupTyped(T)' /\ DraftIsProposed' /\ ProposalFollows'
    BY <1>2 DEF lookupVars, LookupInv, LookupTyped, DraftIsProposed, ProposalFollows
  <2>3. HistoryHeard'
    BY <1>2, <2>1 DEF lookupVars, LookupInv, HistoryHeard
  <2> QED
    BY <2>2, <2>3 DEF LookupInv
<1> QED
  BY <1>1, <1>2, LookupSeed, LookupDrafts, LookupSkips, LookupVerify DEF LookupNext

LEMMA LookupInvSound == ASSUME NEW T, LookupInv(T) PROVE HistoryIsOutput /\ ProposalFollows
<1> SUFFICES ASSUME prompt # <<>>
             PROVE  /\ Through(hist, prompt \o out) = Len(hist)
                    /\ ~missed => hist = Trim(Heard)
  BY DEF HistoryIsOutput, LookupInv, Heard
<1>1. LookupTyped(T) /\ HistoryHeard
  BY DEF LookupInv
<1>2. Occurs(hist, Heard) /\ (~missed => hist = Trim(Heard)) /\ hist \in Seq(T)
  BY <1>1 DEF HistoryHeard, LookupTyped
<1>3. PICK A, x, B : A = Heard /\ x = out[Len(out)] /\ B = prompt \o out
  OBVIOUS
<1>4. /\ A \in Seq(T) /\ x \in T /\ B \in Seq(T) /\ (draft # <<>> => A = B) /\ (draft = <<>> => A \o <<x>> = B)
  BY <1>1, <1>3, HeardFacts
<1>5. Occurs(hist, B)
  <2>1. PICK g : g = <<x>>
    OBVIOUS
  <2>2. g \in Seq(T) /\ Occurs(hist, A)
    BY <1>2, <1>3, <1>4, <2>1
  <2>3. Occurs(hist, A \o g)
    BY <1>2, <1>4, <2>2, OccursLonger
  <2> QED
    BY <1>4, <2>1, <2>2, <2>3
<1> QED
  BY <1>2, <1>3, <1>4, <1>5, ThroughAll

LEMMA LookupPart ==
  ASSUME [Next]_vars
  PROVE  part' = part /\ (part = "lookup" => LookupNext \/ UNCHANGED lookupVars)
  BY DEF Next, vars

\* Whatever the tokens, the prompts and the bounds: what the lookup drafter remembers is
\* a stretch of the request's own prompt and output, the whole recent end of it while
\* every token went through Draft, and what it proposes followed the same N tokens
\* there before (lookup.go:66-160).
THEOREM DraftsAreOwn == Spec => []LookupPromise
<1> DEFINE I == part = "lookup" => LookupInv(LookupTokens)
<1>1. Init => I
  <2> SUFFICES ASSUME Init, part = "lookup" PROVE LookupInv(LookupTokens)
    OBVIOUS
  <2>1. LookupInit
    BY DEF Init
  <2> QED
    BY <2>1, LookupInvInit
<1>2. I /\ [Next]_vars => I'
  <2> SUFFICES ASSUME I, [Next]_vars, part' = "lookup" PROVE LookupInv(LookupTokens)'
    OBVIOUS
  <2>1. part = "lookup" /\ (LookupNext \/ UNCHANGED lookupVars)
    BY LookupPart
  <2>2. LookupInv(LookupTokens)
    BY <2>1
  <2> QED
    BY ONLY <2>1, <2>2, LookupInvNext
<1>3. I => LookupPromise
  BY LookupInvSound DEF LookupPromise
<1> QED
  BY <1>1, <1>2, <1>3, PTL DEF Spec

=============================================================================
